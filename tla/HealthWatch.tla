---------------------------- MODULE HealthWatch ----------------------------
(***************************************************************************)
(* The health file of one trading date and the watchdog that reads it:     *)
(* HealthTracker of tradier_collector/health.py with all its tickers, as   *)
(* scheduler.py drives it, and check_day of watchdog.py.  The service and  *)
(* a `--once` process each keep a tracker of their own and write the same  *)
(* file, at any moment and in any order.  The watchdog has no state and    *)
(* may run at any moment, so its answer is a function of the state.        *)
(***************************************************************************)
EXTENDS MarketClock

CONSTANTS
    Day,              \* the trading date that is watched
    Tickers,          \* the configured tickers
    Grace,            \* BOUNDARY_GRACE
    HealthWriteEvery, \* HEALTH_WRITE_EVERY
    MaxSilence,       \* max_silence_minutes
    HealthyPct,       \* healthy_coverage_pct, in thousandths of a percent
    WarningPct,       \* warning_coverage_pct, in thousandths of a percent
    RestartDelay,     \* least time between the end of a process and the next start
    MaxWork,          \* how long a cycle may take
    MaxBoots,         \* bound: starts of a process
    MaxDeaths,        \* bound: kills and power failures
    MayStop,          \* a stop signal may arrive
    MayLosePower,     \* the power may fail, which may damage the file: write does not fsync
    MayRunOnce        \* an operator may run `--once`, beside the service or without it

ASSUME HealthWatchAssumption ==
    /\ HasWindow(Day)
    /\ IsFiniteSet(Tickers) /\ Tickers # {}
    /\ {Grace, MaxSilence, HealthyPct, WarningPct, RestartDelay, MaxWork} \subseteq Nat
    /\ {MaxBoots, MaxDeaths} \subseteq Nat
    /\ HealthWriteEvery \in Nat \ {0}
    /\ WarningPct <= HealthyPct /\ HealthyPct <= 100000
    /\ {MayStop, MayLosePower, MayRunOnce} \subseteq BOOLEAN
    /\ None \notin [Tickers -> [observed : Nat, errors : Nat, last : Nat \union {None}]]

VARIABLES
    now,       \* the wall clock
    pc,        \* where the service is; "over" when it has left the date behind
    boundary,  \* the boundary being waited for or sampled
    last,      \* last_scheduled_boundary
    mem,       \* self.health: the tracker, or None
    unwritten, \* _cycles_since_health_write
    file,      \* the health file of Day
    spent,     \* ticks the cycle in flight has taken
    once,      \* self.health of a `--once` process, or None
    onceAt,    \* the timestamp of its cycle
    boots,     \* starts of a process so far
    deaths,    \* kills so far
    since,     \* time of the last end of the service
    sampled,   \* history: the timestamps of all cycles
    observed,  \* history: ticker -> the timestamps at which it was collected
    repeated,  \* history: two cycles had the same timestamp
    beside     \* history: `--once` and the service ran at the same time

processVars == <<pc, boundary, last, mem, unwritten, spent>>
onceVars == <<once, onceAt>>
lifeVars == <<boots, deaths, since>>
historyVars == <<sampled, observed, repeated>>
vars == <<now, processVars, onceVars, file, lifeVars, historyVars, beside>>

Start == SessionOpen[Day]
End   == WindowEnd(Day)
Expected == ExpectedPollTimestamps(Day)

TickerHealth == [observed : Nat, errors : Nat, last : Nat \union {None}]
Unobserved == [t \in Tickers |-> [observed |-> 0, errors |-> 0, last |-> None]]

Files == [kind : {"missing", "damaged", "good"}, finished : BOOLEAN,
          tickers : [Tickers -> TickerHealth]]
NoFile == [kind |-> "missing", finished |-> FALSE, tickers |-> Unobserved]
Damaged == [NoFile EXCEPT !.kind = "damaged"]
Written(tracker, finished) == [kind |-> "good", finished |-> finished, tickers |-> tracker]

\* restore: a missing or damaged file is ignored.
Restored == IF file.kind = "good" THEN file.tickers ELSE Unobserved
----------------------------------------------------------------------------
(***************************************************************************)
(* The service.                                                            *)
(***************************************************************************)
Init ==
    /\ now = 0
    /\ pc = "off"
    /\ boundary = 0 /\ last = None
    /\ mem = None /\ unwritten = 0
    /\ once = None /\ onceAt = 0
    /\ file = NoFile
    /\ spent = 0 /\ boots = 0 /\ deaths = 0 /\ since = 0
    /\ sampled = {} /\ observed = [t \in Tickers |-> {}]
    /\ repeated = FALSE /\ beside = FALSE

\* Time passes; a cycle ends within MaxWork, a sleep may last any time.
Tick ==
    /\ now < Horizon
    /\ pc = "cycle" => spent < MaxWork
    /\ once # None => now - onceAt < MaxWork
    /\ now' = now + 1
    /\ spent' = IF pc = "cycle" THEN spent + 1 ELSE spent
    /\ UNCHANGED <<pc, boundary, last, mem, unwritten, onceVars, file, lifeVars, historyVars,
                   beside>>

MayBoot ==
    /\ pc = "off" /\ boots < MaxBoots
    /\ boots > 0 => now >= since + RestartDelay

Boot ==
    /\ MayBoot
    /\ pc' = "top"
    /\ last' = None
    /\ boots' = boots + 1
    /\ beside' = (beside \/ once # None)
    /\ UNCHANGED <<now, boundary, mem, unwritten, onceVars, file, spent, deaths, since,
                   historyVars>>

Inside == pc = "top" /\ now <= End

\* The boundary the loop of run waits for; none is left near the end of the window.
Chosen == IF now <= Start + Grace /\ last # Start THEN Start ELSE NextBoundary(now)

Schedule ==
    /\ Inside /\ Chosen <= End
    /\ pc' = "wait"
    /\ boundary' = Chosen
    /\ UNCHANGED <<now, last, mem, unwritten, onceVars, file, spent, lifeVars, historyVars, beside>>

SkipStale ==
    /\ pc = "wait" /\ now > boundary + Grace
    /\ pc' = "top"
    /\ UNCHANGED <<now, boundary, last, mem, unwritten, onceVars, file, spent, lifeVars,
                   historyVars, beside>>

\* _ensure_health: the tracker of the day, restored and written at once.
Ensured ==
    IF mem = None
    THEN /\ mem' = Restored
         /\ file' = Written(Restored, FALSE)
         /\ unwritten' = 0
    ELSE UNCHANGED <<mem, file, unwritten>>

BeginCycle ==
    /\ pc = "wait" /\ boundary <= now /\ now <= boundary + Grace
    /\ pc' = "cycle" /\ spent' = 0
    /\ Ensured
    /\ UNCHANGED <<now, boundary, last, onceVars, lifeVars, historyVars, beside>>

\* record_cycle for one ticker: an error is counted and nothing else.
\* Mutated forms: the last cycle is noted, or the cycle counted, before the error
\* is looked at.
CountedLastFirst(health, at, ok) ==
    IF ok THEN [health EXCEPT !.observed = @ + 1, !.last = at]
          ELSE [health EXCEPT !.errors = @ + 1, !.last = at]

CountedAlways(health, at, ok) ==
    [health EXCEPT !.observed = @ + 1, !.last = at, !.errors = @ + (IF ok THEN 0 ELSE 1)]

Counted(health, at, ok) ==
    IF ok THEN [health EXCEPT !.observed = @ + 1, !.last = at]
          ELSE [health EXCEPT !.errors = @ + 1]

\* The tracker after a cycle that collected the tickers of `good`.
Recorded(tracker, at, good) == [t \in Tickers |-> Counted(tracker[t], at, t \in good)]

\* What the cycle adds to the history.
Noted(at, good) ==
    /\ sampled' = sampled \union {at}
    /\ observed' = [t \in Tickers |-> IF t \in good THEN observed[t] \union {at} ELSE observed[t]]
    /\ repeated' = (repeated \/ at \in sampled)

\* Mutated form: the periodic write is one cycle late.
WriteLate == unwritten >= HealthWriteEvery

WriteDue == unwritten + 1 >= HealthWriteEvery

\* The cycle ends with the tickers of `good` collected.
EndCycle(good) ==
    /\ pc = "cycle"
    /\ pc' = "top" /\ last' = boundary
    /\ mem' = Recorded(mem, boundary, good)
    /\ IF WriteDue
       THEN unwritten' = 0 /\ file' = Written(mem', FALSE)
       ELSE unwritten' = unwritten + 1 /\ UNCHANGED file
    /\ Noted(boundary, good)
    /\ UNCHANGED <<now, boundary, onceVars, spent, lifeVars, beside>>

\* Mutated form: the final write does not stamp the finish time.
FinalisedUnstamped == IF mem = None THEN file ELSE Written(mem, FALSE)

\* _finalise_health.
Finalised == IF mem = None THEN file ELSE Written(mem, TRUE)

\* The tracker is dropped; its write counter would be reset with the next tracker.
Forgotten == mem' = None /\ unwritten' = 0

\* The window has ended; the process goes on to the next session.
LeaveDay ==
    /\ pc = "top" /\ now > End
    /\ pc' = "over"
    /\ file' = Finalised
    /\ Forgotten
    /\ UNCHANGED <<now, boundary, last, spent, onceVars, lifeVars, historyVars, beside>>

\* A stop signal outside a cycle; one inside a cycle is seen when it has ended.
GracefulStop ==
    /\ MayStop
    /\ pc \in {"top", "wait"}
    /\ pc' = "off"
    /\ file' = Finalised
    /\ Forgotten
    /\ since' = now
    /\ UNCHANGED <<now, boundary, last, spent, onceVars, boots, deaths, historyVars, beside>>

Kill ==
    /\ pc # "off" /\ deaths < MaxDeaths
    /\ pc' = "off"
    /\ Forgotten
    /\ deaths' = deaths + 1 /\ since' = now
    /\ UNCHANGED <<now, boundary, last, spent, onceVars, file, boots, historyVars, beside>>
----------------------------------------------------------------------------
(***************************************************************************)
(* A `--once` process, and the end of every process.                       *)
(***************************************************************************)
\* run_immediate_cycle: one cycle, labelled with the current time, with its own tracker.
RunOnce ==
    /\ MayRunOnce /\ once = None
    /\ boots < MaxBoots /\ Today(now) = Day
    /\ once' = Restored /\ onceAt' = now
    /\ file' = Written(Restored, FALSE)
    /\ boots' = boots + 1
    /\ beside' = (beside \/ pc # "off")
    /\ UNCHANGED <<now, processVars, deaths, since, historyVars>>

\* Its cycle ends and its file is final, whatever the service does.
EndOnce(good) ==
    /\ once # None
    /\ file' = Written(Recorded(once, onceAt, good), TRUE)
    /\ Noted(onceAt, good)
    /\ once' = None /\ onceAt' = 0
    /\ UNCHANGED <<now, processVars, lifeVars, beside>>

\* Interrupted from the keyboard, it still writes the final file (`finally`).
InterruptOnce ==
    /\ once # None
    /\ file' = Written(once, TRUE)
    /\ once' = None /\ onceAt' = 0
    /\ UNCHANGED <<now, processVars, lifeVars, historyVars, beside>>

\* A power failure ends every process and may damage a file written without fsync.
PowerFails ==
    /\ MayLosePower /\ deaths < MaxDeaths
    /\ pc # "off" \/ once # None
    /\ pc' = "off" /\ once' = None /\ onceAt' = 0
    /\ file' \in IF file.kind = "good" THEN {file, Damaged} ELSE {file}
    /\ Forgotten
    /\ deaths' = deaths + 1 /\ since' = now
    /\ UNCHANGED <<now, boundary, last, spent, boots, historyVars, beside>>

\* The modelled time ends.
TimeEnds == now = Horizon /\ UNCHANGED vars

Next ==
    \/ Tick \/ TimeEnds
    \/ Boot \/ Kill \/ GracefulStop
    \/ Schedule \/ SkipStale \/ BeginCycle \/ LeaveDay
    \/ RunOnce \/ InterruptOnce \/ PowerFails
    \/ \E good \in SUBSET Tickers : EndCycle(good) \/ EndOnce(good)

Spec == Init /\ [][Next]_vars
----------------------------------------------------------------------------
(***************************************************************************)
(* check_day, run at any moment of the day.                                *)
(***************************************************************************)
\* coverage_pct in thousandths of a percent: round(100 * observed / expected, 3).
Coverage(count) ==
    IF Expected = {} THEN 0
    ELSE LET n == Cardinality(Expected) IN (200000 * count + n) \div (2 * n)

Classified(coverage) ==
    IF coverage >= HealthyPct THEN "healthy"
    ELSE IF coverage >= WarningPct THEN "warning" ELSE "failed"

\* The status field of the file: that of its worst ticker, against the whole day.
Status ==
    Classified(Min({Coverage(file.tickers[t].observed) : t \in Tickers}))

SessionRunning  == Start <= now /\ now <= End
SessionFinished == now > End

Silent(t) ==
    /\ SessionRunning
    /\ file.tickers[t].last = None \/ now - file.tickers[t].last > MaxSilence

Below(t, pct) == SessionFinished /\ Coverage(file.tickers[t].observed) < pct

Fatal ==
    \/ file.kind # "good"
    \/ SessionFinished /\ ~file.finished
    \/ \E t \in Tickers : Below(t, WarningPct) \/ Silent(t)
    \/ Status = "failed"

Warning ==
    \/ \E t \in Tickers : Below(t, HealthyPct) \/ file.tickers[t].errors > 0
    \/ Status = "warning"

ExitCode == IF now < Start THEN 0 ELSE IF Fatal THEN 2 ELSE IF Warning THEN 1 ELSE 0
----------------------------------------------------------------------------
(***************************************************************************)
(* Properties.                                                             *)
(***************************************************************************)

\* Every variable has its type: the tracker, the file and the process around them.
TypeOK ==
    /\ now \in Time
    /\ pc \in {"off", "top", "wait", "cycle", "over"}
    /\ boundary \in Nat
    /\ last \in Nat \union {None}
    /\ mem \in [Tickers -> TickerHealth] \union {None}
    /\ pc = "cycle" => mem # None
    /\ unwritten \in Nat
    /\ file \in Files
    /\ spent \in Nat /\ boots \in Nat /\ deaths \in Nat /\ since \in Nat
    /\ once \in [Tickers -> TickerHealth] \union {None} /\ onceAt \in Nat
    /\ sampled \in SUBSET Nat /\ observed \in [Tickers -> SUBSET Nat]
    /\ repeated \in BOOLEAN /\ beside \in BOOLEAN

\* What really was collected of the timestamps QA expects.
RealCoverage(t) == Coverage(Cardinality(observed[t] \intersect Expected))

\* During a session a ticker that has not been collected for longer than MaxSilence
\* is always complained of, whatever the other tickers, the restarts, the age of the
\* file and the process that wrote it last: a silent collector is never taken for a
\* live one (watchdog.py check 3).
SilenceIsSeen ==
    \A t \in Tickers :
        /\ SessionRunning /\ file.kind = "good"
        /\ \A s \in observed[t] : now - s > MaxSilence
        => Silent(t)

\* A silence complaint is never false: a collector that was started once, before the
\* open, and has collected a ticker at every boundary so far is not complained of,
\* once the first periodic write is over, however old the file may be.
SilenceAlarmIsReal ==
    \A t \in Tickers :
        /\ boots = 1 /\ deaths = 0 /\ pc # "off"
        /\ now > Start + (HealthWriteEvery - 1) * Interval + Grace + MaxWork
        /\ \A s \in Expected : s + Grace + MaxWork < now => s \in observed[t]
        => ~Silent(t)

\* A cycle of `--once` outside the grid counts as observed like any other (record_cycle
\* takes every timestamp), and so does one in the very second of a boundary: a day that
\* has one gets no sound verdict.
SampledOnGrid == sampled \subseteq Expected /\ ~repeated

\* After the close the verdict of the watchdog is never better than the day was,
\* whatever kills, restarts and damage happened and in whatever order the processes
\* restored and overwrote the file: exit 0 only for a finalised day whose
\* every ticker has the healthy coverage, exit 1 only above the warning coverage.
VerdictIsSound ==
    SessionFinished /\ SampledOnGrid =>
        /\ ExitCode = 0 => file.finished /\ \A t \in Tickers : RealCoverage(t) >= HealthyPct
        /\ ExitCode <= 1 => file.finished /\ \A t \in Tickers : RealCoverage(t) >= WarningPct

\* Without kills, and without a `--once` process beside the service, whose file and the
\* service's overwrite each other, it is exact: when the service has left the day
\* behind, the exit code is what the collected timestamps and the failed cycles of the
\* day deserve, graceful stops and restarts notwithstanding.
Deserved ==
    IF \E t \in Tickers : RealCoverage(t) < WarningPct THEN 2
    ELSE IF \E t \in Tickers : RealCoverage(t) < HealthyPct \/ observed[t] # sampled THEN 1
    ELSE 0

VerdictIsExact ==
    pc = "over" /\ deaths = 0 /\ ~beside /\ sampled # {} /\ SampledOnGrid => ExitCode = Deserved

\* A session with a recent cycle of every ticker and no error is healthy, as
\* tests/test_watchdog.py:93 expects of a file with last_cycle two minutes ago.
RecentCycleIsHealthy ==
    /\ SessionRunning /\ file.kind = "good"
    /\ \A t \in Tickers : ~Silent(t) /\ file.tickers[t].errors = 0
    => ExitCode = 0
=============================================================================
