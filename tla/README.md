# Verification of the Tradier 0DTE collector

The collector samples option quotes of a few tickers once a minute through every
trading session, for weeks without supervision. This directory holds TLA+ models of
the parts whose correctness depends on order, time and failure, TLC runs over small
instances, and proofs for all instances. Paths below are relative to the repository.

1. [Inventory](#inventory)
2. [Modules and how they correspond to the code](#modules)
3. [Runs, bounds, fairness](#runs)
4. [Proofs](#proofs)
5. [Disagreements with the documentation](#disagreements)
6. [Not modelled](#not-modelled)
7. [Plan](#plan)

## Inventory

One process, single-threaded apart from signal handlers, runs the scheduler; every
other tool is a process of its own that meets it only in files.

| part | state | operations | correct when |
|---|---|---|---|
| market clock `tradier_collector/market_clock.py` | none (a calendar) | `session_window`, `next_boundary`, `expected_poll_timestamps`, `next_session_start` | the boundaries are the least multiples of the interval ahead; the expected timestamps are those the scheduler samples |
| scheduler `scheduler.py` | `_stop`, `health`, `_health_date`, `_cycles_since_health_write`, and in `run` the last boundary | `run`, `_sleep_until`, `_run_one_cycle`, `_ensure_health`, `_finalise_health`, `run_immediate_cycle` | no boundary is missed by a process that is up, none is sampled twice, none stale; a stop ends it; a day is finalised |
| health tracker `tradier_collector/health.py` | counters per ticker, one JSON file per date | `record_cycle`, `write`, `restore`, `status` | a restart forgets nothing that was written; the file tells the truth about the day, and counts only cycles whose rows are stored |
| watchdog `watchdog.py` | none; reads the health file every 10 minutes | `check_day` | silence is always seen and never invented; the verdict after the close is what the day deserves |
| cycle runner, ticker collector `cycle.py`, `collector.py` | trackers per (ticker, date) | `run_cycle`, `collect` | every ticker has its turn and its result; the underlying row comes first |
| expiration resolver, discovery `expiration.py`, `discovery.py` | expirations per (ticker, date) | `zero_dte`, `discover_window`, `apply_discovery` | caches are of the session in progress, and a refresh for one ticker keeps the lists of the others |
| contract tracker `contract_tracker.py` | the sticky universe in memory and one metadata file per (ticker, date) | `load`, `add_contracts`, `save`, `symbols`, quarantine | a contract once requested is requested until the session ends, through restarts; a damaged file is kept |
| storage `storage.py` | daily Parquet files | `_append_snapshot`, `clean_stale_temp_files`, `_atomic_write_table` | an acknowledged row stays; a kill leaves the old or the new file; clean-up disturbs no live writer |
| backup `backup.py` | copies and a manifest | `day_is_complete`, `backup_day` | the manifest describes the copies, and the copies are the day, or lack at most what was in flight |
| API client `tradier_client.py` | an HTTP session; in a request the attempt and the delay | `_request` with its retries, `get_quote`, the list methods, `batched` | retries are bounded and end at the server's verdict; a stop does not wait for ever; batches cover the symbols |
| strike selector `strike_selector.py`, `extract_spot` of `normalization.py` | none | `find_atm_strike`, `select_atm_window` | the window is centred on the strike nearest to the spot, ties go down, malformed rows do not matter |
| QA, validation `qa_report.py`, `validate_dataset.py` | none; read the files of a day | `analyze_day`, the sticky check | a day that lost rows is not called COMPLETE; a sound universe validates |
| normalization, schemas | none | field conversions | |
| configuration, logging, entry point, units | none | parsing, set-up, `Restart=on-failure`, `TimeoutStopSec` | |

Interaction: the scheduler asks the clock for a boundary, sleeps, and calls
`run_cycle`, which calls `collect` for each ticker in turn; `collect` calls the client,
the resolver, the tracker and storage; the result returns to `record_cycle`. The files
are the only other interface: the health file to the watchdog, to a later process
(`restore`) and to the backup; the metadata file to a later process (`load`); the
Parquet files to the backup and to a second process (`main.py --once`).

What is hard: a wall clock that jumps past boundaries and midnight while the process
sleeps; the grace of five seconds at the opening; signals at any moment; kills between
any two steps, restarts by systemd after 10 s; files renamed but not synced; reads,
saves and renames that fail one at a time; two processes and a backup on the same
files; a watchdog that reads a file up to five cycles old; requests that are retried with
delays the server suggests while the supervisor waits for a stop; chains with missing and
malformed rows. `PROJECT.json` lists each
such hazard at its line with the property that would catch it.

## Modules

| module | models | built on |
|---|---|---|
| `MarketClock` | the calendar and boundary arithmetic as operators | |
| `Scheduler` | `CollectorScheduler`: loop, sleep, signals, `--once`, the health file of each date, kills, restarts | `MarketClock` |
| `HealthWatch` | one date with all tickers: the trackers of the service and of a `--once` process, their file, and `check_day` evaluated at every moment | `MarketClock` |
| `ContractTracker` | memory and disk of the contract tracker: load, add, save, quarantine, damage | |
| `StickyUniverse` | abstract: what is requested of a (ticker, date) only grows | |
| `Collection` | `run_cycle` and `_collect_inner`, step by step, with every failure | `ContractTracker`; refines `StickyUniverse` |
| `Dataset` | what `qa_report.py` and `validate_dataset.py` say of the files a `Collection` leaves, at every moment | `Collection` |
| `Collector` | the process around the cycles: the health tracker that records them, its files, the ways the process ends | `Dataset`; implements `Collection` |
| `DailyFiles` | `_append_snapshot` step by step in several processes, beside `backup_day` | |
| `Client` | `_request` with its attempts and delays, cycle after cycle, under a stop and the supervisor's timeout | |
| `StrikeSelector` | the slice of the strike window as operators | |
| `AtmSearch` | spot, usable rows, the scan for the ATM strike and the window, step by step | `StrikeSelector` |
| `MC*` | instances for TLC | |
| `*Proofs` | theorems | the module they are about |

**MarketClock.** Time is `0 .. Horizon` in ticks of any length; `DateOf` stands for the
market date of a moment, `SessionOpen`, `SessionClose`, `EquityClose` for the exchange
calendar. An early close is recognised as in `is_early_close`, by the equity close
being before the regular one, and shortens the window as `session_window` does.

**Scheduler.** `pc` is the line the process is at: `top` (the head of the loop), `sleep`
(with `purpose`: a boundary, past the close, the next session), `ensure` and `cycle` (the
two halves of `_run_one_cycle`), `finally`, `off`. `LoopInside`, `LoopOutside`,
`WakeStale`, `WakeInTime`, ... are the paths through the loop; the local variables a sleep
carries along (`boundary`, `trading_date`) are variables of the model, since they may be
stale when it ends. A sleep is a sequence of slices (`SliceOver`, `SleepOn`) that ends
early only at a slice. A sleep may overshoot by `MaxLag`, computing may take `MaxStep`
outside a cycle and `MaxWork` with one. Every health write may raise, which leads to
`finally` as the exception does, and a death by SIGKILL may come anywhere; it leaves the
files as they were (the damage a power failure does to a health file is in `HealthWatch`
and `Collector`, and may cost all its counters, against which neither `LossBounded` nor
`CountersNeverDrop` speaks). `run_cycle` is one step with a success bit, for one ticker:
`Collector` opens that step, `HealthWatch` has all the tickers. Counters of a file are the
cycles and the set of observed timestamps.

**HealthWatch.** The same process seen from one date, with less of the loop (a sleep is
the state `wait`) and more of the tracker: each ticker has its observed cycles, errors and
last successful cycle, `Ensured` restores and writes, `EndCycle(good)` records any subset
of the tickers as successful, writes every `HealthWriteEvery` cycles, and a kill with
power loss may damage the file, which `restore` ignores. A `--once` process (`RunOnce`,
`EndOnce`, `InterruptOnce`) has a tracker of its own, which it restores from the same file
and writes to it, before, beside or after the service. The watchdog has no state:
`Silent`, `Below`, `Fatal`, `Warning` and `ExitCode` are its checks as operators of the
state and the clock, so every invariant speaks about it running at every moment.
Percentages are rounded to thousandths as `coverage_pct` does. The history variables
`observed`, `sampled`, `repeated` and `beside` record what really happened, for the
properties to compare the file with.

**ContractTracker and Collection.** A key is a (ticker, date). `mem` and `disk` hold, per
contract, its `first_discovered_utc` (the number of the cycle; 0: unknown); `disk` also
the kind of file: missing, damaged, good. `exposed` is what the last `symbols` call
returned. `LoadFound`, `LoadCorrupt`, `AddNothing`, `AddSaved`, `AddUnsaved` are the
outcomes of `load` and `add_contracts`; `Crash` empties the memory and may damage a file,
there being no fsync. `_atomic_write_table` does not sync either, so a `Restart` after a
power failure may also destroy Parquet files of the session (`Tear`): `underlyingTorn` and
`optionsTorn` hold the cycle in which that happened. Such a file is never repaired: every
later append to it raises in `_append_snapshot`, which `QuoteFails` and `AppendFails` then
must, and the reports stop with an exception (`Readable` in `Dataset`). In `Collection`,
`pc` is the step of `_collect_inner` that comes next, every request, read, save and append
may fail on its own, `Raise` is the `except` of `collect`, and `Return` goes to the next
ticker. Windows of strikes come from a constant set, as the spot moves; the instances make
them with the slice of `StrikeSelector`.

**Dataset** adds no variable and no action to `Collection`: `Classification` is
`analyze_day` with `_classify`, `StickyCheck` is the check of `validate`, both functions of
the rows and the metadata file, so every invariant speaks of the reports run at every
moment. Of the rows per cycle, `ThinCycle` compares with half the median, kept exact as the
sum of the two middle values; coverage is compared exactly instead of rounded to three
decimals. Duplicate rows and odd prices, which the storage and the API decide, and the
check that some sampled contract has left the window are left out.

**Collector** puts the cycles of `Collection` into the process that runs them. `Begin` is
`_ensure_health` with the head of `run_cycle`: a tracker of another date is written for
the last time, that of the day is restored from its file. `Collect` is any step of a
cycle, `Record` is `record_cycle` with the periodic write, `RecordFails` the same when
that write raises and `finally` tries again, `CloseDay` the final write after the window,
`Stop` and `Kill` the ends of a process with and without a last write, `NextDay` midnight.
Which boundary a cycle belongs to is left to `Scheduler`: a cycle may begin whenever none
runs. Of a tracker only the cycles it counts as observed are kept, per ticker, so that
they can be compared with the rows in the files; the history variable `lossy` has the
cycles that were recorded with failed quote batches. A power failure (`Kill`) may damage
the health file of a date and the metadata and Parquet files independently of each other,
so a health file may survive that counts cycles whose rows are gone; `CountedIsStored`
says that they were stored, and that nothing is counted after the loss. Every action is an
action of `Collection` or leaves its variables alone, which is proved, so what holds of
the cycles holds in this process.

**DailyFiles.** A cycle is one set of rows; a file is the set of cycles whose rows it
holds. `ReadFile` (clean-up, read, concatenate), `WriteTemp`, `Replace` and `AppendFails`
are the steps of `_append_snapshot`, and two writers interleave between them. Temp files
have an age; `Kill`, a SIGKILL, leaves one behind and every other file as it was: what a
power failure does to a rename that was not synced is modelled in `Collection` and
`Collector`. `BeginBackup`, `SkipMissing`, `Checksum`, `Store`, `EndBackup`, `BackupDies`
are `backup_day`, which may run beside all that. The history variables note the appends
that returned (`acked`), those of a file that overlapped (`raced`, by file and cycle), the
files replaced since the last backup began (`touched`) and what was acknowledged then
(`begun`).

**Client.** `pc` says what the process waits for: nothing (`idle`), the next request of a
cycle (`between`), an answer (`get`), the end of a delay (`sleep`). A call of
`session.get` takes up to `AttemptTime`, computing between requests up to `MaxWork`; a
delay is slept in full, as `time.sleep` under a handler that only sets a flag is. `Retry`,
`GiveUp`, `Refuse` and `Deliver` are what `_request` does with an answer. `RequestStop` is
SIGTERM, seen only in `EndCycle`; `KillStopped` is the supervisor after `TimeoutStopSec`.
Answers are six kinds of status and payload; `Suggestions` are the values of Retry-After.

**AtmSearch.** A discovery is `TakeSpot`, `TakeChain`, `StartScan`, one `Look` per strike
in ascending order, and `SelectWindow`. Prices are integers (half ticks in the instance, so
that a midpoint is one), and the `1e-9` of the comparison is `Tolerance`. A row of a chain
has a strike, a side and, or not, a symbol.

Operators whose comment says "Mutated form" are not used by the specifications: each
stands for a plausible bug of the definition it precedes, and `PROJECT.json` names the
property that finds it when it is put in that definition's place.

## Runs

| run | module | outcome |
|---|---|---|
| `Scheduler_faults` | `MCScheduler` | stalls of any length, kills, failing writes, `--once`: `BoundariesAdvance`, `LossBounded`, `CountsAreOfTheDay`, `OnTheGrid`, `NeverEarlyNeverStale`, `CountersNeverDrop` hold |
| `Scheduler_timely` | `MCScheduler` | oversleeps and work that fit grace and interval, no kills: `NoBoundaryMissed`, `StopIsPrompt` hold, and under fairness `StopLeadsToExit`, `DayFinalised` |
| `Collection_day` | `MCDataset` | `RowsAreOfKnownContracts`, `QuotedIsPersisted`, `LossIsReported`, `FailureShows`, `FullCycleValidates` and the refinement `StickySpec` hold when storage works; requests, appends and the process fail |
| `Collection_damage` | `MCCollection` | two tickers, two sessions: failing requests, appends, saves and reads, a power failure that destroys metadata and Parquet files: `OneSessionInMemory`, `CorruptFilesPreserved`, `SavedContractsStay`, `DiscoveryTimesStay`, `UnderlyingFirst`, `EveryTickerReports`, `ListedStays` hold |
| `Collector_health` | `MCCollector` | one ticker, two sessions, two batches, every failure of a request or a write, a power failure that destroys any file: `CountedIsStored` holds, and under fairness `CycleIsRecorded` |
| `Collection_unsaved` | `MCCollection` | `StickySpec` is violated by one failing save and a restart |
| `HealthWatch_day` | `MCHealthWatch` | `SilenceIsSeen`, `SilenceAlarmIsReal`, `VerdictIsSound`, `VerdictIsExact` hold through stops, a kill, a damaged file, a restart, and `--once` before, beside or after the service |
| `HealthWatch_session` | `MCHealthWatch` | `RecentCycleIsHealthy` is violated in a session without any failure: after two of eight cycles, both just collected, the exit code is 2 |
| `DailyFiles_append` | `MCDailyFiles` | `AcknowledgedStays`, `WriterUndisturbed`, `BackupIsRecent`, `BackupFaithful` hold for two writers, two files, a kill, two backups |
| `Client_stop` | `MCClient` | every answer, every suggested delay, a stop at any moment, a timeout between one request and two: `RequestTimeBounded`, `EndsAtTheVerdict` hold, and under fairness `StopInTimeExits` |
| `Client_impatient` | `MCClient` | with the shipped limits `StopIsPolite` is violated by a single request |
| `AtmSearch_window` | `MCAtmSearch` | every chain over five strikes, every kind of quote: `AtmIsNearest`, `WindowIsCentred`, `WindowIsQuotable` hold |

`Scheduler_faults` also checks the type invariant `TypeOK` of its module; those of
`Collection`, `Collector`, `HealthWatch`, `DailyFiles` and `Client` are proved.

**Bounds, and why they are enough.** Scheduler: two days, a regular session and an early
close, four (timely: five) boundaries, of which the opening is on the grid, the end is
not, and the sessions are a night apart, so that a stall can cross a boundary, a close, a
midnight and a night; `MaxLag = 17` in `Scheduler_faults` is nearly the whole calendar.
`MaxBoots = 2` and `MaxDeaths = 1` give a life, its end by kill, failed write or stop, and
a restart at any later moment (`MaxDeaths` does not bound failed writes, only kills).
`HealthWriteEvery = 2` has a cycle that is written and one that is not. `Scheduler_timely`
uses constants just within what `NoBoundaryMissed` needs: an oversleep and the steps to
the check fit the grace, an oversleep and a cycle the interval; the same run checks
liveness, its calendar being long enough for a stop in each of the two sessions, in the
night between and after the last. Collection: windows of two strikes sliding over three
need three cycles to visit all positions and come back; batches of two make the second
batch a partial one. `Collection_damage`: two cycles over two tickers and two dates, so
that they are of one date or of both, on either side of the death or with it in the first;
two contracts, of which a window may have one, so that a later discovery adds to an
earlier. `Collector_health`: three cycles over two dates, so that two may be of one date,
on either side of a death, or of both, before or after the first day was closed; batches
of one contract, two of them, so that one can fail alone; a write of the health file every
second cycle; one death or stop anywhere, with or without a power failure that destroys
any of the files, whose damage the second process meets in a whole further cycle. Dataset:
three expected cycles and a fourth off the grid (a `--once` after the close); 60 % lies
between one and two of three cycles, 98 % above two; the sample of two out of three
contracts has a step, and with `TailCycles = 0` only the last cycle counts. HealthWatch:
four boundaries and a write every second cycle, so that the file lags by none or one;
thresholds of 75 % and 50 % lie at three and two of the four cycles, so all three verdicts
occur; the second start is a restart or a `--once` process, which one death and any stop
may precede; `MaxSilence = 6 = HealthWriteEvery * Interval + Grace + MaxWork` is the least
limit for which `SilenceAlarmIsReal` holds (the shipped values have 5 minutes and some
seconds against 10). In so short a session a silence longer than that is nearly always
that of a ticker never collected, and a file is old only by one cycle; longer silences and
other write periods are left to `SilenceIsAlwaysSeen` and `SilenceAlarmsAreReal`.
`HealthWatch_session` has eight boundaries, so that the first periodic write, of two
cycles, is below the warning threshold, as the 5 of some 400 cycles of a real session are.
DailyFiles: `StaleAge = 1` and `MaxWrite = 0` distinguish young and stale, which is all
the code does (a live temp file does not age in the run; that it stays however long an
append takes, up to the stale age, is proved in `WritersAreUndisturbed`); two cycles and
two files give both overlap and succession. Client: three attempts are two delays, one
from a header and one not; the suggestions are negative, below the backoff, between, at
the limit and above it; two requests have work between them; `StopTimeout = 20` is more
than the slowest request takes and less than the slowest cycle, so some stops fit and some
are killed. `Client_impatient` has the shipped values in seconds (connect and read timeout
5 + 20) and one request, the least a cycle can have. AtmSearch: strikes 2, 4, 6, 6.5 and
11 with spots on them, beside them, half-way between two and outside all; each strike is
absent, whole, one-sided or only malformed, so a window of two on each side is whole, cut
on either side or both. The bounds on the environment (`MaxBoots`, `MaxDeaths`,
`MaxCycles`, `MaxBackups`) are in the guards that spend them.

**Where a model stops.** `CalendarEnds`, `TimeEnds` and `Bounded` are stuttering steps
enabled only at the last instant of the modelled calendar or when the last cycle has
run, so that deadlock is checked everywhere before. `DailyFiles` really may stop (no
writer and no backup left to begin), and its runs do not check deadlock.

**Fairness.** `FairSpec` of `Scheduler` assumes `WF(Tick)`, wall time passes, and
`WF(Step)`, the operating system schedules the process; nothing obliges a signal, a kill
or a supervisor to act. The process is sequential and its next step, once enabled, stays
enabled until it is taken or the process dies, so weak fairness is enough.
`FairCollectorSpec` assumes `WF(Collect)` and `WF(Record)`: a cycle that has begun is
carried on, each request being bounded by its timeout and its retries, and recorded when
it ends; nothing obliges a cycle to begin. `FairSpec` of `Client` assumes `WF(Tick)` and
`WF(Request \/ EndCycle)`: wall time passes, a call ends by an answer or by its timeout,
and the cycle goes on; neither a stop nor a good answer is ever obliged to come.

## Proofs

All proofs are for every value of the constants that satisfies the named assumptions
of the modules, hence for every calendar, interval, write period, number of tickers,
writers, files, starts and kills, attempts, timeouts and chains.

| theorem | assumes | says |
|---|---|---|
| `MarketClockProofs!NextBoundaryIsNext` | | `next_boundary` is the least multiple of the interval after the moment |
| `SchedulerProofs!TypeCorrect` | | `[]TypeOK` |
| `SchedulerProofs!BoundariesAlwaysAdvance` | `OpeningsApart`, `RestartsApart` | `[]BoundariesAdvance` |
| `SchedulerProofs!LossIsBounded` | | `[]LossBounded` |
| `SchedulerProofs!CountersAreKept` | | `CountersNeverDrop` |
| `SchedulerProofs!CyclesArePunctual`, `!StopsArePrompt` | | `NeverEarlyNeverStale`, `[]StopIsPrompt` |
| `SchedulerProofs!SamplesAreOnTheGrid` | `OpeningsOnGrid` | `OnTheGrid` |
| `SchedulerProofs!NoBoundaryIsMissed` | `SleepsFit`, `WindowsHold`, `SessionsApart`, `OpeningsOnGrid`, `OpeningsAfterMidnight` | `[]NoBoundaryMissed` |
| `SchedulerProofs!CountsStayOfTheDay` | `OpeningsApart`, `RestartsApart` | `[]CountsAreOfTheDay` |
| `CollectionProofs!TypeCorrect`, `!SessionsStayApart`, `!UnderlyingComesFirst` | | `[]TypeOK`, `[]OneSessionInMemory`, `[]UnderlyingFirst` |
| `CollectionProofs!RequestsArePersisted`, `!RowsHaveMetadata`, `!CollectionIsSticky` | `StorageReliable` | `[]QuotedIsPersisted`, `[]RowsAreOfKnownContracts`, the refinement `StickySpec` |
| `CollectionProofs!SavedContractsAreKept`, `!DiscoveryTimesAreStable`, `!DamagedFilesAreKept` | `~MayFailQuarantine` | `SavedContractsStay`, `DiscoveryTimesStay`, `CorruptFilesPreserved` |
| `CollectionProofs!ListsStay` | | `ListedStays` |
| `CollectorProofs!TickersAlwaysReport`, `!LossIsAlwaysReported`, `!FailuresAlwaysShow` | | `EveryTickerReports`, `[]LossIsReported`, `[]FailureShows` |
| `CollectorProofs!FullCyclesValidate` | `StorageReliable` | `[]FullCycleValidates` |
| `CollectorProofs!CollectorImplementsCollection` | | `CollectorSpec => Spec` of `Collection` |
| `CollectorProofs!CollectorIsolatesTickers` | | `[]UnderlyingFirst`, `EveryTickerReports`, `ListedStays` of the whole collector |
| `CollectorProofs!CollectorTypeCorrect`, `!CountedCyclesAreStored` | | `[]CollectorTypeOK`, `[]CountedIsStored` |
| `HealthWatchProofs!TypeCorrect`, `!SilenceIsAlwaysSeen` | | `[]TypeOK`, `[]SilenceIsSeen` |
| `HealthWatchProofs!SilenceAlarmsAreReal` | `OpeningOnGrid`, `OpeningApart`, `PatientEnough` | `[]SilenceAlarmIsReal` |
| `HealthWatchProofs!VerdictIsAlwaysSound`, `!VerdictIsAlwaysExact` | | `[]VerdictIsSound`, `[]VerdictIsExact` |
| `DailyFilesProofs!TypeCorrect`, `!AcknowledgedIsKept`, `!WritersAreUndisturbed` | | `[]TypeOK`, `[]AcknowledgedStays`, `[]WriterUndisturbed` |
| `DailyFilesProofs!EndedBackupsAreRecent`, `!UndisturbedBackupIsFaithful` | | `[]BackupIsRecent`, `[]BackupFaithful` |
| `ClientProofs!TypeCorrect`, `!RequestsAreBounded`, `!RequestsEndAtTheVerdict` | | `[]TypeOK`, `[]RequestTimeBounded`, `[]EndsAtTheVerdict` |
| `ClientProofs!StopsInTimeArePolite` | | `[](StopInTime => []StopIsPolite)` |
| `AtmSearchProofs!AtmIsAlwaysNearest`, `!WindowIsAlwaysCentred`, `!WindowIsAlwaysQuotable` | | `[]AtmIsNearest`, `[]WindowIsCentred`, `[]WindowIsQuotable` |

The arguments:

* *Boundaries advance* (`AdvanceInv`). That the samples ascend says nothing about what
  the next one will be. The invariant adds that all samples lie at or before the clock,
  that a process without a last boundary (a fresh one) sees only samples older than the
  grace, which is where `RestartsApart` is needed (`RestartSec=10` against 5 s), and that
  a boundary being slept for lies after all samples. The opening is chosen again only
  within its grace while another boundary is the last one; that boundary would be a grid
  point between the opening and its grace, which `OpeningsApart` excludes; without it, TLC
  finds the opening sampled twice.
* *Loss* (`HealthInv`). The live tracker is ahead of its file by at most the unwritten
  cycles, fewer than the write period except on the way out after a failed write; what
  was recorded and is in neither was lost in a death, at most a period each.
  `CountersNeverDrop` follows from its first conjunct: every write writes at least what
  the file has, because the tracker restored it.
* *Punctual cycles* (`PunctualInv`): a process that sleeps for a boundary sleeps until that
  boundary, and what passes after the check of the grace is counted in `spent`.
* *Prompt stops* (`StopInv`): the slice in which the stop arrives had begun before it, and
  whoever is not asleep has spent at most `MaxWork` since the slice ended.
* *The grid* (`DatedInv`, `GridInv`). A boundary the service waits for, or has just woken
  for, belongs to `trading_date`, and is expected on it: a multiple of the interval within
  the window, which an opening is by `OpeningsOnGrid`. The property speaks of the samples of
  the service, so a `--once`, which samples at any second, may come before, between or after
  without an assumption that excludes it.
* *No boundary missed* (`MissInv`). What a service has not sampled although it came to its
  loop before it lies ahead: at or after the boundary or the opening it sleeps for, and,
  when it is awake, beyond all the work it may do before it chooses again, since a cycle
  begun within an oversleep of its boundary is over before the next (`SleepsFit`). The one
  exception is an opening it has just been woken for, an oversleep ago: the grace holds
  that and the steps to the check, the window is long enough (`WindowsHold`), so the
  opening is chosen. Between the close and the next opening nothing is expected;
  `SessionsApart` and `OpeningsAfterMidnight` keep the sleeps past the close and the
  `now + Minute` of `_wait_for_next_session` from running over an opening.
* *Counts of the day* (`StampInv`). Each set of counters counts its stamps, all of them
  samples of its date; that a boundary about to be recorded is not yet among them needs
  that the boundaries advance, over all lives, and hence the assumptions of that theorem.
* *The sticky universe* (`StorageInv`). Memory equals disk whenever loaded, and what was
  requested is on disk; only then does a restart map to a stutter of `StickyUniverse`.
* *What is saved stays* (`SavedInv`). With failing saves memory may be ahead of the
  disk, never behind it, and agrees with it on discovery times; with `DamagedUnloaded`,
  a tracker is never loaded over a damaged file, so no save overwrites one.
* *The lists of the day* (`RefreshInv`): a refresh is reached only with the ticker's own list
  answered and without today, and it rebuilds the cache from all the lists of the date, so
  no list that names today is asked for again or dropped.
* *The collector and its cycles* (`StepsOfCycles`). No refinement mapping is needed beyond
  forgetting the new variables: the health tracker reads what a cycle reports and a cycle
  reads nothing of it.
* *Counted cycles are stored* (`StoredInv`, with `UnderlyingInv` and `TurnsInv` of the
  cycles). That a counted cycle has its rows is not inductive: a cycle is counted only
  after all tickers have had their turn, from what they reported. `PendingInv` says that
  each result so far that will be counted has its rows already, `RecordedOnce` that the cycle
  in flight is not yet counted anywhere, so what is counted of other cycles cannot depend on
  it. The tracker in hand is that of the cycle's date (`CollectorTypeOK`); were a tracker of
  yesterday taken for that of the day, its counts would be those of rows under another key.
  A power failure destroys files and ends the process in one step: whatever it destroys was of
  cycles up to `underlyingTorn` and `optionsTorn` (`StoredKept`), and nothing is pending
  afterwards; a later cycle is pending only with its rows in the file, which a file that is
  destroyed never gets.
* *The underlying first* (`UnderlyingInv`): from the quote on, the cycle's own row is there.
* *Turns and losses* (`TurnsInv`, `ReportInv`): the tickers before the present turn have a
  result, those from it on are not `ok`; a ticker that is not `ok` has no option row of the
  cycle, so either its underlying row stands alone, which the report sees, or there is none.
* *Full cycles* (`FullCycleInv`): once the current cycle has rows of a ticker, all that
  its metadata names was asked for in that cycle, because the ticker's discovery comes
  before its rows; the contract of the first stored row is a morning contract, so the
  sample is not empty.
* *Real alarms* (`OrderInv`, `LagInv`): in one life the samples ascend and the file lacks
  fewer cycles of a ticker than a write period, while a complaint would need a whole write
  period of expected timestamps newer than the file; the two counts cannot both hold.
* *Silence* (`SilenceInv`): the last cycle of a ticker, in the file and in memory, is one
  at which it was collected. A file that is old, restored or finalised can only make the
  collector look older.
* *Sound verdicts* (`CountInv`). Unless a timestamp was sampled twice, no tracker, in the
  file or in a process, counts more than the timestamps at which its tickers were collected:
  restoring from an older file or overwriting a newer one only makes it less.
* *Exact verdicts* (`ExactInv`). Without deaths and overlaps one process at a time holds the
  tracker, which counts exactly; between two processes the file is equal to it and final.
* *Acknowledged rows* (`FileInv`): the table an append is going to rename over its file
  holds every acknowledged row of the file whose own append overlapped no other, since such
  a row was stored before the append read the file, or else the two would have overlapped.
* *Recent backups* (`RecentInv`): of each file already passed, the digest and, once copied,
  the copy have every row acknowledged before the backup began (`OwedSoFar`); when the backup
  comes to a file, by the previous invariant the file still has them. An append in between
  replaces the file by one with more of them, so no assumption keeps writers away.
* *Live writers* (`TempInv`): the temp file of a live append exists, is of its own cycle
  (`CyclesApart`) and no older than `MaxWrite < StaleAge`, so no clean-up takes it.
* *Backups* (`BackupInv`): while no file is replaced, the files already passed have a copy
  that is the file and its checksum.
* *Requests* (`ElapsedInv`, `VerdictInv`): before attempt n at most n - 1 rounds of a call
  and a delay have passed, and n - 1 transient answers have come.
* *Polite stops* (`Obeying`): once a stop has come while the longest rest of the cycle in
  flight (the rest of its request and all requests it may still make, every answer being the
  slowest) fits what is left of the timeout, every step keeps it so: a tick takes as much from
  the rest as from the patience, any other step leaves the rest no longer than it was. No
  limit is assumed: with the shipped ones it speaks of stops near the end of a cycle, and of
  all others `Client_impatient` shows what may happen.
* *The nearest strike* (`ScanInv`): the best strike so far beats all that have been looked
  at, which all lie below those that have not.
* *The centred window* (`SliceInv`, `StrikesOfPositions`): the position in the sorted list
  is a bijection between the strikes and 0 .. n - 1, so a slice has as many strikes as
  positions, and what it leaves out lies beyond its ends.

Model-checked only: liveness (`StopLeadsToExit`, `DayFinalised`, `CycleIsRecorded`,
`StopInTimeExits`), which the prover does not reach, as it does not reach ENABLED or what
recursive definitions compute. Every invariant and every action property that holds in a
run is proved.

## Disagreements

With a run that shows it:

* `health.py:147`: `status` compares the cycles so far with the whole day's, so during a
  session the periodic file says `failed`, then `warning`, and the watchdog, which the timer
  runs every ten minutes of the session, exits 2, then 1, over a collector that works
  (`HealthWatch_session` ends at an exit 2).
* `contract_tracker.py:213`: contracts whose save failed stay in memory, are not new any
  more and are never saved unless another contract appears (`Collection_unsaved`).
* `tradier-collector.service:39`: the unit stops the service "politely so the current cycle
  can finish and the health file can be written", but a cycle in flight may sleep two
  Retry-After delays of two minutes against `TimeoutStopSec=90` (`Client_impatient`).

Met while modelling, without a run:

* `backup.py:96`: a day counts as complete while its last cycle still writes, so a backup
  right after the close may copy files that are about to be replaced. By `BackupIsRecent`
  such a copy lacks at most rows that were not yet acknowledged when the backup began.
* `scheduler.py:170`: with an interval within the grace the opening is sampled twice,
  which docs/wiki/06-scheduler.md excludes.
* `qa_report.py`: a day without a failure whose universe grows to more than twice its
  median is SUSPICIOUS for its thin first cycles, which docs/wiki/18-failure-modes.md:22
  explains by a batch that failed.
* `validate_dataset.py`: the sticky check takes its contracts from the metadata file, so it
  does not see those `Collection_unsaved` loses, against docs/wiki/02-invariants.md:39; and
  its check of contracts outside the window fails on a day calm enough to have none.
* `scheduler.py:267`: a `--once` beside the service overwrites the health file and is
  overwritten; the cycles of one of them are lost from it, and one in the very second of a
  boundary is counted twice. `VerdictIsExact` therefore excludes `beside`, and
  `SampledOnGrid` the repetition; `VerdictIsSound` holds with overlaps.
* `scheduler.py:163`: a process killed near the close and restarted after it has no
  tracker, so the day keeps no finish time, against `health.py:5` ("finalised at the end
  of the session"); the watchdog reports it.
* `contract_tracker.py:152`: when the quarantine rename fails, the damaged file is
  overwritten by the next save, against line 12 ("never silently overwritten").
  `CorruptFilesPreserved` is proved for `~MayFailQuarantine`.
* `collector.py:260`: "all quote batches failed" is also reported when some batch
  succeeded without rows (docs/wiki/09-collection-cycle.md:40 says only when every batch failed).
* `scheduler.py:182`: the opening is sampled also when it is off the interval grid, where
  `expected_poll_timestamps` (`market_clock.py:184`) does not expect it; in every run the
  openings are on the grid, as 09:30 is for whole minutes.
* `health.py:136`: a `--once` cycle counts as observed whatever its timestamp, so
  coverage may pass 100 % or hide a missed boundary; the verdict properties therefore
  assume `SampledOnGrid`.
* A process restarted by hand within the grace after an opening samples it again: the
  last boundary is a local variable (`scheduler.py:155`). `RestartSec=10` keeps the
  supervisor from it.
* `expiration.py:54`: the forced refresh is repeated each cycle for a ticker without a
  same-day expiration (line 42 says once).
* `tradier_client.py`: the delay is the larger of backoff and Retry-After
  (docs/wiki/04-tradier-client.md:53 says Retry-After overrides).
* `storage.py:177`: two processes appending to one file at once lose the rows of the
  first; `AcknowledgedStays` excludes the rows of such a pair of appends, which `raced`
  records, and none that came before or after.
* `storage.py:152-153`: a daily Parquet file is replaced without fsync, so a power failure may
  leave it truncated. Every later append of that file then raises (`storage.py:177`), no code
  repairs it or moves it away, as the tracker does with its metadata, and `qa_report.py` and
  `validate_dataset.py` stop with an exception. The health file may survive and go on
  counting the cycles whose rows are gone. `Collection` models the truncation;
  `CountedIsStored` says what remains true.
* `contract_tracker.py:163`: a `--once` beside the service has a tracker of its own and
  overwrites the metadata file of the service, or is overwritten, so contracts one of them
  quotes may be missing from it. `Collection` models one process at a time, and nothing here
  speaks of two of them on the metadata file.
* `backup.py:134`: with a file replaced between checksum and copy, the manifest
  does not describe the copy; `BackupFaithful` excludes it, and `BackupIsRecent` says what
  both still have in common.

## Not modelled

The rows of `normalization.py` and the schemas are conversions of fields, without state or
order; of them only `extract_spot` decides anything that is modelled. Logging, the
configuration and the scripts likewise; the accepted ranges of the configuration justify
the assumptions on the constants. Of an HTTP response only its status, its Retry-After and
whether its payload holds what was asked for are modelled; redaction of bodies and headers
is not. The composed collection takes a request to succeed or to fail and any of a set of
windows to come: `Client` and `AtmSearch` open these two steps, as `Collector` opens the
cycle of `Scheduler`. Dedupe keys, casts and sort order of Parquet rows,
`largest_gap_minutes` and the row counters of the health file decide nothing that is
checked. A power failure is modelled as the loss of what was renamed but not synced: a
metadata, Parquet or health file that cannot be read any more. Parquet files are only
destroyed in the session being collected, and each file either wholly or not at all; that
a file system brings back an older version of one file beside newer ones is not modelled.
`AttemptTime` takes the connect and the read timeout for a bound of a call, which a
response that trickles in, a byte within each read timeout, can exceed. Of the offline
reports, duplicates, prices and the printed tables are left out, and `find_complete_days`,
which lists directories.

## Plan

Done, in this order: `MarketClock`, `Scheduler`, `ContractTracker` with `StickyUniverse`,
`Collection`, `HealthWatch`, `DailyFiles`, and the proofs of each; then `Client`,
`StrikeSelector` with `AtmSearch`, `Dataset`, the `--once` process in `HealthWatch`, their
proofs, and those of the verdict, of the backup and of what `Scheduler` still had open; then
`Collector`, the composition of the cycles with the tracker that counts them, the proof that
it implements `Collection`, and the proofs about lists, counts, backups under way and the
grid beside a `--once`.

Left:

1. The composition of `Collector` with `DailyFiles`: rows as files of appends, so that what
   the health counts is compared with what survives a second process.
2. Theorems without an assumption where one can go: which of the assumptions of
   `NoBoundaryIsMissed` are necessary.
3. The row conversions of `normalization.py`, against the schemas.

`HealthWatch` is not a literal abstraction of `Scheduler` on one date: it waits for its
boundary from the step that chooses it, where `Scheduler` sleeps in slices that a stop may
end, and its `--once` is a process of its own. The two are checked apart, each against what
the files say.
