------------------------------ MODULE Collector ------------------------------
(***************************************************************************)
(* The collector process around the cycles of Collection: run of           *)
(* scheduler.py with the health tracker of the day, record_cycle of        *)
(* tradier_collector/health.py after every cycle, and the health files, of *)
(* which only the observed cycles are kept.  When a cycle is due is        *)
(* Scheduler.tla's question; here it may be due whenever there is none.    *)
(***************************************************************************)
EXTENDS Dataset

CONSTANTS
    HealthWriteEvery, \* HEALTH_WRITE_EVERY
    MayFailWrite,     \* a health write may raise OSError
    None              \* no date

ASSUME CollectorAssumption ==
    /\ HealthWriteEvery \in Nat \ {0}
    /\ MayFailWrite \in BOOLEAN
    /\ None \notin Dates

VARIABLES
    unrecorded, \* run_cycle has returned and record_cycle has not been called
    healthDate, \* self._health_date; None when self.health is None
    tracker,    \* self.health: ticker -> the cycles it counts as observed
    unwritten,  \* self._cycles_since_health_write
    health,     \* date -> the health file; nothing observed when missing or damaged
    lossy       \* history: key -> the recorded cycles that lost quote batches

healthVars == <<healthDate, tracker, unwritten>>
collectorVars == <<vars, unrecorded, healthVars, health, lossy>>

Unobserved == [t \in TickerSet |-> {}]

\* The process is between two cycles.
Between == pc = "idle" /\ ~unrecorded
----------------------------------------------------------------------------
CollectorInit ==
    /\ Init
    /\ unrecorded = FALSE
    /\ healthDate = None /\ tracker = Unobserved /\ unwritten = 0
    /\ health = [d \in Dates |-> Unobserved]
    /\ lossy = [k \in Keys |-> {}]

\* Mutated form: the tracker of any date is taken for that of the day.
AnyTracker == healthDate # None

TrackerOfDay == healthDate = date

\* The files after health.write of the live tracker.
Written == IF healthDate = None THEN health ELSE [health EXCEPT ![healthDate] = tracker]

\* _ensure_health: the tracker of another date is written for the last time, that of
\* the day restored from its file and written at once.
Ensure ==
    IF TrackerOfDay THEN UNCHANGED <<healthVars, health>>
    ELSE /\ healthDate' = date
         /\ tracker' = health[date]
         /\ unwritten' = 0
         /\ health' = [Written EXCEPT ![date] = tracker']

Begin ==
    /\ ~unrecorded
    /\ BeginCycle
    /\ Ensure
    /\ UNCHANGED <<unrecorded, lossy>>

\* A step of run_cycle, which returns when the last ticker has.
Collect ==
    /\ CollectTicker
    /\ unrecorded' = (pc' = "idle")
    /\ UNCHANGED <<healthVars, health, lossy>>

\* record_cycle counts a result without an error, a skipped ticker included.
CountsAsObserved(t) == results[t].status \notin {"error", "all_batches_failed"}

Recorded ==
    [t \in TickerSet |->
        IF CountsAsObserved(t) THEN tracker[t] \union {cycle} ELSE tracker[t]]

WriteDue == unwritten + 1 >= HealthWriteEvery

NoteLosses ==
    lossy' = [k \in Keys |-> IF k[2] = date /\ results[k[1]].failed > 0
                             THEN lossy[k] \union {cycle} ELSE lossy[k]]

\* The end of _run_one_cycle: the cycle is recorded, and written when a write is due.
Record ==
    /\ unrecorded
    /\ unrecorded' = FALSE
    /\ tracker' = Recorded
    /\ IF WriteDue
       THEN unwritten' = 0 /\ health' = [health EXCEPT ![healthDate] = tracker']
       ELSE unwritten' = unwritten + 1 /\ UNCHANGED health
    /\ NoteLosses
    /\ UNCHANGED <<vars, healthDate>>

\* _finalise_health when the window of the session has ended.
CloseDay ==
    /\ Between /\ healthDate # None
    /\ health' = Written
    /\ healthDate' = None /\ tracker' = Unobserved
    /\ UNCHANGED <<vars, unrecorded, unwritten, lossy>>

\* Midnight passes, before or after the day was closed.
NextDay ==
    /\ ~unrecorded
    /\ NextDate
    /\ UNCHANGED <<unrecorded, healthVars, health, lossy>>
----------------------------------------------------------------------------
(***************************************************************************)
(* The ways a process ends.  The next one starts with the files only.      *)
(***************************************************************************)
Ends ==
    /\ Restart
    /\ unrecorded' = FALSE
    /\ healthDate' = None /\ tracker' = Unobserved /\ unwritten' = 0

\* The process is killed, or a health write raises in _ensure_health and again in the
\* `finally` of run; a power failure may damage a health file, which restore then ignores,
\* and, in Restart, any other file of the session.
Kill ==
    /\ Ends
    /\ \/ UNCHANGED health
       \/ /\ MayLosePower
          /\ \E d \in Dates : health' = [health EXCEPT ![d] = Unobserved]
    /\ UNCHANGED lossy

\* A stop signal is obeyed between two cycles, or a health write that raised there is
\* made good by the `finally` of run.
Stop ==
    /\ Between
    /\ Ends
    /\ health' = Written
    /\ UNCHANGED lossy

\* The periodic write raises: the cycle is in the tracker, and in the file only when the
\* `finally` of run can write it.
RecordFails ==
    /\ MayFailWrite
    /\ unrecorded /\ WriteDue
    /\ Ends
    /\ \/ UNCHANGED health
       \/ health' = [health EXCEPT ![healthDate] = Recorded]
    /\ NoteLosses

\* The bound on the cycles is reached; everything before must be able to move.
AtBound == Bounded /\ UNCHANGED <<unrecorded, healthVars, health, lossy>>

CollectorNext ==
    \/ Begin \/ Collect \/ Record \/ RecordFails
    \/ CloseDay \/ NextDay
    \/ Stop \/ Kill
    \/ AtBound

CollectorSpec == CollectorInit /\ [][CollectorNext]_collectorVars

\* A cycle, once begun, is carried on: the collector is one sequential program.
FairCollectorSpec == CollectorSpec /\ WF_collectorVars(Collect) /\ WF_collectorVars(Record)
----------------------------------------------------------------------------
(***************************************************************************)
(* Properties.                                                             *)
(***************************************************************************)
\* Every variable has its type; a tracker is that of the cycle's date while a cycle runs.
CollectorTypeOK ==
    /\ TypeOK
    /\ unrecorded \in BOOLEAN
    /\ unrecorded => pc = "idle"
    /\ healthDate \in Dates \union {None}
    /\ ~Between => healthDate = date
    /\ tracker \in [TickerSet -> SUBSET Nat]
    /\ unwritten \in Nat
    /\ health \in [Dates -> [TickerSet -> SUBSET Nat]]
    /\ lossy \in [Keys -> SUBSET Nat]

\* What is counted as observed for a ticker on a date, by its file or by a live tracker.
CountedFor(t, d) == health[d][t] \union (IF healthDate = d THEN tracker[t] ELSE {})

\* The health of a day vouches for no cycle that was not stored: every cycle it counts for
\* a ticker has its underlying row, and option rows if it lost quote batches, over restarts,
\* damaged and failing writes and the change of the date.  A power failure may destroy a
\* Parquet file and leave the health file that counts its cycles; from then on no cycle is
\* counted that could not be stored.
CountedIsStored ==
    \A t \in TickerSet, d \in Dates : \A c \in CountedFor(t, d) :
        /\ UnderlyingStored(<<t, d>>, c)
        /\ c \in lossy[<<t, d>>] => OptionsStored(<<t, d>>, c)

\* A cycle that was begun ends, whatever fails in it, and is recorded; or the process dies.
CycleIsRecorded == ~Between ~> Between
=============================================================================
