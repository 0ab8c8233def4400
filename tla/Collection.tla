----------------------------- MODULE Collection -----------------------------
(***************************************************************************)
(* One collection cycle over all tickers: run_cycle of                     *)
(* tradier_collector/cycle.py, TickerCollector of collector.py, the        *)
(* ExpirationResolver of expiration.py and the discovery of discovery.py,  *)
(* over the universes of ContractTracker.  The process may die between any *)
(* two steps; every call to the API and every write may fail.              *)
(***************************************************************************)
EXTENDS ContractTracker, Sequences

CONSTANTS
    Tickers,           \* the configured tickers, a sequence in polling order
    Dates,             \* the trading dates, 1..n
    Windows,           \* the ATM windows select_atm_window may return
    BatchSize,         \* quote_batch_size
    DiscoveryInterval, \* discovery_interval_cycles
    MayFailRequest,    \* a request may raise TradierAPIError
    MayFailAppend,     \* a Parquet append may raise
    MaxCycles          \* bound: cycles begun

TickerSet == {Tickers[i] : i \in DOMAIN Tickers}

ASSUME CollectionAssumption ==
    /\ Tickers \in Seq(TickerSet) /\ Tickers # <<>>
    /\ \A i, j \in DOMAIN Tickers : Tickers[i] = Tickers[j] => i = j
    /\ Dates \subseteq Nat
    /\ Keys = TickerSet \X Dates
    /\ Symbols \subseteq Nat /\ IsFiniteSet(Symbols)
    /\ Windows \subseteq SUBSET Symbols
    /\ BatchSize \in Nat \ {0}
    /\ DiscoveryInterval \in Nat
    /\ {MayFailRequest, MayFailAppend} \subseteq BOOLEAN
    /\ MaxCycles \in Nat

VARIABLES
    pc,         \* the step of the ticker being collected, or "idle"
    date,       \* trading_date of the cycle
    cycle,      \* the number of the cycle, standing for cycle_id and its timestamp
    index,      \* cycle_index: the cycles run by this process
    turn,       \* the position of the ticker being collected
    spotKnown,  \* spot is not None
    cache,      \* ExpirationResolver._cache: what it says of today's expiration
    results,    \* ticker -> its TickerResult in the cycle
    underlying, \* key -> the cycles with a row in the underlying file
    options,    \* key -> the <<cycle, contract>> pairs with a row in the options file
    underlyingTorn, \* key -> the cycle in which a power failure destroyed that file,
    optionsTorn     \*        0 while it is missing or can be read

cycleVars == <<pc, date, cycle, index, turn, spotKnown, results>>
dataVars == <<underlying, options, underlyingTorn, optionsTorn>>
vars == <<trackerVars, cycleVars, cache, dataVars>>

ticker == Tickers[turn]
key == <<ticker, date>>

NoResult == [status |-> "none", failed |-> 0]
Result(status) == [NoResult EXCEPT !.status = status]

\* Mutated form: nothing is forgotten when the date changes.
NoOtherDates == {}

\* The keys of every other date: caches keep one trading date only.
OtherDates == {k \in Keys : k[2] # date}
----------------------------------------------------------------------------
Init ==
    /\ TrackerInit
    /\ pc = "idle" /\ date \in {d \in Dates : \A e \in Dates : d <= e}
    /\ cycle = 0 /\ index = 0 /\ turn = 1 /\ spotKnown = FALSE
    /\ cache = [k \in Keys |-> "unknown"]
    /\ results = [t \in TickerSet |-> NoResult]
    /\ underlying = [k \in Keys |-> {}]
    /\ options = [k \in Keys |-> {}]
    /\ underlyingTorn = [k \in Keys |-> 0]
    /\ optionsTorn = [k \in Keys |-> 0]

\* run_cycle: one identity for all tickers.
BeginCycle ==
    /\ pc = "idle" /\ cycle < MaxCycles
    /\ pc' = "quote"
    /\ cycle' = cycle + 1
    /\ turn' = 1
    /\ results' = [t \in TickerSet |-> NoResult]
    /\ UNCHANGED <<trackerVars, date, index, spotKnown, cache, dataVars>>

\* The next session, without a restart of the process.
NextDate ==
    /\ pc = "idle" /\ date + 1 \in Dates
    /\ date' = date + 1
    /\ UNCHANGED <<trackerVars, pc, cycle, index, turn, spotKnown, results, cache,
                   dataVars>>

\* collect returns: the next ticker's turn, or the end of the cycle.
Return(result) ==
    /\ results' = [results EXCEPT ![ticker] = result]
    /\ IF turn < Len(Tickers)
       THEN pc' = "quote" /\ turn' = turn + 1 /\ UNCHANGED index
       ELSE pc' = "idle" /\ turn' = 1 /\ index' = index + 1
    /\ UNCHANGED <<date, cycle>>

\* The ticker goes on at step p.
GoOn(p) == pc' = p /\ UNCHANGED <<date, cycle, index, turn, results>>

\* Mutated form: an exception leaves run_cycle.
RaiseOut ==
    /\ results' = [results EXCEPT ![ticker] = Result("error")]
    /\ pc' = "idle" /\ turn' = 1 /\ index' = index + 1
    /\ UNCHANGED <<date, cycle, spotKnown>>

\* collect: whatever a step raises ends this ticker only.
Raise == Return(Result("error")) /\ UNCHANGED spotKnown
----------------------------------------------------------------------------
\* Mutated form: an underlying without a spot is not stored.
QuoteWithSpot(known) ==
    /\ pc = "quote" /\ underlyingTorn[key] = 0
    /\ underlying' = IF known THEN [underlying EXCEPT ![key] = @ \union {cycle}]
                     ELSE underlying
    /\ spotKnown' = known
    /\ GoOn("expiration")
    /\ UNCHANGED <<trackerVars, cache, options, underlyingTorn, optionsTorn>>

\* Steps 1-3 of _collect_inner: the underlying quote, its spot and its row.  An append
\* reads the file first, and never succeeds on one that was destroyed.
Quote(known) ==
    /\ pc = "quote" /\ underlyingTorn[key] = 0
    /\ underlying' = [underlying EXCEPT ![key] = @ \union {cycle}]
    /\ spotKnown' = known
    /\ GoOn("expiration")
    /\ UNCHANGED <<trackerVars, cache, options, underlyingTorn, optionsTorn>>

QuoteFails ==
    /\ pc = "quote"
    /\ MayFailRequest \/ MayFailAppend \/ underlyingTorn[key] # 0
    /\ Raise
    /\ UNCHANGED <<trackerVars, cache, dataVars>>

\* Step 4, zero_dte.  A list that has today's expiration is never asked for again.
ExpirationCached ==
    /\ pc = "expiration" /\ cache[key] = "listed"
    /\ GoOn("tracker")
    /\ UNCHANGED <<trackerVars, spotKnown, cache, dataVars>>

\* Mutated form: a list that is loaded replaces the others.
CachedAlone(answer) == [k \in Keys |-> IF k = key THEN answer ELSE "unknown"]

Cached(answer) ==
    [k \in Keys |-> IF k = key THEN answer
                    ELSE IF k \in OtherDates THEN "unknown" ELSE cache[k]]

ExpirationLoaded(answer) ==
    /\ pc = "expiration" /\ cache[key] = "unknown"
    /\ cache' = Cached(answer)
    /\ GoOn(IF answer = "listed" THEN "tracker" ELSE "refresh")
    /\ UNCHANGED <<trackerVars, spotKnown, dataVars>>

\* A miss, fresh or cached, is retried with a forced refresh.
ExpirationMissed ==
    /\ pc = "expiration" /\ cache[key] = "unlisted"
    /\ GoOn("refresh")
    /\ UNCHANGED <<trackerVars, spotKnown, cache, dataVars>>

ExpirationRefreshed(answer) ==
    /\ pc = "refresh"
    /\ cache' = Cached(answer)
    /\ IF answer = "listed"
       THEN GoOn("tracker")
       ELSE Return(Result("no_0dte_expiration"))
    /\ UNCHANGED <<trackerVars, spotKnown, dataVars>>

ExpirationFails ==
    /\ MayFailRequest
    /\ pc = "refresh" \/ (pc = "expiration" /\ cache[key] = "unknown")
    /\ cache' = [k \in Keys |-> IF k \in OtherDates THEN "unknown" ELSE cache[k]]
    /\ Raise
    /\ UNCHANGED <<trackerVars, dataVars>>
----------------------------------------------------------------------------
\* Step 5: the tracker of the day, loaded from disk on first use.
UseTracker ==
    /\ pc = "tracker"
    /\ IF loaded[key] THEN UNCHANGED trackerVars ELSE Load(key, OtherDates)
    /\ GoOn("discovery")
    /\ UNCHANGED <<spotKnown, cache, dataVars>>

\* Steps 5-6: discovery needs a spot, and an empty universe or its turn.
ShouldDiscover ==
    \/ Tracked(mem[key]) = {}
    \/ index % (IF DiscoveryInterval < 1 THEN 1 ELSE DiscoveryInterval) = 0

\* Mutated form: the ticker waits for its turn to discover.
SkipDiscoveryWaits ==
    /\ pc = "discovery"
    /\ ~spotKnown \/ ~ShouldDiscover
    /\ GoOn("tracker")
    /\ UNCHANGED <<trackerVars, spotKnown, cache, dataVars>>

SkipDiscovery ==
    /\ pc = "discovery"
    /\ ~spotKnown \/ ~ShouldDiscover
    /\ GoOn("symbols")
    /\ UNCHANGED <<trackerVars, spotKnown, cache, dataVars>>

Discovering == pc = "discovery" /\ spotKnown /\ ShouldDiscover

Discover(window) ==
    /\ Discovering
    /\ AddNothing(key, window) \/ AddSaved(key, window, cycle)
    /\ GoOn("symbols")
    /\ UNCHANGED <<spotKnown, cache, dataVars>>

ChainFails ==
    /\ MayFailRequest
    /\ Discovering
    /\ Raise
    /\ UNCHANGED <<trackerVars, cache, dataVars>>

\* save raises: the ticker fails, its tracker keeps the new contracts.
SaveFails(window) ==
    /\ Discovering
    /\ AddUnsaved(key, window, cycle)
    /\ Raise
    /\ UNCHANGED <<cache, dataVars>>

\* Step 7: the contracts to quote are all the tracked ones.
CollectSymbols ==
    /\ pc = "symbols"
    /\ Expose(key)
    /\ IF Tracked(mem[key]) = {}
       THEN Return(Result("empty_universe"))
       ELSE GoOn("batches")
    /\ UNCHANGED <<spotKnown, cache, dataVars>>
----------------------------------------------------------------------------
\* batched: the requested contracts in runs of BatchSize.
Rank(s) == Cardinality({r \in exposed[key] : r < s})
BatchOf(s) == Rank(s) \div BatchSize
Batches == {BatchOf(s) : s \in exposed[key]}

\* Mutated form: an error only when every batch failed.
OutcomeEveryBatch(failed, rows) ==
    [status |-> IF failed # {} /\ failed = Batches THEN "all_batches_failed" ELSE "ok",
     failed |-> Cardinality(failed)]

\* Steps 8-10: `failed` batches raise, the others return rows for some of their
\* contracts; the rows are appended and a failure without any row is an error.
Outcome(failed, rows) ==
    [status |-> IF failed # {} /\ rows = {} THEN "all_batches_failed" ELSE "ok",
     failed |-> Cardinality(failed)]

QuoteBatches(failed, rows) ==
    /\ pc = "batches"
    /\ failed # {} => MayFailRequest
    /\ \A s \in rows : BatchOf(s) \notin failed
    /\ rows # {} => optionsTorn[key] = 0
    /\ options' = [options EXCEPT ![key] = @ \union ({cycle} \X rows)]
    /\ Return(Outcome(failed, rows))
    /\ UNCHANGED <<trackerVars, spotKnown, cache, underlying, underlyingTorn, optionsTorn>>

\* Some rows came back, and their append raises.
AppendFails ==
    /\ pc = "batches"
    /\ MayFailAppend \/ optionsTorn[key] # 0
    /\ Raise
    /\ UNCHANGED <<trackerVars, cache, dataVars>>

\* A power failure truncates Parquet files of the session whose rename had reached the
\* disk before their contents: nothing of them can be read, and no append repairs them.
Tear(someUnderlying, someOptions) ==
    /\ \A k \in someUnderlying : underlying[k] # {}
    /\ \A k \in someOptions : options[k] # {}
    /\ underlying' = [k \in Keys |-> IF k \in someUnderlying THEN {} ELSE underlying[k]]
    /\ options' = [k \in Keys |-> IF k \in someOptions THEN {} ELSE options[k]]
    /\ underlyingTorn' =
          [k \in Keys |-> IF k \in someUnderlying THEN cycle ELSE underlyingTorn[k]]
    /\ optionsTorn' =
          [k \in Keys |-> IF k \in someOptions THEN cycle ELSE optionsTorn[k]]

\* The process dies and is started again.
Restart ==
    /\ Crash
    /\ pc' = "idle" /\ index' = 0 /\ turn' = 1 /\ spotKnown' = FALSE
    /\ cache' = [k \in Keys |-> "unknown"]
    /\ \/ UNCHANGED dataVars
       \/ /\ MayLosePower
          /\ \E u, o \in SUBSET (Keys \ OtherDates) : Tear(u, o)
    /\ UNCHANGED <<date, cycle, results>>
----------------------------------------------------------------------------
Underlying == \/ \E known \in BOOLEAN : Quote(known)
              \/ QuoteFails

Expiration ==
    \/ ExpirationCached \/ ExpirationMissed \/ ExpirationFails
    \/ \E answer \in {"listed", "unlisted"} :
         ExpirationLoaded(answer) \/ ExpirationRefreshed(answer)

Discovery ==
    \/ UseTracker \/ SkipDiscovery \/ ChainFails \/ CollectSymbols
    \/ \E window \in Windows \union {{}} : Discover(window) \/ SaveFails(window)

Quotes ==
    \/ \E failed \in SUBSET Batches, rows \in SUBSET exposed[key] :
         QuoteBatches(failed, rows)
    \/ AppendFails

CollectTicker == Underlying \/ Expiration \/ Discovery \/ Quotes

\* The bound on the cycles is reached; everything before must be able to move.
Bounded == pc = "idle" /\ cycle = MaxCycles /\ UNCHANGED vars

Next == BeginCycle \/ NextDate \/ CollectTicker \/ Restart \/ Bounded

Spec == Init /\ [][Next]_vars
----------------------------------------------------------------------------
(***************************************************************************)
(* Properties.                                                             *)
(***************************************************************************)
CollectorSteps == {"idle", "quote", "expiration", "refresh", "tracker", "discovery",
                   "symbols", "batches"}

Statuses == {"none", "ok", "error", "no_0dte_expiration", "empty_universe",
             "all_batches_failed"}

TickerResults == [status : Statuses, failed : Nat]

\* The conjuncts on the cycle of the type invariant.
CycleTypeOK ==
    /\ pc \in CollectorSteps
    /\ date \in Dates
    /\ cycle \in Nat /\ index \in Nat
    /\ turn \in DOMAIN Tickers
    /\ results \in [TickerSet -> TickerResults]

\* Every variable of the cycle, of the resolver and of the stored data has its type.
TypeOK ==
    /\ TrackerTypeOK
    /\ CycleTypeOK
    /\ spotKnown \in BOOLEAN
    /\ cache \in [Keys -> {"unknown", "listed", "unlisted"}]
    /\ underlying \in [Keys -> SUBSET Nat]
    /\ options \in [Keys -> SUBSET (Nat \X Symbols)]
    /\ {underlyingTorn, optionsTorn} \subseteq [Keys -> Nat]

\* Every stored option row belongs to a contract whose metadata is on disk, with a
\* first_discovered_utc no later than the row (the metadata a backtest joins with).
RowsAreOfKnownContracts ==
    \A k \in Keys : \A row \in options[k] :
        /\ row[2] \in Persisted(k)
        /\ disk[k].contracts[row[2]] <= row[1]

\* The underlying row of a cycle, and its row of a contract, were stored: the row is in
\* the file, or was in the file that a power failure destroyed in that cycle or later.  No
\* cycle that began after the destruction satisfies them.
UnderlyingStored(k, c) == c \in underlying[k] \/ c <= underlyingTorn[k]
OptionsStored(k, c) == (\E row \in options[k] : row[1] = c) \/ c <= optionsTorn[k]

\* The underlying row of a cycle is stored before anything of its options: no options
\* problem and no death costs the underlying series a row, but for a power failure that
\* destroys the whole file.
UnderlyingFirst ==
    \A k \in Keys : \A row \in options[k] : UnderlyingStored(k, row[1])

\* Trackers of two sessions are never in memory together, and the one in use is that
\* of the cycle's date: no universe leaks from one session into the next.
OneSessionInMemory ==
    /\ \A j, k \in Keys : loaded[j] /\ loaded[k] => j[2] = k[2]
    /\ pc \in {"discovery", "symbols", "batches"} => loaded[key]

\* At the moment of the quote requests the requested universe is the one on disk: a
\* death from here on, or a restart hours later, loses nothing that was ever quoted.
QuotedIsPersisted ==
    pc = "batches" => exposed[key] = Persisted(key)

\* One ticker's failure does not touch another: a cycle only becomes idle again, the
\* process alive, when every ticker has a result.
EveryTickerReports ==
    [][pc # "idle" /\ pc' = "idle" /\ crashes' = crashes =>
         \A t \in TickerSet : results'[t].status # "none"]_vars

\* Once a process has seen today's expiration of a ticker listed, it never asks again and
\* never skips the ticker: what the refreshes of another ticker, failed requests and later
\* cycles do to the cache loses no list of the same date.
ListedStays ==
    [][\A t \in TickerSet :
         cache[<<t, date>>] = "listed" /\ date' = date /\ crashes' = crashes =>
             cache'[<<t, date>>] = "listed"]_vars

\* A cycle that lost quote batches is never taken for an observed one unless some of
\* its option rows were stored: what the health file counts as observed has data.
LossIsReported ==
    \A t \in TickerSet :
        results[t].status = "ok" /\ results[t].failed > 0 =>
            \E d \in Dates : OptionsStored(<<t, d>>, cycle)
=============================================================================
