-------------------------- MODULE CollectionProofs --------------------------
(***************************************************************************)
(* What holds of Collection.tla for every set of tickers, dates, contracts *)
(* and windows, every batch size and any number of cycles and crashes.     *)
(***************************************************************************)
EXTENDS Collection, FiniteSetTheorems, TLAPS

LEMMA KeyOfCycle ==
    ASSUME turn \in DOMAIN Tickers, date \in Dates
    PROVE  ticker \in TickerSet /\ key \in Keys
BY CollectionAssumption DEF ticker, key, TickerSet

LEMMA TurnAdvances ==
    ASSUME turn \in DOMAIN Tickers
    PROVE  /\ 1 \in DOMAIN Tickers
           /\ turn < Len(Tickers) => turn + 1 \in DOMAIN Tickers
BY CollectionAssumption

(***************************************************************************)
(* Type correctness, first of the trackers, then of the cycle.             *)
(***************************************************************************)
LEMMA FileTypes ==
    /\ Untracked \in Universes
    /\ Missing \in Files /\ Damaged \in Files
    /\ \A universe \in Universes : Good(universe) \in Files
BY DEF Universes, Files, Untracked, Missing, Damaged, Good

LEMMA TrackerInitType == TrackerInit => TrackerTypeOK
BY FileTypes DEF TrackerInit, TrackerTypeOK

LEMMA TrackerUnchangedType == TrackerTypeOK /\ UNCHANGED trackerVars => TrackerTypeOK'
BY DEF TrackerTypeOK, trackerVars

LEMMA LoadType ==
    ASSUME TrackerTypeOK, NEW k \in Keys, NEW gone, Load(k, gone)
    PROVE  TrackerTypeOK'
<1>1. CASE LoadFound(k, gone)
  BY <1>1, FileTypes DEF LoadFound, Holds, TrackerTypeOK, Files
<1>2. CASE LoadCorrupt(k, gone)
  <2>1. loaded' \in [Keys -> BOOLEAN] /\ mem' \in [Keys -> Universes]
    BY <1>2, FileTypes DEF LoadCorrupt, Holds, TrackerTypeOK
  <2>2. disk' \in [Keys -> Files]
    BY <1>2, FileTypes DEF LoadCorrupt, Quarantine, TrackerTypeOK
  <2>3. quarantined' \in [Keys -> Nat] /\ exposed' \in [Keys -> SUBSET Symbols] /\ crashes' \in Nat
    BY <1>2 DEF LoadCorrupt, Quarantine, TrackerTypeOK
  <2> QED BY <2>1, <2>2, <2>3 DEF TrackerTypeOK
<1> QED BY <1>1, <1>2 DEF Load

LEMMA WithType ==
    ASSUME TrackerTypeOK, NEW k \in Keys, NEW window, NEW stamp \in Nat
    PROVE  With(k, window, stamp) \in Universes
BY DEF With, TrackerTypeOK, Universes

LEMMA AddType ==
    ASSUME TrackerTypeOK, NEW k \in Keys, NEW window, NEW stamp \in Nat,
           \/ AddNothing(k, window)
           \/ AddSaved(k, window, stamp)
           \/ AddUnsaved(k, window, stamp)
    PROVE  TrackerTypeOK'
<1>1. CASE AddNothing(k, window)
  BY <1>1, TrackerUnchangedType DEF AddNothing
<1>2. CASE AddSaved(k, window, stamp)
  BY <1>2, WithType, FileTypes DEF AddSaved, TrackerTypeOK
<1>3. CASE AddUnsaved(k, window, stamp)
  BY <1>3, WithType DEF AddUnsaved, TrackerTypeOK
<1> QED BY <1>1, <1>2, <1>3

LEMMA ExposeType ==
    ASSUME TrackerTypeOK, NEW k \in Keys, Expose(k)
    PROVE  TrackerTypeOK'
BY DEF TrackerTypeOK, Expose, Tracked

LEMMA CrashType == TrackerTypeOK /\ Crash => TrackerTypeOK'
BY FileTypes DEF TrackerTypeOK, Crash

LEMMA KeyInUse == CycleTypeOK => key \in Keys
BY KeyOfCycle DEF CycleTypeOK

LEMMA ReturnType ==
    ASSUME CycleTypeOK, NEW result \in TickerResults, Return(result)
    PROVE  CycleTypeOK'
<1>1. results' \in [TickerSet -> TickerResults]
  BY DEF Return, CycleTypeOK
<1>2. turn' \in DOMAIN Tickers
  BY TurnAdvances DEF Return, CycleTypeOK
<1>3. pc' \in CollectorSteps /\ index' \in Nat /\ date' \in Dates /\ cycle' \in Nat
  BY DEF Return, CycleTypeOK, CollectorSteps
<1> QED BY <1>1, <1>2, <1>3 DEF CycleTypeOK

LEMMA GoOnType ==
    ASSUME CycleTypeOK, NEW p \in CollectorSteps, GoOn(p)
    PROVE  CycleTypeOK'
BY DEF CycleTypeOK, GoOn

LEMMA ResultType ==
    /\ NoResult \in TickerResults
    /\ \A status \in Statuses : Result(status) \in TickerResults
BY DEF NoResult, Result, Statuses, TickerResults

LEMMA RaiseType == CycleTypeOK /\ Raise => CycleTypeOK' /\ UNCHANGED spotKnown
BY ReturnType, ResultType DEF Raise, Statuses

\* Batches of a finite set: their number enters the results.
LEMMA OutcomeType ==
    ASSUME NEW failed \in SUBSET Batches, NEW rows, IsFiniteSet(Batches)
    PROVE  Outcome(failed, rows) \in TickerResults
BY FS_CardinalityType, FS_Subset DEF Outcome, TickerResults, Statuses

LEMMA BatchesFinite == TypeOK => IsFiniteSet(Batches)
<1> SUFFICES ASSUME TypeOK PROVE IsFiniteSet(Batches)
  OBVIOUS
<1>1. IsFiniteSet(exposed[key])
  BY KeyInUse, CollectionAssumption, FS_Subset DEF TypeOK, TrackerTypeOK
<1> DEFINE batch == [s \in exposed[key] |-> BatchOf(s)]
<1>2. batch \in Surjection(exposed[key], Batches)
  BY DEF Batches, Surjection
<1> QED BY <1>1, <1>2, FS_Surjection

LEMMA InitType == Init => TypeOK
<1> SUFFICES ASSUME Init PROVE TypeOK
  OBVIOUS
<1>1. TrackerTypeOK
  BY TrackerInitType DEF Init
<1>2. CycleTypeOK
  BY CollectionAssumption, ResultType DEF Init, CycleTypeOK, CollectorSteps
<1>3. /\ underlying \in [Keys -> SUBSET Nat] /\ options \in [Keys -> SUBSET (Nat \X Symbols)]
      /\ {underlyingTorn, optionsTorn} \subseteq [Keys -> Nat]
  BY DEF Init
<1> QED BY <1>1, <1>2, <1>3 DEF Init, TypeOK

LEMMA CacheType ==
    ASSUME TypeOK, NEW answer \in {"listed", "unlisted"}
    PROVE  Cached(answer) \in [Keys -> {"unknown", "listed", "unlisted"}]
BY DEF TypeOK, Cached

LEMMA UnderlyingType == TypeOK /\ Underlying => TypeOK'
<1> SUFFICES ASSUME TypeOK, Underlying PROVE TypeOK'
  OBVIOUS
<1>1. TrackerTypeOK'
  BY TrackerUnchangedType DEF Underlying, Quote, QuoteFails, TypeOK
<1>2. ASSUME NEW known \in BOOLEAN, Quote(known) PROVE TypeOK'
  <2>1. CycleTypeOK'
    BY <1>2, GoOnType DEF Quote, TypeOK, CollectorSteps
  <2>2. underlying' \in [Keys -> SUBSET Nat]
    BY <1>2 DEF Quote, TypeOK, CycleTypeOK
  <2> QED BY <1>1, <1>2, <2>1, <2>2 DEF Quote, TypeOK
<1>3. CASE QuoteFails
  BY <1>1, <1>3, RaiseType DEF QuoteFails, TypeOK, dataVars
<1> QED BY <1>2, <1>3 DEF Underlying

LEMMA ExpirationType == TypeOK /\ Expiration => TypeOK'
<1> SUFFICES ASSUME TypeOK, Expiration PROVE TypeOK'
  OBVIOUS
<1>1. TrackerTypeOK'
  BY TrackerUnchangedType DEF Expiration, ExpirationCached, ExpirationMissed, ExpirationFails,
        ExpirationLoaded, ExpirationRefreshed, TypeOK
<1>2. CASE ExpirationCached \/ ExpirationMissed
  <2>1. CycleTypeOK'
    BY <1>2, GoOnType DEF ExpirationCached, ExpirationMissed, TypeOK, CollectorSteps
  <2> QED BY <1>1, <1>2, <2>1 DEF ExpirationCached, ExpirationMissed, TypeOK, dataVars
<1>3. CASE ExpirationFails
  <2>1. CycleTypeOK' /\ UNCHANGED spotKnown
    BY <1>3, RaiseType DEF ExpirationFails, TypeOK
  <2>2. cache' \in [Keys -> {"unknown", "listed", "unlisted"}]
    BY <1>3 DEF ExpirationFails, TypeOK
  <2> QED BY <1>1, <1>3, <2>1, <2>2 DEF ExpirationFails, TypeOK, dataVars
<1>4. ASSUME NEW answer \in {"listed", "unlisted"}, ExpirationLoaded(answer) PROVE TypeOK'
  <2>1. CycleTypeOK'
    BY <1>4, GoOnType DEF ExpirationLoaded, TypeOK, CollectorSteps
  <2> QED BY <1>1, <1>4, <2>1, CacheType DEF ExpirationLoaded, TypeOK, dataVars
<1>5. ASSUME NEW answer \in {"listed", "unlisted"}, ExpirationRefreshed(answer) PROVE TypeOK'
  <2>1. CycleTypeOK'
    BY <1>5, GoOnType, ReturnType, ResultType
       DEF ExpirationRefreshed, TypeOK, CollectorSteps, Statuses
  <2> QED BY <1>1, <1>5, <2>1, CacheType DEF ExpirationRefreshed, TypeOK, dataVars
<1> QED BY <1>2, <1>3, <1>4, <1>5 DEF Expiration

LEMMA DiscoveryType == TypeOK /\ Discovery => TypeOK'
<1> SUFFICES ASSUME TypeOK, Discovery PROVE TypeOK'
  OBVIOUS
<1> USE DEF TypeOK, dataVars
<1>1. CASE UseTracker
  <2>1. TrackerTypeOK'
    BY <1>1, LoadType, TrackerUnchangedType, KeyInUse DEF UseTracker
  <2>2. CycleTypeOK'
    BY <1>1, GoOnType DEF UseTracker, CollectorSteps
  <2> QED BY <1>1, <2>1, <2>2 DEF UseTracker
<1>2. CASE SkipDiscovery
  <2>1. CycleTypeOK'
    BY <1>2, GoOnType DEF SkipDiscovery, CollectorSteps
  <2> QED BY <1>2, <2>1, TrackerUnchangedType DEF SkipDiscovery
<1>3. CASE ChainFails
  BY <1>3, RaiseType, TrackerUnchangedType DEF ChainFails
<1>4. CASE CollectSymbols
  <2>1. TrackerTypeOK'
    BY <1>4, ExposeType, KeyInUse DEF CollectSymbols
  <2>2. CycleTypeOK'
    BY <1>4, GoOnType, ReturnType, ResultType DEF CollectSymbols, CollectorSteps, Statuses
  <2> QED BY <1>4, <2>1, <2>2 DEF CollectSymbols
<1>5. ASSUME NEW window, Discover(window) PROVE TypeOK'
  <2>1. TrackerTypeOK'
    BY <1>5, AddType, KeyInUse DEF Discover, CycleTypeOK
  <2>2. CycleTypeOK'
    BY <1>5, GoOnType DEF Discover, CollectorSteps
  <2> QED BY <1>5, <2>1, <2>2 DEF Discover
<1>6. ASSUME NEW window, SaveFails(window) PROVE TypeOK'
  <2>1. TrackerTypeOK'
    BY <1>6, AddType, KeyInUse DEF SaveFails, CycleTypeOK
  <2>2. CycleTypeOK' /\ UNCHANGED spotKnown
    BY <1>6, RaiseType DEF SaveFails
  <2> QED BY <1>6, <2>1, <2>2 DEF SaveFails
<1> QED BY <1>1, <1>2, <1>3, <1>4, <1>5, <1>6 DEF Discovery

LEMMA QuotesType == TypeOK /\ Quotes => TypeOK'
<1> SUFFICES ASSUME TypeOK, Quotes PROVE TypeOK'
  OBVIOUS
<1>1. ASSUME NEW failed \in SUBSET Batches, NEW rows \in SUBSET exposed[key],
             QuoteBatches(failed, rows)
      PROVE  TypeOK'
  <2>1. CycleTypeOK'
    BY <1>1, ReturnType, OutcomeType, BatchesFinite DEF QuoteBatches, TypeOK
  <2>2. {cycle} \X rows \in SUBSET (Nat \X Symbols)
    BY KeyInUse DEF TypeOK, CycleTypeOK, TrackerTypeOK
  <2>3. options' \in [Keys -> SUBSET (Nat \X Symbols)]
    BY <1>1, <2>2, KeyInUse DEF QuoteBatches, TypeOK
  <2> QED BY <1>1, <2>1, <2>3, TrackerUnchangedType DEF QuoteBatches, TypeOK
<1>2. CASE AppendFails
  BY <1>2, RaiseType, TrackerUnchangedType DEF AppendFails, TypeOK, dataVars
<1> QED BY <1>1, <1>2 DEF Quotes

\* What a death does to the Parquet files of a key: nothing, or the file is lost.
LEMMA RestartData ==
    ASSUME Restart, TypeOK
    PROVE  /\ \A k \in Keys :
                \/ underlying'[k] = underlying[k] /\ underlyingTorn'[k] = underlyingTorn[k]
                \/ underlying'[k] = {} /\ underlyingTorn'[k] = cycle
           /\ \A k \in Keys :
                \/ options'[k] = options[k] /\ optionsTorn'[k] = optionsTorn[k]
                \/ options'[k] = {} /\ optionsTorn'[k] = cycle
           /\ underlying' \in [Keys -> SUBSET Nat]
           /\ options' \in [Keys -> SUBSET (Nat \X Symbols)]
           /\ {underlyingTorn', optionsTorn'} \subseteq [Keys -> Nat]
<1>1. CASE UNCHANGED dataVars
  BY <1>1 DEF dataVars, TypeOK
<1>2. CASE \E u, o \in SUBSET (Keys \ OtherDates) : Tear(u, o)
  <2>1. PICK u, o \in SUBSET (Keys \ OtherDates) : Tear(u, o)
    BY <1>2
  <2> QED BY <2>1 DEF Tear, TypeOK, CycleTypeOK
<1> QED BY <1>1, <1>2 DEF Restart

LEMMA RestartType == TypeOK /\ Restart => TypeOK'
<1> SUFFICES ASSUME TypeOK, Restart PROVE TypeOK'
  OBVIOUS
<1>1. CycleTypeOK'
  BY TurnAdvances DEF Restart, TypeOK, CycleTypeOK, CollectorSteps
<1>2. TrackerTypeOK' /\ spotKnown' \in BOOLEAN
      /\ cache' \in [Keys -> {"unknown", "listed", "unlisted"}]
  BY CrashType DEF Restart, TypeOK
<1> QED BY <1>1, <1>2, RestartData DEF TypeOK

\* The type invariant holds for every size of the day.
THEOREM TypeCorrect == Spec => []TypeOK
<1>1. ASSUME TypeOK, [Next]_vars PROVE TypeOK'
  <2>1. CASE BeginCycle
    <3>1. CycleTypeOK'
      BY <1>1, <2>1, TurnAdvances, ResultType DEF BeginCycle, TypeOK, CycleTypeOK, CollectorSteps
    <3> QED BY <1>1, <2>1, <3>1, TrackerUnchangedType
            DEF BeginCycle, TypeOK, dataVars
  <2>2. CASE NextDate
    <3>1. CycleTypeOK'
      BY <1>1, <2>2 DEF NextDate, TypeOK, CycleTypeOK
    <3> QED BY <1>1, <2>2, <3>1, TrackerUnchangedType
            DEF NextDate, TypeOK, dataVars
  <2>3. CASE CollectTicker
    BY <1>1, <2>3, UnderlyingType, ExpirationType, DiscoveryType, QuotesType DEF CollectTicker
  <2>4. CASE Restart
    BY <1>1, <2>4, RestartType
  <2>5. CASE Bounded \/ UNCHANGED vars
    <3>1. UNCHANGED vars
      BY <2>5 DEF Bounded
    <3> QED BY <1>1, <3>1, TrackerUnchangedType
            DEF vars, cycleVars, dataVars, TypeOK, CycleTypeOK
  <2> QED BY <1>1, <2>1, <2>2, <2>3, <2>4, <2>5 DEF Next
<1> QED BY <1>1, InitType, PTL DEF Spec

----------------------------------------------------------------------------
(***************************************************************************)
(* One session in memory.                                                  *)
(***************************************************************************)
LEMMA SessionInit == Init => OneSessionInMemory
BY DEF Init, TrackerInit, OneSessionInMemory

LEMMA SessionStep == TypeOK /\ OneSessionInMemory /\ [Next]_vars => OneSessionInMemory'
<1> SUFFICES ASSUME TypeOK, OneSessionInMemory, [Next]_vars PROVE OneSessionInMemory'
  OBVIOUS
<1> USE DEF OneSessionInMemory
<1>1. CASE BeginCycle \/ NextDate \/ Bounded \/ UNCHANGED vars
  BY <1>1 DEF BeginCycle, NextDate, Bounded, vars, cycleVars, trackerVars, key, ticker
<1>2. CASE Underlying
  BY <1>2 DEF Underlying, Quote, QuoteFails, Raise, Return, GoOn, trackerVars, key, ticker
<1>3. CASE Expiration
  BY <1>3 DEF Expiration, ExpirationCached, ExpirationMissed, ExpirationFails,
        ExpirationLoaded, ExpirationRefreshed, Raise, Return, GoOn, trackerVars, key, ticker
<1>4. CASE Quotes
  BY <1>4 DEF Quotes, QuoteBatches, AppendFails, Raise, Return, GoOn, trackerVars, key, ticker
<1>5. CASE Restart
  BY <1>5 DEF Restart, Crash
<1>6. CASE UseTracker
  <2>1. CASE loaded[key]
    BY <1>6, <2>1 DEF UseTracker, GoOn, trackerVars, key, ticker
  <2>2. CASE ~loaded[key]
    <3>1. \E universe : Holds(key, universe, OtherDates)
      BY <1>6, <2>2 DEF UseTracker, Load, LoadFound, LoadCorrupt
    <3>2. loaded' = [j \in Keys |-> j = key \/ (loaded[j] /\ j[2] = date)]
      BY <3>1 DEF Holds, OtherDates
    <3>3. key' = key /\ key \in Keys /\ key[2] = date
      BY <1>6, KeyInUse DEF UseTracker, GoOn, key, ticker, TypeOK
    <3> QED BY <3>2, <3>3
  <2> QED BY <2>1, <2>2
<1>7. CASE SkipDiscovery \/ ChainFails \/ CollectSymbols
  BY <1>7 DEF SkipDiscovery, ChainFails, CollectSymbols, Expose, Raise, Return, GoOn,
        trackerVars, key, ticker
<1>8. ASSUME NEW window, Discover(window) \/ SaveFails(window) PROVE OneSessionInMemory'
  BY <1>8 DEF Discover, SaveFails, Discovering, AddNothing, AddSaved, AddUnsaved, Raise, Return,
        GoOn, trackerVars, key, ticker
<1> QED BY <1>1, <1>2, <1>3, <1>4, <1>5, <1>6, <1>7, <1>8 DEF Next, CollectTicker, Discovery

\* Whatever fails and whenever the process dies, the universes of two sessions are
\* never in memory together (TickerCollector.tracker).
THEOREM SessionsStayApart == Spec => []OneSessionInMemory
BY TypeCorrect, SessionInit, SessionStep, PTL DEF Spec
----------------------------------------------------------------------------
(***************************************************************************)
(* The underlying first.                                                   *)
(***************************************************************************)
AfterQuote == CollectorSteps \ {"idle", "quote"}

UnderlyingInv ==
    /\ pc \in AfterQuote => cycle \in underlying[key]
    /\ \A k \in Keys : \A row \in options[k] : row[1] <= cycle
    /\ UnderlyingFirst

LEMMA UnderlyingInit == Init => UnderlyingInv
BY DEF Init, UnderlyingInv, UnderlyingFirst, AfterQuote

\* But for a power failure, rows are only added.
LEMMA DataGrows ==
    ASSUME TypeOK, [Next]_vars, ~Restart, NEW k \in Keys
    PROVE  underlying[k] \subseteq underlying'[k] /\ options[k] \subseteq options'[k]
<1>1. CASE \/ UNCHANGED vars \/ Bounded \/ BeginCycle \/ NextDate
           \/ Expiration \/ Discovery
  BY <1>1 DEF vars, dataVars, Bounded, BeginCycle, NextDate, Expiration,
     ExpirationCached, ExpirationMissed, ExpirationFails, ExpirationLoaded, ExpirationRefreshed,
     Discovery, UseTracker, SkipDiscovery, ChainFails, CollectSymbols, Discover, SaveFails
<1>2. CASE Underlying
  BY <1>2 DEF Underlying, Quote, QuoteFails, dataVars, TypeOK
<1>3. CASE Quotes
  BY <1>3 DEF Quotes, QuoteBatches, AppendFails, dataVars, TypeOK
<1> QED BY <1>1, <1>2, <1>3 DEF Next, CollectTicker

\* What was stored stays stored, or its file is lost in a cycle no earlier.
LEMMA StoredKept ==
    ASSUME TypeOK, [Next]_vars, NEW k \in Keys, NEW c \in Nat, c <= cycle
    PROVE  /\ UnderlyingStored(k, c) => UnderlyingStored(k, c)'
           /\ OptionsStored(k, c) => OptionsStored(k, c)'
<1> USE DEF UnderlyingStored, OptionsStored
<1>1. CASE Restart
  BY <1>1, RestartData
<1>2. CASE ~Restart
  <2>1. UNCHANGED <<underlyingTorn, optionsTorn>>
    BY <1>2 DEF Next, CollectTicker, vars, dataVars, Bounded, BeginCycle, NextDate, Underlying,
       Quote, QuoteFails, Expiration, ExpirationCached, ExpirationMissed, ExpirationFails,
       ExpirationLoaded, ExpirationRefreshed, Discovery, UseTracker, SkipDiscovery, ChainFails,
       CollectSymbols, Discover, SaveFails, Quotes, QuoteBatches, AppendFails
  <2> QED BY <1>2, <2>1, DataGrows
<1> QED BY <1>1, <1>2

LEMMA UnderlyingStep == TypeOK /\ UnderlyingInv /\ [Next]_vars => UnderlyingInv'
<1> SUFFICES ASSUME TypeOK, UnderlyingInv, [Next]_vars PROVE UnderlyingInv'
  OBVIOUS
<1> USE DEF UnderlyingInv, UnderlyingFirst, AfterQuote, CollectorSteps
<1> USE DEF UnderlyingStored
<1>1. CASE BeginCycle \/ NextDate \/ Bounded \/ UNCHANGED vars
  <2>1. \A k \in Keys : \A row \in options[k] : row[1] \in Nat /\ row[1] <= cycle
    BY DEF TypeOK
  <2>2. /\ UNCHANGED <<underlying, options, underlyingTorn>> /\ cycle \in Nat
        /\ cycle' = cycle \/ cycle' = cycle + 1
        /\ pc' \in AfterQuote => pc \in AfterQuote /\ key' = key /\ cycle' = cycle
    BY <1>1 DEF BeginCycle, NextDate, Bounded, vars, cycleVars, dataVars, key, ticker, TypeOK,
       CycleTypeOK
  <2>3. \A k \in Keys : \A row \in options'[k] : row[1] <= cycle'
    BY <2>1, <2>2
  <2> QED BY <2>2, <2>3
<1>8. CASE Restart
  <2>1. \A k \in Keys : \A row \in options'[k] : row \in options[k] /\ row[1] \in Nat
    BY <1>8, RestartData DEF TypeOK
  <2>2. pc' = "idle" /\ cycle' = cycle
    BY <1>8 DEF Restart
  <2>3. UnderlyingFirst'
    <3> SUFFICES ASSUME NEW k \in Keys, NEW row \in options'[k]
                 PROVE  UnderlyingStored(k, row[1])'
      BY DEF UnderlyingFirst
    <3> QED BY <2>1, StoredKept
  <2> QED BY <2>1, <2>2, <2>3
<1>2. ASSUME NEW known, Quote(known) PROVE UnderlyingInv'
  <2>1. key' = key /\ key \in Keys
    BY <1>2, KeyInUse DEF Quote, GoOn, key, ticker, TypeOK
  <2> QED BY <1>2, <2>1 DEF Quote, GoOn, TypeOK
<1>3. CASE QuoteFails
  BY <1>3 DEF QuoteFails, Raise, Return, dataVars
<1>4. CASE Expiration
  BY <1>4 DEF Expiration, ExpirationCached, ExpirationMissed, ExpirationFails,
        ExpirationLoaded, ExpirationRefreshed, Raise, Return, GoOn, dataVars, key, ticker
<1>5. CASE Discovery
  BY <1>5 DEF Discovery, UseTracker, SkipDiscovery, ChainFails, CollectSymbols, Discover,
        Discovering, SaveFails, Raise, Return, GoOn, dataVars, key, ticker
<1>6. ASSUME NEW failed, NEW rows, QuoteBatches(failed, rows) PROVE UnderlyingInv'
  <2>1. \A k \in Keys : \A row \in options'[k] :
          row \in options[k] \/ (k = key /\ row[1] = cycle)
    BY <1>6 DEF QuoteBatches, TypeOK
  <2>2. pc' \in {"quote", "idle"} /\ cycle' = cycle /\ cycle \in Nat
    BY <1>6 DEF QuoteBatches, Return, TypeOK, CycleTypeOK
  <2>3. UNCHANGED <<underlying, underlyingTorn>> /\ cycle \in underlying[key]
    BY <1>6 DEF QuoteBatches
  <2> QED BY <2>1, <2>2, <2>3
<1>7. CASE AppendFails
  BY <1>7 DEF AppendFails, Raise, Return, dataVars
<1> QED BY <1>1, <1>2, <1>3, <1>4, <1>5, <1>6, <1>7, <1>8
        DEF Next, CollectTicker, Underlying, Quotes

\* No failure and no death costs the underlying row of a cycle that has option rows, but
\* for a power failure that destroys the underlying file of the day.
THEOREM UnderlyingComesFirst == Spec => []UnderlyingFirst
BY TypeCorrect, UnderlyingInit, UnderlyingStep, PTL DEF Spec, UnderlyingInv

----------------------------------------------------------------------------
(***************************************************************************)
(* The list of expirations.                                                *)
(***************************************************************************)
\* A forced refresh is asked for only when today's expiration is not in the list.
RefreshInv == pc = "refresh" => cache[key] = "unlisted"

LEMMA RefreshStep == TypeOK /\ RefreshInv /\ [Next]_vars => RefreshInv'
<1> SUFFICES ASSUME TypeOK, RefreshInv, [Next]_vars PROVE RefreshInv'
  OBVIOUS
<1> USE DEF RefreshInv
<1>1. CASE UNCHANGED vars \/ Bounded
  BY <1>1 DEF Bounded, vars, cycleVars, key, ticker
<1>2. CASE BeginCycle \/ NextDate \/ Restart
  BY <1>2 DEF BeginCycle, NextDate, Restart
<1>3. CASE Underlying \/ Discovery \/ Quotes
  BY <1>3 DEF Underlying, Quote, QuoteFails, Discovery, UseTracker, SkipDiscovery, ChainFails,
              CollectSymbols, Discover, SaveFails, Discovering, Quotes, QuoteBatches,
              AppendFails, Raise, Return, GoOn
<1>4. CASE ExpirationCached \/ ExpirationFails
  BY <1>4 DEF ExpirationCached, ExpirationFails, Raise, Return, GoOn
<1>5. CASE ExpirationMissed
  BY <1>5 DEF ExpirationMissed, GoOn, key, ticker
<1>6. ASSUME NEW answer \in {"listed", "unlisted"},
             ExpirationLoaded(answer) \/ ExpirationRefreshed(answer)
      PROVE  RefreshInv'
  <2>1. cache' = Cached(answer) /\ (pc' = "refresh" => answer = "unlisted" /\ key' = key)
    BY <1>6 DEF ExpirationLoaded, ExpirationRefreshed, Return, GoOn, key, ticker
  <2>2. Cached(answer)[key] = answer
    BY KeyInUse DEF Cached, TypeOK
  <2> QED BY <2>1, <2>2
<1> QED BY <1>1, <1>2, <1>3, <1>4, <1>5, <1>6 DEF Next, CollectTicker, Expiration

\* No step forgets a list of the date, but the end of the process.
LEMMA ListsKept ==
    ASSUME TypeOK, RefreshInv, [Next]_vars, NEW t \in TickerSet,
           cache[<<t, date>>] = "listed", date' = date, crashes' = crashes
    PROVE  cache'[<<t, date>>] = "listed"
<1>1. <<t, date>> \in Keys /\ <<t, date>> \notin OtherDates
  BY CollectionAssumption DEF TypeOK, CycleTypeOK, OtherDates
<1>2. CASE cache' = cache
  BY <1>2
<1>3. ASSUME NEW answer, cache' = Cached(answer), cache[key] # "listed"
      PROVE  cache'[<<t, date>>] = "listed"
  BY <1>1, <1>3 DEF Cached
<1>4. CASE ExpirationFails
  BY <1>1, <1>4 DEF ExpirationFails
<1>5. ~Restart
  BY DEF Restart, Crash, TypeOK, TrackerTypeOK
<1>6. \/ cache' = cache \/ ExpirationFails
      \/ \E answer : cache' = Cached(answer) /\ cache[key] # "listed"
  <2>1. CASE UNCHANGED vars \/ Bounded \/ BeginCycle \/ NextDate
    BY <2>1 DEF vars, Bounded, BeginCycle, NextDate
  <2>2. CASE Underlying \/ Discovery \/ Quotes
    BY <2>2 DEF Underlying, Quote, QuoteFails, Discovery, UseTracker, SkipDiscovery, ChainFails,
                CollectSymbols, Discover, SaveFails, Quotes, QuoteBatches, AppendFails
  <2>3. CASE Expiration
    BY <2>3 DEF Expiration, ExpirationCached, ExpirationMissed, ExpirationLoaded,
                ExpirationRefreshed, RefreshInv
  <2> QED BY <1>5, <2>1, <2>2, <2>3 DEF Next, CollectTicker
<1> QED BY <1>2, <1>3, <1>4, <1>6

\* A ticker that was found to expire today is collected for the rest of the day: nothing
\* but the end of the process makes the resolver ask again.
THEOREM ListsStay == Spec => ListedStays
<1>1. Init => RefreshInv
  BY DEF Init, RefreshInv
<1>2. TypeOK /\ RefreshInv /\ [Next]_vars => RefreshInv'
  BY RefreshStep
<1>3. TypeOK /\ RefreshInv /\ [Next]_vars
        => [\A t \in TickerSet :
              cache[<<t, date>>] = "listed" /\ date' = date /\ crashes' = crashes =>
                  cache'[<<t, date>>] = "listed"]_vars
  BY ListsKept
<1> QED BY <1>1, <1>2, <1>3, TypeCorrect, PTL DEF Spec, ListedStays

----------------------------------------------------------------------------
(***************************************************************************)
(* The sticky universe on a disk that works: no save or read fails and a   *)
(* file survives a death of the process.  The process may still die        *)
(* between any two steps, and every request and append may fail.           *)
(***************************************************************************)
StorageReliable == ~MayFailSave /\ ~MayFailRead /\ ~MayLosePower

UniverseInUse == {"discovery", "symbols", "batches"}

StorageInv ==
    /\ \A k \in Keys : disk[k].kind # "damaged"
    /\ \A k \in Keys : loaded[k] => mem[k] = disk[k].contracts
    /\ \A k \in Keys : exposed[k] \subseteq Persisted(k)
    /\ \A k \in Keys : \A s \in Symbols : disk[k].contracts[s] <= cycle
    /\ pc # "idle" => cycle > 0
    /\ pc \in UniverseInUse => loaded[key]
    /\ QuotedIsPersisted

LEMMA StorageInit == Init => StorageInv
<1> SUFFICES ASSUME Init PROVE StorageInv
  OBVIOUS
<1>1. \A k \in Keys : disk[k].kind = "missing" /\ \A s \in Symbols : disk[k].contracts[s] = 0
  BY DEF Init, TrackerInit, Missing, Untracked
<1> QED BY <1>1 DEF Init, TrackerInit, StorageInv, UniverseInUse, QuotedIsPersisted

\* Loading takes what the file holds, and nothing else changes.
LEMMA LoadFaithful ==
    ASSUME StorageReliable, TypeOK, StorageInv, Load(key, OtherDates)
    PROVE  /\ UNCHANGED <<disk, exposed>>
           /\ loaded'[key]
           /\ \A k \in Keys : loaded'[k] => mem'[k] = disk[k].contracts
<1>1. key \in Keys
  BY KeyInUse DEF TypeOK
<1>2. LoadFound(key, OtherDates)
  BY <1>1 DEF Load, LoadCorrupt, StorageReliable, StorageInv
<1> QED BY <1>1, <1>2 DEF LoadFound, Holds, StorageInv

\* A saved discovery grows the file with what it grows the universe.
LEMMA SaveFaithful ==
    ASSUME TypeOK, StorageInv, loaded[key], cycle > 0, NEW window,
           AddNothing(key, window) \/ AddSaved(key, window, cycle)
    PROVE  /\ UNCHANGED <<loaded, exposed>>
           /\ \A k \in Keys : disk'[k].kind # "damaged"
           /\ \A k \in Keys : loaded[k] => mem'[k] = disk'[k].contracts
           /\ \A k \in Keys : \A s \in Symbols :
                 /\ disk'[k].contracts[s] <= cycle
                 /\ disk[k].contracts[s] # 0 => disk'[k].contracts[s] = disk[k].contracts[s]
<1>1. key \in Keys /\ mem[key] = disk[key].contracts
  BY KeyInUse DEF TypeOK, StorageInv
<1>2. CASE AddNothing(key, window)
  BY <1>2 DEF AddNothing, trackerVars, StorageInv
<1>3. CASE AddSaved(key, window, cycle)
  <2> DEFINE grown == With(key, window, cycle)
  <2>1. disk' = [disk EXCEPT ![key] = Good(grown)] /\ mem' = [mem EXCEPT ![key] = grown]
    BY <1>3 DEF AddSaved
  <2>2. \A s \in Symbols : /\ grown[s] <= cycle
                           /\ mem[key][s] # 0 => grown[s] = mem[key][s]
    BY <1>1 DEF With, New, StorageInv, TypeOK, CycleTypeOK
  <2>3. disk'[key].kind = "good" /\ disk'[key].contracts = grown /\ mem'[key] = grown
    BY <1>1, <2>1 DEF Good, TypeOK, TrackerTypeOK
  <2>4. \A k \in Keys \ {key} : disk'[k] = disk[k] /\ mem'[k] = mem[k]
    BY <2>1 DEF TypeOK, TrackerTypeOK
  <2>5. UNCHANGED <<loaded, exposed>>
    BY <1>3 DEF AddSaved
  <2> HIDE DEF grown
  <2> QED BY <1>1, <2>2, <2>3, <2>4, <2>5 DEF StorageInv
<1> QED BY <1>2, <1>3

\* A step that leaves the files, what is loaded and what is exposed alone, and
\* does not enter a step that uses the universe.
LEMMA StorageKept ==
    ASSUME TypeOK, StorageInv,
           UNCHANGED <<loaded, mem, disk, exposed>>,
           cycle' \in Nat, cycle' >= cycle,
           pc' # "idle" => cycle' > 0,
           pc' \in UniverseInUse => pc' # "batches" /\ pc \in UniverseInUse /\ key' = key
    PROVE  StorageInv'
<1>1. \A k \in Keys, s \in Symbols : disk[k].contracts[s] <= cycle'
  BY DEF StorageInv, TypeOK, CycleTypeOK, TrackerTypeOK, Files, Universes
<1> QED BY <1>1 DEF StorageInv, QuotedIsPersisted, Persisted, UniverseInUse

LEMMA StorageStep ==
    StorageReliable /\ TypeOK /\ StorageInv /\ [Next]_vars => StorageInv'
<1> SUFFICES ASSUME StorageReliable, TypeOK, StorageInv, [Next]_vars PROVE StorageInv'
  OBVIOUS
<1>1. cycle \in Nat
  BY DEF TypeOK, CycleTypeOK
<1>2. CASE BeginCycle \/ NextDate \/ Bounded \/ UNCHANGED vars
  <2>1. CASE BeginCycle \/ NextDate
    BY <1>1, <2>1, StorageKept DEF BeginCycle, NextDate, trackerVars, UniverseInUse, key, ticker
  <2>2. CASE Bounded \/ UNCHANGED vars
    BY <2>2 DEF Bounded, vars, cycleVars, trackerVars, StorageInv, QuotedIsPersisted, Persisted,
          key, ticker, UniverseInUse
  <2> QED BY <1>2, <2>1, <2>2
<1>3. CASE Underlying \/ Expiration \/ Quotes \/ SkipDiscovery \/ ChainFails
  <2>1. UNCHANGED <<loaded, mem, disk, exposed>> /\ cycle' = cycle /\ pc # "idle"
    BY <1>3 DEF Underlying, Expiration, Quotes, SkipDiscovery, ChainFails, Quote, QuoteFails,
          ExpirationCached, ExpirationMissed, ExpirationFails, ExpirationLoaded, Discovering,
          ExpirationRefreshed, QuoteBatches, AppendFails, Raise, Return, GoOn, trackerVars
  <2>2. pc' \in UniverseInUse => pc' # "batches" /\ pc \in UniverseInUse /\ key' = key
    BY <1>3 DEF Underlying, Expiration, Quotes, SkipDiscovery, ChainFails, Quote, QuoteFails,
          ExpirationCached, ExpirationMissed, ExpirationFails, ExpirationLoaded, Discovering,
          ExpirationRefreshed, QuoteBatches, AppendFails, Raise, Return, GoOn, UniverseInUse,
          key, ticker
  <2> QED BY <1>1, <2>1, <2>2, StorageKept DEF StorageInv
<1>4. CASE UseTracker
  <2>1. UNCHANGED <<disk, exposed>> /\ loaded'[key]
        /\ \A k \in Keys : loaded'[k] => mem'[k] = disk[k].contracts
    BY <1>4, LoadFaithful DEF UseTracker, trackerVars, StorageInv
  <2>2. pc' = "discovery" /\ key' = key /\ cycle' = cycle /\ pc # "idle"
    BY <1>4 DEF UseTracker, GoOn, key, ticker
  <2> QED BY <1>1, <2>1, <2>2 DEF StorageInv, QuotedIsPersisted, Persisted, UniverseInUse
<1>5. CASE CollectSymbols
  <2>1. key \in Keys /\ mem[key] = disk[key].contracts
    BY <1>5, KeyInUse DEF CollectSymbols, StorageInv, UniverseInUse, TypeOK
  <2>2. UNCHANGED <<loaded, mem, disk, cycle>>
    BY <1>5 DEF CollectSymbols, Expose, GoOn, Return
  <2>3. exposed' = [exposed EXCEPT ![key] = Persisted(key)]
    BY <1>5, <2>1 DEF CollectSymbols, Expose, Persisted
  <2>4. pc' \in UniverseInUse => key' = key /\ loaded[key]
    BY <1>5 DEF CollectSymbols, Return, GoOn, StorageInv, UniverseInUse, key, ticker
  <2>5. exposed'[key] = Persisted(key)
    BY <2>1, <2>3 DEF TypeOK, TrackerTypeOK
  <2>6. \A k \in Keys : exposed'[k] \subseteq Persisted(k)
    BY <2>3, <2>5 DEF StorageInv, TypeOK, TrackerTypeOK
  <2> QED BY <1>1, <1>5, <2>2, <2>4, <2>5, <2>6
          DEF CollectSymbols, StorageInv, QuotedIsPersisted, Persisted, UniverseInUse
<1>6. ASSUME NEW window, Discover(window) PROVE StorageInv'
  <2>1. pc' = "symbols" /\ key' = key /\ cycle' = cycle /\ loaded[key] /\ cycle > 0
    BY <1>6 DEF Discover, Discovering, GoOn, key, ticker, StorageInv, UniverseInUse
  <2>2. /\ UNCHANGED <<loaded, exposed>>
        /\ \A k \in Keys : disk'[k].kind # "damaged"
        /\ \A k \in Keys : loaded[k] => mem'[k] = disk'[k].contracts
        /\ \A k \in Keys : \A s \in Symbols :
              /\ disk'[k].contracts[s] <= cycle
              /\ disk[k].contracts[s] # 0 => disk'[k].contracts[s] # 0
    BY <1>6, <2>1, SaveFaithful DEF Discover
  <2>3. \A k \in Keys : Persisted(k) \subseteq Persisted(k)'
    BY <2>2 DEF Persisted, Tracked
  <2> QED BY <2>1, <2>2, <2>3 DEF StorageInv, QuotedIsPersisted, UniverseInUse
<1>7. CASE \E window : SaveFails(window)
  BY <1>7 DEF SaveFails, AddUnsaved, StorageReliable
<1>8. CASE Restart
  <2>1. UNCHANGED disk /\ exposed' = exposed /\ \A k \in Keys : ~loaded'[k]
    BY <1>8 DEF Restart, Crash, StorageReliable
  <2> QED BY <1>1, <1>8, <2>1 DEF Restart, StorageInv, QuotedIsPersisted, Persisted, UniverseInUse
<1> QED BY <1>2, <1>3, <1>4, <1>5, <1>6, <1>7, <1>8 DEF Next, CollectTicker, Discovery

LEMMA StorageHolds == ASSUME StorageReliable PROVE Spec => []StorageInv
<1>1. TypeOK /\ StorageInv /\ [Next]_vars => StorageInv'
  BY StorageStep
<1> QED BY <1>1, TypeCorrect, StorageInit, PTL DEF Spec

\* What is requested at the quote step is exactly what is on disk.
THEOREM RequestsArePersisted == ASSUME StorageReliable PROVE Spec => []QuotedIsPersisted
<1>1. StorageInv => QuotedIsPersisted
  BY DEF StorageInv
<1> QED BY <1>1, StorageHolds, PTL

\* On a working disk a contract, once requested, is requested for the rest of the
\* session, over all restarts: the detailed cycle implements StickyUniverse.
THEOREM CollectionIsSticky == ASSUME StorageReliable PROVE Spec => StickySpec
<1>1. Init => Sticky!Init
  BY DEF Init, TrackerInit, Sticky!Init
<1>2. ASSUME TypeOK, StorageInv, [Next]_vars
      PROVE  [Sticky!Next]_exposed
  <2>1. CASE CollectSymbols
    <3>1. key \in Keys /\ mem[key] = disk[key].contracts
      BY <1>2, <2>1, KeyInUse DEF CollectSymbols, StorageInv, UniverseInUse, TypeOK
    <3>2. exposed' = [exposed EXCEPT ![key] = Tracked(mem[key])]
      BY <2>1 DEF CollectSymbols, Expose
    <3>3. exposed[key] \subseteq Tracked(mem[key])
      BY <1>2, <3>1 DEF StorageInv, Persisted
    <3>4. Tracked(mem[key]) \in SUBSET Symbols
      BY DEF Tracked
    <3>5. Sticky!Request(key, Tracked(mem[key]))
      BY <3>2, <3>3 DEF Sticky!Request
    <3> QED BY <3>1, <3>4, <3>5 DEF Sticky!Next
  <2>2. CASE ~CollectSymbols
    <3>1. UNCHANGED exposed
      BY <1>2, <2>2 DEF Next, CollectTicker, Underlying, Expiration, Discovery, Quotes, BeginCycle,
            NextDate, Bounded, Restart, Crash, Quote, QuoteFails, ExpirationCached,
            ExpirationMissed, ExpirationFails, ExpirationLoaded, ExpirationRefreshed,
            QuoteBatches, AppendFails, SkipDiscovery, ChainFails, UseTracker, Load, LoadFound,
            LoadCorrupt, Discover, SaveFails, AddNothing, AddSaved, AddUnsaved, trackerVars, vars
    <3> QED BY <3>1
  <2> QED BY <2>1, <2>2
<1> QED BY <1>1, <1>2, TypeCorrect, StorageHolds, PTL DEF Spec, StickySpec, Sticky!Spec
----------------------------------------------------------------------------
(***************************************************************************)
(* Rows and metadata.                                                      *)
(***************************************************************************)
LEMMA RowsInit == Init => RowsAreOfKnownContracts
BY DEF Init, RowsAreOfKnownContracts

LEMMA RowsStep ==
    StorageReliable /\ TypeOK /\ StorageInv /\ RowsAreOfKnownContracts /\ [Next]_vars
        => RowsAreOfKnownContracts'
<1> SUFFICES ASSUME StorageReliable, TypeOK, StorageInv, RowsAreOfKnownContracts, [Next]_vars
             PROVE  RowsAreOfKnownContracts'
  OBVIOUS
<1>1. ASSUME NEW failed, NEW rows \in SUBSET exposed[key], QuoteBatches(failed, rows)
      PROVE  RowsAreOfKnownContracts'
  <2>1. key \in Keys /\ exposed[key] = Persisted(key)
    BY <1>1, KeyInUse DEF QuoteBatches, StorageInv, QuotedIsPersisted, TypeOK
  <2>2. UNCHANGED disk
    BY <1>1 DEF QuoteBatches, trackerVars
  <2>3. \A s \in rows : s \in Persisted(key) /\ disk[key].contracts[s] <= cycle
    BY <2>1 DEF StorageInv, Persisted, Tracked
  <2>4. options' = [options EXCEPT ![key] = @ \union ({cycle} \X rows)]
    BY <1>1 DEF QuoteBatches
  <2>5. \A k \in Keys : \A row \in options'[k] :
            row[2] \in Persisted(k) /\ disk[k].contracts[row[2]] <= row[1]
    BY <2>1, <2>3, <2>4 DEF RowsAreOfKnownContracts, TypeOK
  <2> QED BY <2>2, <2>5 DEF RowsAreOfKnownContracts, Persisted
<1>2. ASSUME NEW window, Discover(window) PROVE RowsAreOfKnownContracts'
  <2>1. UNCHANGED options /\ loaded[key] /\ cycle > 0
    BY <1>2 DEF Discover, Discovering, StorageInv, UniverseInUse, dataVars
  <2>2. \A k \in Keys : \A s \in Symbols :
            disk[k].contracts[s] # 0 => disk'[k].contracts[s] = disk[k].contracts[s]
    BY <1>2, <2>1, SaveFaithful DEF Discover
  <2> QED BY <2>1, <2>2 DEF RowsAreOfKnownContracts, Persisted, Tracked
<1>3. CASE UseTracker
  <2>1. UNCHANGED disk /\ UNCHANGED options
    BY <1>3, LoadFaithful DEF UseTracker, dataVars, trackerVars
  <2> QED BY <2>1 DEF RowsAreOfKnownContracts, Persisted
<1>4. CASE Restart
  BY <1>4 DEF Restart, Crash, StorageReliable, dataVars, RowsAreOfKnownContracts, Persisted
<1>5. CASE \E window : SaveFails(window)
  BY <1>5 DEF SaveFails, AddUnsaved, StorageReliable
<1>6. CASE \/ BeginCycle \/ NextDate \/ Bounded \/ UNCHANGED vars
           \/ Underlying \/ Expiration \/ AppendFails
           \/ SkipDiscovery \/ ChainFails \/ CollectSymbols
  <2>1. UNCHANGED <<disk, options>>
    BY <1>6 DEF BeginCycle, NextDate, Bounded, vars, trackerVars, dataVars, Underlying, Quote,
          QuoteFails, Expiration, ExpirationCached, ExpirationMissed, ExpirationFails,
          ExpirationLoaded, ExpirationRefreshed, AppendFails, SkipDiscovery, ChainFails,
          CollectSymbols, Expose
  <2> QED BY <2>1 DEF RowsAreOfKnownContracts, Persisted
<1> QED BY <1>1, <1>2, <1>3, <1>4, <1>5, <1>6 DEF Next, CollectTicker, Discovery, Quotes

\* On a working disk every stored option row has its contract's metadata on disk,
\* discovered no later than the row.
THEOREM RowsHaveMetadata == ASSUME StorageReliable PROVE Spec => []RowsAreOfKnownContracts
<1>1. TypeOK /\ StorageInv /\ RowsAreOfKnownContracts /\ [Next]_vars
          => RowsAreOfKnownContracts'
  BY RowsStep
<1> QED BY <1>1, TypeCorrect, StorageHolds, RowsInit, PTL DEF Spec

----------------------------------------------------------------------------
(***************************************************************************)
(* What is saved stays, also when saves fail: memory holds at least what   *)
(* the file holds, with the same discovery times.                          *)
(***************************************************************************)
SavedInv ==
    \A k \in Keys : loaded[k] =>
        \A s \in Persisted(k) : mem[k][s] = disk[k].contracts[s]

SavedStep ==
    \A k \in Keys :
        disk[k].kind = "good" /\ disk'[k].kind = "good" =>
            \A s \in Persisted(k) : disk'[k].contracts[s] = disk[k].contracts[s]

LEMMA SavedInit == Init => SavedInv
BY DEF Init, TrackerInit, SavedInv

\* The tracker operations of one step of the cycle.
TrackerStep ==
    \/ UNCHANGED trackerVars
    \/ Load(key, OtherDates)
    \/ \E window : loaded[key] /\ AddSaved(key, window, cycle)
    \/ \E window : loaded[key] /\ AddUnsaved(key, window, cycle)
    \/ loaded[key] /\ Expose(key)
    \/ Crash

LEMMA TrackerSteps == OneSessionInMemory /\ [Next]_vars => TrackerStep
BY DEF OneSessionInMemory, TrackerStep, Next, CollectTicker, Underlying, Expiration, Discovery,
       Quotes, BeginCycle, NextDate, Bounded, Restart, Quote, QuoteFails, ExpirationCached,
       ExpirationMissed, ExpirationFails, ExpirationLoaded, ExpirationRefreshed, QuoteBatches,
       AppendFails, SkipDiscovery, ChainFails, UseTracker, CollectSymbols, Discover,
       Discovering, SaveFails, AddNothing, vars

LEMMA SavedPreserved ==
    ASSUME ~MayFailQuarantine, TypeOK, SavedInv, TrackerStep
    PROVE  SavedInv' /\ SavedStep
<1>1. key \in Keys
  BY KeyInUse DEF TypeOK
<1>2. CASE UNCHANGED trackerVars
  BY <1>2 DEF trackerVars, SavedInv, SavedStep, Persisted
<1>3. CASE Load(key, OtherDates)
  <2>1. CASE LoadFound(key, OtherDates)
    BY <1>1, <2>1 DEF LoadFound, Holds, SavedInv, SavedStep, Persisted
  <2>2. CASE LoadCorrupt(key, OtherDates)
    <3>1. disk' = [disk EXCEPT ![key] = Missing]
      BY <2>2 DEF LoadCorrupt, Quarantine
    <3>2. disk'[key] = Missing
      BY <1>1, <3>1 DEF TypeOK, TrackerTypeOK
    <3>3. Missing.kind = "missing" /\ Tracked(Missing.contracts) = {}
      BY DEF Missing, Tracked, Untracked
    <3>4. \A k \in Keys \ {key} : disk'[k] = disk[k]
      BY <3>1 DEF TypeOK, TrackerTypeOK
    <3>5. \A k \in Keys \ {key} : loaded'[k] => loaded[k] /\ mem'[k] = mem[k]
      BY <2>2 DEF LoadCorrupt, Holds
    <3> QED BY <3>2, <3>3, <3>4, <3>5 DEF SavedInv, SavedStep, Persisted
  <2> QED BY <1>3, <2>1, <2>2 DEF Load
<1>4. ASSUME NEW window, loaded[key], AddSaved(key, window, cycle) PROVE SavedInv' /\ SavedStep
  <2> DEFINE grown == With(key, window, cycle)
  <2>1. \A s \in Persisted(key) : grown[s] = disk[key].contracts[s]
    BY <1>1, <1>4 DEF With, New, SavedInv, Persisted, Tracked
  <2>2. disk'[key].kind = "good" /\ disk'[key].contracts = grown /\ mem'[key] = grown
    BY <1>1, <1>4 DEF AddSaved, Good, TypeOK, TrackerTypeOK
  <2>3. \A k \in Keys \ {key} : disk'[k] = disk[k] /\ mem'[k] = mem[k]
    BY <1>4 DEF AddSaved, TypeOK, TrackerTypeOK
  <2>4. UNCHANGED loaded
    BY <1>4 DEF AddSaved
  <2> HIDE DEF grown
  <2> QED BY <1>1, <2>1, <2>2, <2>3, <2>4 DEF SavedInv, SavedStep, Persisted
<1>5. ASSUME NEW window, loaded[key], AddUnsaved(key, window, cycle) PROVE SavedInv' /\ SavedStep
  <2>1. \A s \in Persisted(key) : With(key, window, cycle)[s] = disk[key].contracts[s]
    BY <1>1, <1>5 DEF With, New, SavedInv, Persisted, Tracked
  <2>2. mem' = [mem EXCEPT ![key] = With(key, window, cycle)] /\ UNCHANGED <<disk, loaded>>
    BY <1>5 DEF AddUnsaved
  <2> QED BY <1>1, <2>1, <2>2 DEF SavedInv, SavedStep, Persisted, TypeOK, TrackerTypeOK
<1>6. CASE Expose(key)
  BY <1>6 DEF Expose, SavedInv, SavedStep, Persisted
<1>7. CASE Crash
  <2>1. \A k \in Keys : ~loaded'[k]
    BY <1>7 DEF Crash
  <2>2. \A k \in Keys : disk'[k] = disk[k] \/ disk'[k].kind = "damaged"
    BY <1>7 DEF Crash, Damaged, TypeOK, TrackerTypeOK
  <2> QED BY <2>1, <2>2 DEF SavedInv, SavedStep
<1> QED BY <1>2, <1>3, <1>4, <1>5, <1>6, <1>7 DEF TrackerStep

LEMMA SavedHolds == ASSUME ~MayFailQuarantine PROVE Spec => []SavedInv
<1>1. TypeOK /\ OneSessionInMemory /\ SavedInv /\ [Next]_vars => SavedInv'
  BY TrackerSteps, SavedPreserved
<1> QED BY <1>1, TypeCorrect, SessionsStayApart, SavedInit, PTL DEF Spec

\* When renaming works, a first_discovered_utc never changes while its file is in
\* place, whatever read or save fails and whatever file is damaged.
THEOREM DiscoveryTimesAreStable == ASSUME ~MayFailQuarantine PROVE Spec => DiscoveryTimesStay
<1>1. TypeOK /\ OneSessionInMemory /\ SavedInv /\ [Next]_vars
          => [\A k \in Keys :
                disk[k].kind = "good" /\ disk'[k].kind = "good" =>
                    \A s \in Persisted(k) :
                        disk'[k].contracts[s] = disk[k].contracts[s]]_trackerVars
  BY TrackerSteps, SavedPreserved DEF SavedStep
<1> QED BY <1>1, TypeCorrect, SessionsStayApart, SavedHolds, PTL DEF Spec, DiscoveryTimesStay

\* When renaming works, a contract on disk that has been requested stays in the
\* requests, whatever read or save fails and whenever the process dies.
THEOREM SavedContractsAreKept == ASSUME ~MayFailQuarantine PROVE Spec => SavedContractsStay
<1>1. ASSUME TypeOK, SavedInv, TrackerStep, NEW k \in Keys
      PROVE  exposed[k] \intersect Persisted(k) \subseteq exposed'[k]
  <2>1. CASE loaded[key] /\ Expose(key)
    <3>1. key \in Keys
      BY <1>1, KeyInUse DEF TypeOK
    <3>2. Persisted(key) \subseteq Tracked(mem[key])
      BY <1>1, <2>1, <3>1 DEF SavedInv, Persisted, Tracked
    <3> QED BY <1>1, <2>1, <3>1, <3>2 DEF Expose, TypeOK, TrackerTypeOK
  <2>2. CASE UNCHANGED exposed
    BY <2>2
  <2> QED BY <1>1, <2>1, <2>2 DEF TrackerStep, trackerVars, Load, LoadFound, LoadCorrupt,
             AddSaved, AddUnsaved, Crash
<1>2. TypeOK /\ OneSessionInMemory /\ SavedInv /\ [Next]_vars
          => [\A k \in Keys : exposed[k] \intersect Persisted(k) \subseteq exposed'[k]]_trackerVars
  BY <1>1, TrackerSteps
<1> QED BY <1>2, TypeCorrect, SessionsStayApart, SavedHolds, PTL DEF Spec, SavedContractsStay

----------------------------------------------------------------------------
(***************************************************************************)
(* Damaged files: the tracker of a file that is damaged is not in memory.  *)
(***************************************************************************)
DamagedUnloaded == \A k \in Keys : loaded[k] => disk[k].kind # "damaged"

LEMMA DamagedInit == Init => DamagedUnloaded
BY DEF Init, TrackerInit, DamagedUnloaded

LEMMA DamagedPreserved ==
    ASSUME ~MayFailQuarantine, TypeOK, DamagedUnloaded, TrackerStep
    PROVE  /\ DamagedUnloaded'
           /\ \A k \in Keys : disk[k].kind = "damaged" /\ disk'[k].kind # "damaged" =>
                 quarantined'[k] = quarantined[k] + 1
<1> USE DEF DamagedUnloaded
<1>1. key \in Keys
  BY KeyInUse DEF TypeOK
<1>2. CASE UNCHANGED trackerVars \/ Expose(key) \/ \E window : AddUnsaved(key, window, cycle)
  BY <1>2 DEF trackerVars, Expose, AddUnsaved
<1>3. CASE LoadFound(key, OtherDates)
  BY <1>1, <1>3 DEF LoadFound, Holds
<1>4. CASE LoadCorrupt(key, OtherDates)
  <2>1. disk' = [disk EXCEPT ![key] = Missing]
        /\ quarantined' = [quarantined EXCEPT ![key] = @ + 1]
    BY <1>4 DEF LoadCorrupt, Quarantine
  <2>2. disk'[key].kind = "missing" /\ quarantined'[key] = quarantined[key] + 1
    BY <1>1, <2>1 DEF Missing, TypeOK, TrackerTypeOK
  <2>3. \A k \in Keys \ {key} : disk'[k] = disk[k]
    BY <2>1 DEF TypeOK, TrackerTypeOK
  <2>4. \A k \in Keys : loaded'[k] => k = key \/ loaded[k]
    BY <1>4 DEF LoadCorrupt, Holds
  <2> QED BY <2>2, <2>3, <2>4
<1>5. ASSUME NEW window, loaded[key], AddSaved(key, window, cycle)
      PROVE  /\ DamagedUnloaded'
             /\ \A k \in Keys : disk'[k].kind # "damaged" => disk[k].kind # "damaged"
  <2>1. disk'[key].kind = "good" /\ \A k \in Keys \ {key} : disk'[k] = disk[k]
    BY <1>1, <1>5 DEF AddSaved, Good, TypeOK, TrackerTypeOK
  <2> QED BY <1>1, <1>5, <2>1 DEF AddSaved
<1>6. CASE Crash
  <2>1. \A k \in Keys : ~loaded'[k]
    BY <1>6 DEF Crash
  <2>2. \A k \in Keys : disk'[k] = disk[k] \/ disk'[k].kind = "damaged"
    BY <1>6 DEF Crash, Damaged, TypeOK, TrackerTypeOK
  <2> QED BY <2>1, <2>2
<1> QED BY <1>2, <1>3, <1>4, <1>5, <1>6 DEF TrackerStep, Load

\* When renaming works, a damaged metadata file is never overwritten.
THEOREM DamagedFilesAreKept == ASSUME ~MayFailQuarantine PROVE Spec => CorruptFilesPreserved
<1>1. TypeOK /\ OneSessionInMemory /\ DamagedUnloaded /\ [Next]_vars
          => /\ DamagedUnloaded'
             /\ [\A k \in Keys : disk[k].kind = "damaged" /\ disk'[k].kind # "damaged" =>
                    quarantined'[k] = quarantined[k] + 1]_trackerVars
  BY TrackerSteps, DamagedPreserved
<1> QED BY <1>1, TypeCorrect, SessionsStayApart, DamagedInit, PTL DEF Spec, CorruptFilesPreserved

=============================================================================
