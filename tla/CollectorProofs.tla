--------------------------- MODULE CollectorProofs ---------------------------
(***************************************************************************)
(* What a cycle reports against what it leaves in the files, and what the  *)
(* health of the day makes of it, for every set of tickers, contracts and  *)
(* windows and every number of cycles and deaths.                          *)
(***************************************************************************)
EXTENDS Collector, CollectionProofs, WellFoundedInduction

\* The ticker goes on, or it returns a result and has stored rows of the cycle only
\* if that result says so.
Reports(result, rows) ==
    /\ Return(result)
    /\ options' = [options EXCEPT ![key] = @ \union ({cycle} \X rows)]
    /\ result.status # "none"
    /\ result.status # "ok" => rows = {}
    /\ result.status = "ok" /\ result.failed > 0 => rows # {}
    /\ result.failed > 0 => result.status \in {"ok", "all_batches_failed"}

TickerStep ==
    /\ pc # "idle" /\ cycle' = cycle /\ date' = date
    /\ \/ UNCHANGED <<turn, results, options>> /\ pc' # "idle"
       \/ \E result, rows : Reports(result, rows)

LEMMA NothingStored ==
  ASSUME TypeOK, NEW result, Return(result), result.status \notin {"ok", "none"},
         result.failed = 0, UNCHANGED options
  PROVE  \E r, rows : Reports(r, rows)
<1>1. options' = [options EXCEPT ![key] = @ \union ({cycle} \X {})]
  BY DEF TypeOK
<1>2. ~(result.failed > 0)
  OBVIOUS
<1>3. Reports(result, {})
  BY <1>1, <1>2 DEF Reports
<1> QED BY <1>3

LEMMA TickerSteps ==
  ASSUME TypeOK, CollectTicker PROVE TickerStep
<1> USE DEF TickerStep, dataVars
<1>1. \A status : Result(status).status = status /\ Result(status).failed = 0
  BY DEF Result, NoResult
<1>2. ASSUME NEW status, status \notin {"ok", "none"}, Return(Result(status)), UNCHANGED options, pc # "idle"
      PROVE  TickerStep
  BY <1>1, <1>2, NothingStored DEF Return
<1>3. ASSUME NEW p, GoOn(p), p # "idle", UNCHANGED options, pc # "idle" PROVE TickerStep
  BY <1>3 DEF GoOn
<1>4. CASE Underlying
  BY <1>4, <1>2, <1>3 DEF Underlying, Quote, QuoteFails, Raise
<1>5. CASE Expiration
  BY <1>5, <1>2, <1>3
     DEF Expiration, ExpirationCached, ExpirationMissed, ExpirationFails, ExpirationLoaded,
         ExpirationRefreshed, Raise
<1>6. CASE Discovery
  BY <1>6, <1>2, <1>3
     DEF Discovery, UseTracker, SkipDiscovery, ChainFails, CollectSymbols, Discover, SaveFails,
         Discovering, Raise
<1>7. CASE AppendFails
  BY <1>7, <1>2 DEF AppendFails, Raise
<1>8. ASSUME NEW failed \in SUBSET Batches, NEW rows \in SUBSET exposed[key],
             QuoteBatches(failed, rows)
      PROVE  TickerStep
  <2>1. Return(Outcome(failed, rows)) /\ pc # "idle"
        /\ options' = [options EXCEPT ![key] = @ \union ({cycle} \X rows)]
    BY <1>8 DEF QuoteBatches
  <2>2. Outcome(failed, rows).status # "ok" => rows = {}
    BY DEF Outcome
  <2>3. Outcome(failed, rows).failed > 0 => failed # {}
    BY FS_EmptySet DEF Outcome
  <2>4. Outcome(failed, rows).status = "ok" /\ failed # {} => rows # {}
    BY DEF Outcome
  <2>7. Outcome(failed, rows).status # "none"
    BY DEF Outcome
  <2>8. Outcome(failed, rows).status \in {"ok", "all_batches_failed"}
    BY DEF Outcome
  <2>5. Reports(Outcome(failed, rows), rows)
    BY <2>1, <2>2, <2>3, <2>4, <2>7, <2>8 DEF Reports
  <2>6. cycle' = cycle /\ date' = date
    BY <2>1 DEF Return
  <2> QED BY <2>1, <2>5, <2>6
<1> QED BY <1>4, <1>5, <1>6, <1>7, <1>8 DEF CollectTicker, Quotes
----------------------------------------------------------------------------
\* The rows of the present cycle are those of the results that say "ok".
ReportInv ==
    /\ \A k \in Keys : \A row \in options[k] : row[1] <= cycle
    /\ \A k \in Keys : k[2] > date => options[k] = {}
    /\ pc # "idle" => \A i \in DOMAIN Tickers : i >= turn => results[Tickers[i]].status # "ok"
    /\ \A t \in TickerSet : results[t].status # "ok" =>
         \A row \in options[<<t, date>>] : row[1] # cycle
    /\ LossIsReported

LEMMA ReportInit == Init => ReportInv
<1> SUFFICES ASSUME Init PROVE ReportInv
  OBVIOUS
<1>1. \A t \in TickerSet, d \in Dates : <<t, d>> \in Keys
  BY CollectionAssumption
<1>2. \A t \in TickerSet : results[t].status = "none"
  BY DEF Init, NoResult
<1>3. \A i \in DOMAIN Tickers : Tickers[i] \in TickerSet
  BY DEF TickerSet
<1>4. date \in Dates
  BY DEF Init
<1> QED BY <1>1, <1>2, <1>3, <1>4 DEF Init, ReportInv, LossIsReported

LEMMA ReportStep == TypeOK /\ ReportInv /\ [Next]_vars => ReportInv'
<1> SUFFICES ASSUME TypeOK, ReportInv, [Next]_vars PROVE ReportInv'
  OBVIOUS
<1>0. /\ cycle \in Nat /\ date \in Dates /\ Dates \subseteq Nat /\ turn \in DOMAIN Tickers
      /\ Keys = TickerSet \X Dates /\ ticker \in TickerSet /\ key = <<ticker, date>>
      /\ key \in Keys /\ results \in [TickerSet -> TickerResults]
      /\ options \in [Keys -> SUBSET (Nat \X Symbols)]
      /\ \A i \in DOMAIN Tickers : Tickers[i] \in TickerSet /\ i \in Nat
      /\ \A i, j \in DOMAIN Tickers : Tickers[i] = Tickers[j] => i = j
  <2>1. /\ cycle \in Nat /\ date \in Dates /\ turn \in DOMAIN Tickers
        /\ results \in [TickerSet -> TickerResults]
        /\ options \in [Keys -> SUBSET (Nat \X Symbols)]
    BY DEF TypeOK, CycleTypeOK
  <2>2. ticker \in TickerSet /\ key \in Keys /\ key = <<ticker, date>>
    BY <2>1, KeyOfCycle DEF key
  <2>3. \A i \in DOMAIN Tickers : Tickers[i] \in TickerSet /\ i \in Nat
    BY CollectionAssumption DEF TickerSet
  <2>4. /\ Dates \subseteq Nat /\ Keys = TickerSet \X Dates
        /\ \A i, j \in DOMAIN Tickers : Tickers[i] = Tickers[j] => i = j
    BY CollectionAssumption
  <2> QED BY <2>1, <2>2, <2>3, <2>4
<1>6. ASSUME NEW k \in Keys, NEW c \in Nat, c <= cycle, OptionsStored(k, c)
       PROVE  OptionsStored(k, c)'
  BY <1>6, StoredKept
<1>1. CASE BeginCycle
  <2>1. /\ cycle' = cycle + 1 /\ date' = date /\ options' = options
        /\ \A s \in TickerSet : results'[s].status = "none"
    BY <1>1 DEF BeginCycle, NoResult, dataVars
  <2>2. \A k \in Keys : \A row \in options[k] : row[1] \in Nat /\ row[1] <= cycle
    BY <1>0 DEF ReportInv
  <2>3. \A k \in Keys : \A row \in options'[k] : row[1] <= cycle' /\ row[1] # cycle'
    BY <2>1, <2>2, <1>0
  <2>4. \A s \in TickerSet : <<s, date>> \in Keys
    BY <1>0
  <2> QED BY <2>1, <2>3, <2>4, <1>0 DEF ReportInv, LossIsReported
<1>2. CASE NextDate
  <2>1. /\ date' = date + 1 /\ date' \in Dates /\ pc' = "idle"
        /\ UNCHANGED <<cycle, results, options, optionsTorn>>
    BY <1>2 DEF NextDate, dataVars
  <2>2. ASSUME NEW k \in Keys, k[2] > date' PROVE k[2] > date
    <3>1. k[2] \in Nat /\ date \in Nat
      BY <1>0
    <3> QED BY <2>1, <2>2, <3>1
  <2>3. \A s \in TickerSet : options[<<s, date'>>] = {}
    <3>1. ASSUME NEW s \in TickerSet PROVE options[<<s, date'>>] = {}
      <4>1. <<s, date'>> \in Keys /\ <<s, date'>>[2] > date
        BY <2>1, <1>0
      <4> QED BY <4>1 DEF ReportInv
    <3> QED BY <3>1
  <2> QED BY <2>1, <2>2, <2>3 DEF ReportInv, LossIsReported, OptionsStored
<1>3. CASE CollectTicker
  <2>1. TickerStep
    BY <1>3, TickerSteps
  <2>0. \A k \in Keys : cycle' = cycle /\ OptionsStored(k, cycle) => OptionsStored(k, cycle)'
    BY <1>0, <1>6 DEF OptionsStored
  <2>2. CASE UNCHANGED <<turn, results, options>>
    <3>1. cycle' = cycle /\ \A s \in TickerSet, d \in Dates : <<s, d>> \in Keys
      BY <1>0, <2>1 DEF TickerStep
    <3>2. LossIsReported'
      BY <2>0, <2>2, <3>1 DEF ReportInv, LossIsReported, OptionsStored
    <3> QED BY <2>1, <2>2, <3>2 DEF TickerStep, ReportInv
  <2>3. ASSUME NEW result, NEW rows, Reports(result, rows) PROVE ReportInv'
    <3>1. /\ pc # "idle" /\ cycle' = cycle /\ date' = date
          /\ results' = [results EXCEPT ![ticker] = result]
          /\ options' = [options EXCEPT ![key] = @ \union ({cycle} \X rows)]
          /\ result.status # "ok" => rows = {}
          /\ result.status = "ok" /\ result.failed > 0 => rows # {}
      BY <2>1, <2>3 DEF TickerStep, Reports, Return
    <3>2. \A k \in Keys : k # key => options'[k] = options[k]
      BY <3>1, <1>0
    <3>3. options'[key] = options[key] \union ({cycle} \X rows)
      BY <3>1, <1>0
    <3>4. \A k \in Keys : options[k] \subseteq options'[k]
      BY <3>2, <3>3
    <3>5. \A k \in Keys : \A row \in options'[k] : row[1] <= cycle'
      BY <3>1, <3>2, <3>3, <1>0 DEF ReportInv
    <3>6. \A k \in Keys : k[2] > date' => options'[k] = {}
      <4>1. key[2] = date /\ ~(date > date)
        BY <1>0
      <4> QED BY <3>1, <3>2, <4>1 DEF ReportInv
    <3>7. pc' # "idle" => \A i \in DOMAIN Tickers : i >= turn' => results'[Tickers[i]].status # "ok"
      <4>1. SUFFICES ASSUME pc' # "idle", NEW i \in DOMAIN Tickers, i >= turn'
                     PROVE  results'[Tickers[i]].status # "ok"
        OBVIOUS
      <4>2. turn' = turn + 1
        BY <2>3, <4>1 DEF Reports, Return
      <4>3. i # turn /\ i >= turn
        BY <4>1, <4>2, <1>0
      <4>4. Tickers[i] # ticker
        BY <4>3, <1>0 DEF ticker
      <4> QED BY <4>3, <4>4, <3>1, <1>0 DEF ReportInv
    <3>8. ASSUME NEW s \in TickerSet, results'[s].status # "ok"
          PROVE  \A row \in options'[<<s, date'>>] : row[1] # cycle'
      <4>1. CASE s = ticker
        <5>1. results[ticker].status # "ok"
          <6>1. turn >= turn
            BY <1>0
          <6> QED BY <3>1, <6>1, <1>0 DEF ReportInv, ticker
        <5>2. rows = {}
          BY <4>1, <3>8, <3>1, <1>0
        <5>3. options'[key] = options[key]
          BY <5>2, <3>3
        <5> QED BY <5>1, <5>3, <4>1, <3>1, <1>0 DEF ReportInv
      <4>2. CASE s # ticker
        <5>1. results'[s] = results[s] /\ <<s, date>> \in Keys /\ <<s, date>> # key
          BY <4>2, <3>1, <1>0
        <5>2. options'[<<s, date>>] = options[<<s, date>>]
          BY <5>1, <3>2
        <5> QED BY <5>1, <5>2, <3>8, <3>1 DEF ReportInv
      <4> QED BY <4>1, <4>2
    <3>9. LossIsReported'
      <4>1. SUFFICES ASSUME NEW s \in TickerSet, results'[s].status = "ok", results'[s].failed > 0
                     PROVE  \E d \in Dates : OptionsStored(<<s, d>>, cycle)'
        BY DEF LossIsReported
      <4>2. CASE s = ticker
        <5>1. PICK r \in rows : TRUE
          BY <4>1, <4>2, <3>1, <1>0
        <5>2. <<cycle, r>> \in options'[<<s, date>>] /\ <<cycle, r>>[1] = cycle'
          BY <5>1, <4>2, <3>3, <3>1, <1>0
        <5> QED BY <5>2, <1>0, <3>1 DEF OptionsStored
      <4>3. CASE s # ticker
        <5>1. results'[s] = results[s]
          BY <4>3, <3>1, <1>0
        <5>2. PICK d \in Dates : OptionsStored(<<s, d>>, cycle)
          BY <4>1, <5>1 DEF ReportInv, LossIsReported
        <5>3. <<s, d>> \in Keys
          BY <1>0
        <5> QED BY <2>0, <5>2, <5>3, <3>1 DEF OptionsStored
      <4> QED BY <4>2, <4>3
    <3> QED BY <3>5, <3>6, <3>7, <3>8, <3>9 DEF ReportInv
  <2> QED BY <2>1, <2>2, <2>3 DEF TickerStep
<1>4. CASE Restart
  <2>1. /\ pc' = "idle" /\ UNCHANGED <<date, cycle, results>>
        /\ \A k \in Keys : options'[k] \subseteq options[k]
    BY <1>4, RestartData DEF Restart
  <2>2. \A s \in TickerSet, d \in Dates : <<s, d>> \in Keys
    BY <1>0
  <2>3. \A k \in Keys : OptionsStored(k, cycle) => OptionsStored(k, cycle)'
    BY <1>0, <1>6, <2>1 DEF OptionsStored
  <2>4. LossIsReported'
    BY <2>1, <2>2, <2>3 DEF ReportInv, LossIsReported, OptionsStored
  <2> QED BY <1>0, <2>1, <2>2, <2>4 DEF ReportInv
<1>5. CASE Bounded \/ UNCHANGED vars
  BY <1>5 DEF Bounded, vars, cycleVars, dataVars, ReportInv, LossIsReported, OptionsStored
<1> QED BY <1>1, <1>2, <1>3, <1>4, <1>5 DEF Next

LEMMA ReportHolds == Spec => []ReportInv
BY ReportInit, ReportStep, TypeCorrect, PTL DEF Spec

\* A cycle that lost quote batches counts as observed only if option rows of it were stored.
THEOREM LossIsAlwaysReported == Spec => []LossIsReported
<1>1. ReportInv => LossIsReported
  BY DEF ReportInv
<1> QED BY <1>1, ReportHolds, PTL

\* No failure after the underlying row, and no death, passes for a complete day: the cycle
\* has an underlying row and no option row, which makes the day suspicious at best.
THEOREM FailuresAlwaysShow == Spec => []FailureShows
<1>1. ASSUME TypeOK, ReportInv PROVE FailureShows
  <2>1. SUFFICES ASSUME NEW t \in TickerSet, cycle \in underlying[<<t, date>>],
                        results[t].status # "ok"
                 PROVE  Classification(<<t, date>>) # "COMPLETE"
    BY DEF FailureShows
  <2>2. cycle \notin OptionCycles(<<t, date>>)
    BY <1>1, <2>1 DEF ReportInv, OptionCycles
  <2>3. Suspicious(<<t, date>>)
    BY <2>1, <2>2 DEF Suspicious
  <2> QED BY <2>3 DEF Classification
<1> QED BY <1>1, ReportHolds, TypeCorrect, PTL
----------------------------------------------------------------------------
(***************************************************************************)
(* Every ticker has its turn.                                              *)
(***************************************************************************)
\* The tickers before the one being collected have their results.
TurnsInv ==
    pc # "idle" => \A i \in DOMAIN Tickers : i < turn => results[Tickers[i]].status # "none"

LEMMA TurnsStep ==
    ASSUME TypeOK, TurnsInv, [Next]_vars
    PROVE  /\ TurnsInv'
           /\ pc # "idle" /\ pc' = "idle" /\ crashes' = crashes =>
                \A t \in TickerSet : results'[t].status # "none"
<1>0. /\ turn \in DOMAIN Tickers /\ results \in [TickerSet -> TickerResults]
      /\ DOMAIN Tickers = 1 .. Len(Tickers) /\ Len(Tickers) \in Nat
      /\ \A i \in DOMAIN Tickers : Tickers[i] \in TickerSet
      /\ \A t \in TickerSet : \E i \in DOMAIN Tickers : t = Tickers[i]
      /\ crashes \in Nat
  BY CollectionAssumption DEF TypeOK, CycleTypeOK, TrackerTypeOK, TickerSet
<1>1. CASE BeginCycle
  <2>1. pc = "idle" /\ turn' = 1
    BY <1>1 DEF BeginCycle
  <2> QED BY <2>1, <1>0 DEF TurnsInv
<1>2. CASE NextDate \/ Bounded
  BY <1>2 DEF NextDate, Bounded, vars, cycleVars, TurnsInv
<1>3. CASE UNCHANGED vars
  BY <1>3 DEF vars, cycleVars, TurnsInv
<1>4. CASE Restart
  <2>1. pc' = "idle" /\ crashes' = crashes + 1
    BY <1>4 DEF Restart, Crash
  <2> QED BY <2>1, <1>0 DEF TurnsInv
<1>5. CASE CollectTicker
  <2>1. TickerStep
    BY <1>5, TickerSteps
  <2>2. CASE UNCHANGED <<turn, results>> /\ pc' # "idle"
    BY <2>1, <2>2 DEF TickerStep, TurnsInv
  <2>3. ASSUME NEW result, Return(result), result.status # "none", pc # "idle"
        PROVE  /\ TurnsInv'
               /\ pc' = "idle" => \A t \in TickerSet : results'[t].status # "none"
    <3>1. ASSUME NEW i \in DOMAIN Tickers, i <= turn PROVE results'[Tickers[i]].status # "none"
      <4>1. results' = [results EXCEPT ![ticker] = result]
        BY <2>3 DEF Return
      <4>2. CASE Tickers[i] = ticker
        BY <4>1, <4>2, <2>3, <1>0
      <4>3. CASE Tickers[i] # ticker
        <5>1. i < turn
          BY <3>1, <4>3, <1>0 DEF ticker
        <5> QED BY <4>1, <4>3, <5>1, <2>3, <1>0 DEF TurnsInv
      <4> QED BY <4>2, <4>3
    <3>2. \/ pc' = "quote" /\ turn' = turn + 1
          \/ pc' = "idle" /\ turn >= Len(Tickers)
      BY <2>3, <1>0 DEF Return
    <3>3. turn' = turn + 1 => \A i \in DOMAIN Tickers : i < turn' => i <= turn
      BY <1>0
    <3>4. turn >= Len(Tickers) => \A i \in DOMAIN Tickers : i <= turn
      BY <1>0
    <3> QED BY <3>1, <3>2, <3>3, <3>4, <1>0 DEF TurnsInv
  <2> QED BY <2>1, <2>2, <2>3 DEF TickerStep, Reports
<1> QED BY <1>1, <1>2, <1>3, <1>4, <1>5 DEF Next

\* A cycle that ends, the process alive, has a result for every ticker, whichever of them
\* raised in whatever step.
THEOREM TickersAlwaysReport == Spec => EveryTickerReports
<1>1. Init => TurnsInv
  BY DEF Init, TurnsInv
<1>2. TypeOK /\ TurnsInv /\ [Next]_vars => TurnsInv'
  BY TurnsStep
<1>3. TypeOK /\ TurnsInv /\ [Next]_vars
          => [pc # "idle" /\ pc' = "idle" /\ crashes' = crashes =>
                \A t \in TickerSet : results'[t].status # "none"]_vars
  BY TurnsStep
<1> QED BY <1>1, <1>2, <1>3, TypeCorrect, PTL DEF Spec, EveryTickerReports
----------------------------------------------------------------------------
(***************************************************************************)
(* A full cycle passes the sticky check, on a disk that works.             *)
(***************************************************************************)
\* Once the current cycle has rows, nothing is tracked that was not asked for in it.
FullCycleInv ==
    \A t \in TickerSet :
        RowsOf(<<t, date>>, cycle) # {} => Persisted(<<t, date>>) = exposed[<<t, date>>]

\* A step that leaves files, requests and rows of the cycle alone.
LEMMA FullCycleKept ==
  ASSUME FullCycleInv, UNCHANGED <<disk, exposed, options, cycle, date>>
  PROVE  FullCycleInv'
BY DEF FullCycleInv, RowsOf, Persisted

\* A step that changes them for the ticker in its turn only.
LEMMA FullCycleElsewhere ==
  ASSUME TypeOK, FullCycleInv, UNCHANGED <<options, cycle, date>>,
         \A k \in Keys : k # key => disk'[k] = disk[k] /\ exposed'[k] = exposed[k],
         RowsOf(key, cycle) = {}
  PROVE  FullCycleInv'
<1>1. \A t \in TickerSet : <<t, date>> \in Keys
  BY CollectionAssumption DEF TypeOK, CycleTypeOK
<1> QED BY <1>1 DEF FullCycleInv, RowsOf, Persisted

LEMMA FullCycleStep ==
  ASSUME StorageReliable, TypeOK, StorageInv, ReportInv, FullCycleInv, [Next]_vars
  PROVE  FullCycleInv'
<1>0. /\ ticker \in TickerSet /\ key = <<ticker, date>> /\ key \in Keys
      /\ turn \in DOMAIN Tickers /\ turn \in Nat /\ cycle \in Nat
      /\ Keys = TickerSet \X Dates /\ date \in Dates /\ Dates \subseteq Nat
      /\ options \in [Keys -> SUBSET (Nat \X Symbols)]
      /\ exposed \in [Keys -> SUBSET Symbols]
  BY KeyOfCycle, CollectionAssumption DEF TypeOK, CycleTypeOK, TrackerTypeOK, key
<1>1. ASSUME pc # "idle" PROVE RowsOf(key, cycle) = {}
  <2>1. results[ticker].status # "ok"
    <3>1. turn >= turn
      BY <1>0
    <3> QED BY <1>0, <1>1, <3>1 DEF ReportInv, ticker
  <2> QED BY <1>0, <2>1 DEF ReportInv, RowsOf
<1>2. CASE BeginCycle
  <2>1. UNCHANGED <<date, options>> /\ cycle' = cycle + 1
    BY <1>2 DEF BeginCycle, dataVars
  <2>2. ASSUME NEW t \in TickerSet PROVE RowsOf(<<t, date>>, cycle + 1) = {}
    <3>1. \A row \in options[<<t, date>>] : row[1] \in Nat /\ row[1] <= cycle
      BY <1>0 DEF ReportInv
    <3> QED BY <1>0, <3>1 DEF RowsOf
  <2> QED BY <2>1, <2>2 DEF FullCycleInv, RowsOf
<1>3. CASE NextDate
  <2>1. date' = date + 1 /\ date' \in Dates /\ UNCHANGED <<cycle, options>>
    BY <1>3 DEF NextDate, dataVars
  <2>2. ASSUME NEW t \in TickerSet PROVE options[<<t, date'>>] = {}
    <3>1. <<t, date'>> \in Keys /\ <<t, date'>>[2] > date
      BY <1>0, <2>1
    <3> QED BY <3>1 DEF ReportInv
  <2> QED BY <2>1, <2>2 DEF FullCycleInv, RowsOf
<1>4. CASE UseTracker
  <2>1. UNCHANGED <<disk, exposed>>
    BY <1>4, LoadFaithful DEF UseTracker, trackerVars
  <2> QED BY <1>4, <2>1, FullCycleKept DEF UseTracker, GoOn, dataVars
<1>5. ASSUME NEW window, Discover(window) PROVE FullCycleInv'
  <2>1. pc # "idle" /\ UNCHANGED <<options, cycle, date, exposed>>
    BY <1>5 DEF Discover, Discovering, GoOn, dataVars, AddNothing, AddSaved, trackerVars
  <2>2. \A k \in Keys : k # key => disk'[k] = disk[k]
    BY <1>5 DEF Discover, AddNothing, AddSaved, trackerVars, TypeOK, TrackerTypeOK
  <2> QED BY <1>1, <2>1, <2>2, FullCycleElsewhere
<1>6. CASE CollectSymbols
  <2>1. pc # "idle" /\ UNCHANGED <<options, cycle, date, disk>>
    BY <1>6 DEF CollectSymbols, Expose, GoOn, Return, dataVars
  <2>2. \A k \in Keys : k # key => exposed'[k] = exposed[k]
    BY <1>0, <1>6 DEF CollectSymbols, Expose
  <2> QED BY <1>1, <2>1, <2>2, FullCycleElsewhere
<1>7. ASSUME NEW failed, NEW rows, QuoteBatches(failed, rows) PROVE FullCycleInv'
  <2>1. /\ UNCHANGED <<disk, exposed, cycle, date>>
        /\ options' = [options EXCEPT ![key] = @ \union ({cycle} \X rows)]
    BY <1>7 DEF QuoteBatches, Return, trackerVars
  <2>2. Persisted(key) = exposed[key]
    BY <1>7 DEF QuoteBatches, StorageInv, QuotedIsPersisted
  <2>3. ASSUME NEW t \in TickerSet, t # ticker
        PROVE  options'[<<t, date>>] = options[<<t, date>>]
    <3>1. <<t, date>> \in Keys /\ <<t, date>> # key
      BY <1>0, <2>3
    <3> QED BY <1>0, <2>1, <3>1
  <2>4. ASSUME NEW t \in TickerSet, RowsOf(<<t, date>>, cycle)' # {}
        PROVE  Persisted(<<t, date>>) = exposed[<<t, date>>]
    <3>1. CASE t = ticker
      BY <1>0, <2>2, <3>1
    <3>2. CASE t # ticker
      BY <2>1, <2>3, <2>4, <3>2 DEF FullCycleInv, RowsOf
    <3> QED BY <3>1, <3>2
  <2> QED BY <2>1, <2>4 DEF FullCycleInv, Persisted
<1>8. CASE Restart
  BY <1>8, FullCycleKept DEF Restart, Crash, StorageReliable, dataVars
<1>9. CASE \E window : SaveFails(window)
  BY <1>9 DEF SaveFails, AddUnsaved, StorageReliable
<1>10. CASE \/ Bounded \/ UNCHANGED vars \/ Underlying \/ Expiration \/ AppendFails
            \/ SkipDiscovery \/ ChainFails
  <2>1. UNCHANGED <<disk, exposed, options, cycle, date>>
    BY <1>10 DEF Bounded, vars, cycleVars, trackerVars, dataVars, Underlying, Quote, QuoteFails,
          Expiration, ExpirationCached, ExpirationMissed, ExpirationFails, ExpirationLoaded,
          ExpirationRefreshed, AppendFails, SkipDiscovery, ChainFails, Raise, Return, GoOn
  <2> QED BY <2>1, FullCycleKept
<1> QED BY <1>2, <1>3, <1>4, <1>5, <1>6, <1>7, <1>8, <1>9, <1>10
        DEF Next, CollectTicker, Discovery, Quotes
----------------------------------------------------------------------------
(***************************************************************************)
(* A set of naturals has a least element, and so has the sample.           *)
(***************************************************************************)
Descending == {p \in Nat \X Nat : p[1] < p[2]}

LEMMA LeastExists ==
  ASSUME NEW S \in SUBSET Nat, S # {}
  PROVE  \E least \in S : \A x \in S : least <= x
<1>1. OpToRel(<, Nat) = Descending
  BY Zenon DEF OpToRel, Descending
<1>2. IsWellFoundedOn(Descending, Nat)
  BY <1>1, NatLessThanWellFounded, Zenon
<1>3. PICK least \in S : \A x \in S : <<x, least>> \notin Descending
  BY <1>2, WFMin
<1>4. ASSUME NEW x \in S PROVE least <= x
  <2>1. x \in Nat /\ least \in Nat
    OBVIOUS
  <2>2. ~(x < least)
    BY <1>3, <2>1 DEF Descending
  <2> QED BY <2>1, <2>2
<1> QED BY <1>4

\* The least morning contract is always sampled.
LEMMA SampleOfMorning ==
  ASSUME NEW k, Morning(k) # {}
  PROVE  Sample(k) # {}
<1>1. Morning(k) \in SUBSET Nat /\ IsFiniteSet(Morning(k))
  <2>1. Morning(k) \subseteq Symbols
    BY DEF Morning, Persisted, Tracked
  <2> QED BY <2>1, CollectionAssumption, FS_Subset
<1>2. PICK s \in Morning(k) : \A x \in Morning(k) : s <= x
  BY <1>1, LeastExists
<1>3. {r \in Morning(k) : r < s} = {}
  <2>1. \A r \in Morning(k) : r \in Nat /\ s \in Nat /\ s <= r
    BY <1>1, <1>2
  <2>2. \A r \in Morning(k) : ~(r < s)
    BY <2>1
  <2> QED BY <2>2
<1>4. Cardinality({r \in Morning(k) : r < s}) = 0
  BY <1>3, FS_EmptySet
<1> DEFINE n == Cardinality(Morning(k))
           step == IF n < SampleContracts THEN 1 ELSE n \div SampleContracts
<1>5. n \in Nat /\ SampleContracts \in Nat \ {0}
  BY <1>1, FS_CardinalityType, DatasetAssumption
<1>6. step \in Nat \ {0}
  <2> HIDE DEF n
  <2>1. CASE n < SampleContracts
    BY <2>1
  <2>2. CASE ~(n < SampleContracts)
    BY <1>5, <2>2
  <2> QED BY <2>1, <2>2
<1>7. 0 % step = 0 /\ 0 \div step < SampleContracts
  <2> HIDE DEF step
  <2> QED BY <1>5, <1>6
<1> QED BY <1>2, <1>4, <1>7 DEF Sample

\* Without a power failure no Parquet file is destroyed.
NothingTorn == \A k \in Keys : Readable(k)

LEMMA NothingTornHolds == ASSUME StorageReliable PROVE Spec => []NothingTorn
<1>1. Init => NothingTorn
  BY DEF Init, NothingTorn, Readable
<1>2. NothingTorn /\ [Next]_vars => NothingTorn'
  <2>1. ASSUME [Next]_vars PROVE UNCHANGED <<underlyingTorn, optionsTorn>>
    BY <2>1 DEF StorageReliable, Restart, Next, CollectTicker, vars, dataVars, Bounded,
       BeginCycle, NextDate, Underlying, Quote, QuoteFails, Expiration, ExpirationCached,
       ExpirationMissed, ExpirationFails, ExpirationLoaded, ExpirationRefreshed, Discovery,
       UseTracker, SkipDiscovery, ChainFails, CollectSymbols, Discover, SaveFails, Quotes,
       QuoteBatches, AppendFails
  <2> QED BY <2>1 DEF NothingTorn, Readable
<1> QED BY <1>1, <1>2, PTL DEF Spec

LEMMA FullCyclePasses ==
  ASSUME TypeOK, ReportInv, RowsAreOfKnownContracts, FullCycleInv, NothingTorn
  PROVE  FullCycleValidates
<1> SUFFICES ASSUME NEW t \in TickerSet, RowsOf(<<t, date>>, cycle) # {},
                    RowsOf(<<t, date>>, cycle) = exposed[<<t, date>>]
             PROVE  StickyCheck(<<t, date>>)
  BY DEF FullCycleValidates
<1> DEFINE k == <<t, date>>
<1>1. /\ k \in Keys /\ options[k] \subseteq Nat \X Symbols
      /\ cycle \in Nat /\ MorningCycles \in Nat /\ TailCycles \in Nat
      /\ disk[k].contracts \in [Symbols -> Nat]
  <2>1. k \in Keys
    BY CollectionAssumption DEF TypeOK, CycleTypeOK
  <2>2. options[k] \subseteq Nat \X Symbols /\ disk[k] \in Files
    BY <2>1 DEF TypeOK, TrackerTypeOK
  <2>3. disk[k].contracts \in [Symbols -> Nat]
    BY <2>2 DEF Files, Universes
  <2> QED BY <2>1, <2>2, <2>3, DatasetAssumption DEF TypeOK, CycleTypeOK
<1>2. Persisted(k) = RowsOf(k, cycle)
  BY DEF FullCycleInv
<1>3. \A c \in OptionCycles(k) : c \in Nat /\ c <= cycle
  BY <1>1 DEF ReportInv, OptionCycles
<1>4. cycle \in OptionCycles(k)
  BY DEF RowsOf, OptionCycles
<1>5. FirstCycle(k) \in OptionCycles(k)
  <2>1. \E first \in OptionCycles(k) : \A c \in OptionCycles(k) : first <= c
    BY <1>3, <1>4, LeastExists
  <2> QED BY <2>1 DEF FirstCycle, Least
<1>6. Morning(k) # {}
  <2>1. PICK row \in options[k] : row[1] = FirstCycle(k)
    BY <1>5 DEF OptionCycles
  <2>2. /\ row[2] \in Persisted(k) /\ row[2] \in Symbols
        /\ disk[k].contracts[row[2]] <= FirstCycle(k)
    BY <1>1, <2>1 DEF RowsAreOfKnownContracts
  <2>3. disk[k].contracts[row[2]] <= FirstCycle(k) + MorningCycles
    BY <1>1, <1>3, <1>5, <2>2
  <2> QED BY <2>2, <2>3 DEF Morning
<1>7. Sample(k) # {}
  BY <1>6, SampleOfMorning
<1>8. Sample(k) \subseteq Persisted(k)
  BY DEF Sample, Morning
<1>9. \A last \in OptionCycles(k) : last - cycle <= TailCycles
  BY <1>1, <1>3
<1> QED BY <1>1, <1>2, <1>4, <1>7, <1>8, <1>9 DEF StickyCheck, NothingTorn

\* On a working disk a cycle with rows for everything it asked for passes the sticky check,
\* whatever failed before and whenever the process was restarted: all that the metadata
\* names is asked for, and the first cycle with rows has a contract to be sampled.
THEOREM FullCyclesValidate == ASSUME StorageReliable PROVE Spec => []FullCycleValidates
<1>1. Init => FullCycleInv
  <2>1. ASSUME Init, NEW t \in TickerSet PROVE RowsOf(<<t, date>>, cycle) = {}
    BY <2>1, CollectionAssumption DEF Init, RowsOf
  <2> QED BY <2>1 DEF FullCycleInv
<1>2. TypeOK /\ StorageInv /\ ReportInv /\ FullCycleInv /\ [Next]_vars => FullCycleInv'
  BY FullCycleStep
<1>3. TypeOK /\ ReportInv /\ RowsAreOfKnownContracts /\ FullCycleInv /\ NothingTorn
        => FullCycleValidates
  BY FullCyclePasses
<1> QED BY <1>1, <1>2, <1>3, TypeCorrect, StorageHolds, ReportHolds, RowsHaveMetadata,
        NothingTornHolds, PTL DEF Spec
----------------------------------------------------------------------------
(***************************************************************************)
(* The collector around the cycles.                                        *)
(***************************************************************************)
LEMMA CollectorInits == CollectorInit => Init
BY DEF CollectorInit

\* Every step of the collector is a step of the cycles inside it, or leaves them alone.
LEMMA StepsOfCycles == [CollectorNext]_collectorVars => [Next]_vars
BY DEF CollectorNext, collectorVars, Begin, Collect, Record, RecordFails, CloseDay, NextDay,
       Stop, Kill, Ends, AtBound, Next

\* The collector with its health tracker implements the cycles as Collection has them: the
\* theorems about Collection hold of it.
THEOREM CollectorImplementsCollection == CollectorSpec => Spec
BY CollectorInits, StepsOfCycles, PTL DEF CollectorSpec, Spec

\* What the run of the collector checks of its cycles holds for every set of tickers and
\* every fault: the underlying row is stored first, unless a power failure destroys its
\* file, every ticker has its result, and no list of expirations is forgotten.
THEOREM CollectorIsolatesTickers ==
    CollectorSpec => []UnderlyingFirst /\ EveryTickerReports /\ ListedStays
BY CollectorImplementsCollection, UnderlyingComesFirst, TickersAlwaysReport, ListsStay

LEMMA CyclesHold == CollectorSpec => [](TypeOK /\ UnderlyingInv /\ TurnsInv)
<1>1. Init => UnderlyingInv /\ TurnsInv
  BY UnderlyingInit DEF Init, TurnsInv
<1>2. TypeOK /\ UnderlyingInv /\ TurnsInv /\ [Next]_vars => (UnderlyingInv /\ TurnsInv)'
  BY UnderlyingStep, TurnsStep
<1> QED BY <1>1, <1>2, CollectorImplementsCollection, TypeCorrect, PTL DEF Spec

LEMMA CollectorInitType == CollectorInit => CollectorTypeOK
<1> SUFFICES ASSUME CollectorInit PROVE CollectorTypeOK
  OBVIOUS
<1>1. TypeOK
  BY InitType DEF CollectorInit
<1>2. pc = "idle" /\ unrecorded = FALSE
  BY DEF CollectorInit, Init
<1> QED BY <1>1, <1>2 DEF CollectorInit, CollectorTypeOK, Unobserved, Between

LEMMA WrittenType ==
    ASSUME CollectorTypeOK
    PROVE  /\ Written \in [Dates -> [TickerSet -> SUBSET Nat]]
           /\ \A d \in Dates : [health EXCEPT ![d] = Unobserved] \in [Dates -> [TickerSet -> SUBSET Nat]]
           /\ Unobserved \in [TickerSet -> SUBSET Nat]
BY DEF CollectorTypeOK, Written, Unobserved

LEMMA RecordedType ==
    ASSUME CollectorTypeOK, unrecorded
    PROVE  /\ Recorded \in [TickerSet -> SUBSET Nat]
           /\ healthDate = date /\ date \in Dates
           /\ NoteLosses => lossy' \in [Keys -> SUBSET Nat]
BY DEF CollectorTypeOK, Recorded, Between, NoteLosses, TypeOK, CycleTypeOK

LEMMA EndsType ==
    ASSUME CollectorTypeOK, TypeOK', Ends,
           health' \in [Dates -> [TickerSet -> SUBSET Nat]], lossy' \in [Keys -> SUBSET Nat]
    PROVE  CollectorTypeOK'
BY WrittenType DEF Ends, Restart, CollectorTypeOK, Between

LEMMA CollectorStepType ==
    ASSUME CollectorTypeOK, TypeOK', [CollectorNext]_collectorVars
    PROVE  CollectorTypeOK'
<1> USE DEF CollectorTypeOK, Between
<1>0. date \in Dates
  BY DEF TypeOK, CycleTypeOK
<1>1. CASE Begin
  <2>1. /\ healthDate' = date /\ date' = date /\ tracker' \in [TickerSet -> SUBSET Nat]
        /\ unwritten' \in Nat /\ health' \in [Dates -> [TickerSet -> SUBSET Nat]]
    <3>1. CASE TrackerOfDay
      BY <1>1, <3>1 DEF Begin, BeginCycle, Ensure, TrackerOfDay, healthVars
    <3>2. CASE ~TrackerOfDay
      <4>1. /\ healthDate' = date /\ date' = date /\ tracker' = health[date] /\ unwritten' = 0
            /\ health' = [Written EXCEPT ![date] = tracker']
        BY <1>1, <3>2 DEF Begin, BeginCycle, Ensure
      <4> QED BY <4>1, <1>0, WrittenType
    <3> QED BY <3>1, <3>2
  <2>2. unrecorded' = unrecorded /\ ~unrecorded /\ lossy' = lossy
    BY <1>1 DEF Begin
  <2> QED BY <2>1, <2>2, <1>0
<1>2. CASE Collect
  <2>1. pc # "idle" /\ date' = date
    BY <1>2, TickerSteps DEF Collect, TickerStep
  <2> QED BY <1>2, <2>1 DEF Collect, healthVars
<1>3. CASE Record
  <2>1. /\ unrecorded /\ unrecorded' = FALSE /\ tracker' = Recorded /\ NoteLosses
        /\ pc' = pc /\ date' = date /\ healthDate' = healthDate
    BY <1>3 DEF Record, vars, cycleVars
  <2>2. unwritten' \in Nat /\ health' \in [Dates -> [TickerSet -> SUBSET Nat]]
    BY <1>3, <2>1, RecordedType DEF Record
  <2> QED BY <2>1, <2>2, RecordedType
<1>4. CASE RecordFails
  BY <1>4, RecordedType, EndsType DEF RecordFails
<1>5. CASE CloseDay
  BY <1>5, WrittenType DEF CloseDay, vars, cycleVars
<1>6. CASE NextDay
  BY <1>6 DEF NextDay, NextDate, healthVars
<1>7. CASE Stop \/ Kill
  BY <1>7, WrittenType, EndsType DEF Stop, Kill
<1>8. CASE AtBound \/ UNCHANGED collectorVars
  BY <1>8 DEF AtBound, Bounded, collectorVars, healthVars, vars, cycleVars
<1> QED BY <1>1, <1>2, <1>3, <1>4, <1>5, <1>6, <1>7, <1>8 DEF CollectorNext

\* Every variable of the collector keeps its type, and a cycle in flight or waiting to be
\* recorded always has the tracker of its own date.
THEOREM CollectorTypeCorrect == CollectorSpec => []CollectorTypeOK
BY CollectorInitType, CollectorStepType, CyclesHold, PTL DEF CollectorSpec
----------------------------------------------------------------------------
(***************************************************************************)
(* What the health of a day counts is stored.                              *)
(***************************************************************************)
\* The results of the cycle in flight, or waiting to be recorded, that will be counted.
PendingInv ==
    /\ ~Between => \A t \in TickerSet :
         CountsAsObserved(t) /\ results[t].status # "none" =>
             /\ cycle \in underlying[<<t, date>>]
             /\ results[t].failed > 0 => cycle \in OptionCycles(<<t, date>>)
    /\ unrecorded => \A t \in TickerSet : results[t].status # "none"

\* A cycle is not counted, nor noted for its losses, before it is recorded.
RecordedOnce ==
    \A t \in TickerSet, d \in Dates : \A c \in CountedFor(t, d) \union lossy[<<t, d>>] :
        c \in Nat /\ c <= cycle /\ (~Between => c < cycle)

\* The inductive strengthening of CountedIsStored.
StoredInv == PendingInv /\ RecordedOnce /\ CountedIsStored

LEMMA StoredInit == CollectorInit => StoredInv
<1> SUFFICES ASSUME CollectorInit PROVE StoredInv
  OBVIOUS
<1>1. /\ Between /\ ~unrecorded
      /\ \A t \in TickerSet, d \in Dates : CountedFor(t, d) = {} /\ lossy[<<t, d>>] = {}
  BY CollectionAssumption DEF CollectorInit, Init, Between, CountedFor, Unobserved
<1> QED BY <1>1 DEF StoredInv, PendingInv, RecordedOnce, CountedIsStored

\* The process is alive after a step of a ticker, and a ticker without its underlying row
\* has no result but an error.
LEMMA TickerFacts ==
    ASSUME TypeOK, CollectTicker
    PROVE  /\ crashes' = crashes
           /\ pc = "quote" => results' = results \/ results'[ticker].status = "error"
<1>1. CASE Underlying
  <2>1. CASE QuoteFails
    <3>1. results' = [results EXCEPT ![ticker] = Result("error")]
      BY <2>1 DEF QuoteFails, Raise, Return
    <3>2. Result("error").status = "error"
      BY DEF Result, NoResult
    <3>3. ticker \in TickerSet
      BY KeyOfCycle DEF TypeOK, CycleTypeOK
    <3> QED BY <2>1, <3>1, <3>2, <3>3 DEF QuoteFails, TypeOK, CycleTypeOK, trackerVars
  <2> QED BY <1>1, <2>1 DEF Underlying, Quote, GoOn, trackerVars
<1>2. CASE Expiration
  BY <1>2 DEF Expiration, ExpirationCached, ExpirationMissed, ExpirationFails,
     ExpirationLoaded, ExpirationRefreshed, trackerVars
<1>3. CASE Discovery
  BY <1>3 DEF Discovery, UseTracker, Load, LoadFound, LoadCorrupt, SkipDiscovery, ChainFails,
     CollectSymbols, Expose, Discover, SaveFails, Discovering, AddNothing, AddSaved,
     AddUnsaved, trackerVars
<1>4. CASE Quotes
  BY <1>4 DEF Quotes, QuoteBatches, AppendFails, trackerVars
<1> QED BY <1>1, <1>2, <1>3, <1>4 DEF CollectTicker

LEMMA RestartCounts == TypeOK /\ Restart => crashes' # crashes
BY DEF Restart, Crash, TypeOK, TrackerTypeOK

\* A step that counts nothing new keeps what is counted.
LEMMA CountedKept ==
    ASSUME CollectorTypeOK, StoredInv, [Next]_vars, UNCHANGED <<lossy, cycle>>,
           ~Between' => ~Between,
           \A t \in TickerSet, d \in Dates : CountedFor(t, d)' \subseteq CountedFor(t, d)
    PROVE  RecordedOnce' /\ CountedIsStored'
<1>1. \A t \in TickerSet, d \in Dates : <<t, d>> \in Keys
  BY CollectionAssumption
<1>2. RecordedOnce'
  BY DEF StoredInv, RecordedOnce
<1>3. CountedIsStored'
  <2> SUFFICES ASSUME NEW t \in TickerSet, NEW d \in Dates, NEW c \in CountedFor(t, d)'
               PROVE  /\ UnderlyingStored(<<t, d>>, c)'
                      /\ c \in lossy'[<<t, d>>] => OptionsStored(<<t, d>>, c)'
    BY DEF CountedIsStored, UnderlyingStored, OptionsStored
  <2>1. /\ c \in Nat /\ c <= cycle
        /\ UnderlyingStored(<<t, d>>, c)
        /\ c \in lossy[<<t, d>>] => OptionsStored(<<t, d>>, c)
    BY DEF StoredInv, RecordedOnce, CountedIsStored
  <2>2. /\ UnderlyingStored(<<t, d>>, c)'
        /\ OptionsStored(<<t, d>>, c) => OptionsStored(<<t, d>>, c)'
    BY <1>1, <2>1, StoredKept DEF CollectorTypeOK
  <2> QED BY <2>1, <2>2
<1> QED BY <1>2, <1>3

\* Between two cycles nothing is pending.
LEMMA NothingPending ==
    ASSUME Between' PROVE PendingInv'
BY DEF PendingInv, Between

LEMMA BeginStored ==
    ASSUME CollectorTypeOK, StoredInv, [Next]_vars, Begin
    PROVE  StoredInv'
<1>1. /\ cycle \in Nat /\ date \in Dates /\ cycle' = cycle + 1 /\ date' = date
      /\ UNCHANGED <<lossy, dataVars>> /\ Between /\ ~unrecorded'
      /\ \A t \in TickerSet : results'[t].status = "none"
  BY DEF Begin, BeginCycle, NoResult, Between, CollectorTypeOK, TypeOK, CycleTypeOK
<1>2. ASSUME NEW t \in TickerSet, NEW d \in Dates
      PROVE  CountedFor(t, d)' \subseteq CountedFor(t, d)
  <2>1. CASE TrackerOfDay
    BY <2>1 DEF Begin, Ensure, healthVars, CountedFor
  <2>2. CASE ~TrackerOfDay
    <3>1. /\ healthDate' = date /\ tracker' = health[date]
          /\ health' = [Written EXCEPT ![date] = health[date]]
      BY <2>2 DEF Begin, Ensure
    <3>2. CASE d = date
      BY <1>1, <3>1, <3>2, WrittenType DEF CountedFor
    <3>3. CASE d # date
      BY <1>1, <3>1, <3>3, WrittenType DEF CountedFor, Written, CollectorTypeOK
    <3> QED BY <3>2, <3>3
  <2> QED BY <2>1, <2>2
<1>3. PendingInv'
  BY <1>1 DEF PendingInv
<1>4. RecordedOnce'
  <2> SUFFICES ASSUME NEW t \in TickerSet, NEW d \in Dates,
                      NEW c \in (CountedFor(t, d) \union lossy[<<t, d>>])'
               PROVE  c \in Nat /\ c < cycle'
    BY <1>1 DEF RecordedOnce, CollectorTypeOK, TypeOK, CycleTypeOK
  <2>1. c \in CountedFor(t, d) \union lossy[<<t, d>>]
    BY <1>1, <1>2
  <2>2. c \in Nat /\ c <= cycle
    BY <2>1 DEF StoredInv, RecordedOnce
  <2> QED BY <1>1, <2>2
<1>5. CountedIsStored'
  BY <1>1, <1>2
     DEF StoredInv, CountedIsStored, UnderlyingStored, OptionsStored, dataVars
<1> QED BY <1>3, <1>4, <1>5 DEF StoredInv

LEMMA CollectStored ==
    ASSUME CollectorTypeOK, UnderlyingInv, TurnsInv, StoredInv, [Next]_vars, Collect
    PROVE  StoredInv'
<1>1. /\ pc # "idle" /\ cycle' = cycle /\ date' = date /\ crashes' = crashes
      /\ date \in Dates /\ ticker \in TickerSet /\ key = <<ticker, date>> /\ key \in Keys
      /\ \A t \in TickerSet : <<t, date>> \in Keys
      /\ results \in [TickerSet -> TickerResults] /\ TypeOK /\ pc \in CollectorSteps
      /\ options \in [Keys -> SUBSET (Nat \X Symbols)] /\ ~Between /\ ~Restart
  BY TickerSteps, TickerFacts, RestartCounts, KeyOfCycle, CollectionAssumption
     DEF Collect, TickerStep, CollectorTypeOK, TypeOK, CycleTypeOK, key, Between
<1>2. TickerStep
  BY <1>1, TickerSteps DEF Collect
<1>3. RecordedOnce' /\ CountedIsStored'
  <2>1. UNCHANGED <<lossy, cycle>>
        /\ \A t \in TickerSet, d \in Dates : CountedFor(t, d)' = CountedFor(t, d)
    BY <1>1 DEF Collect, healthVars, CountedFor
  <2> QED BY <1>1, <2>1, CountedKept
<1>4. ASSUME unrecorded', NEW t \in TickerSet PROVE results'[t].status # "none"
  BY <1>1, <1>4, TurnsStep DEF Collect
<1>5. ASSUME NEW t \in TickerSet, CountsAsObserved(t)', results'[t].status # "none"
      PROVE  /\ cycle' \in underlying'[<<t, date'>>]
             /\ results'[t].failed > 0 => cycle' \in OptionCycles(<<t, date>>)'
  <2>1. CASE results'[t] = results[t]
    <3> DEFINE k == <<t, date>>
    <3>1. cycle \in underlying[k] /\ (results[t].failed > 0 => cycle \in OptionCycles(k))
      BY <1>1, <1>5, <2>1 DEF StoredInv, PendingInv, CountsAsObserved
    <3>2. underlying[k] \subseteq underlying'[k] /\ options[k] \subseteq options'[k]
      BY <1>1, DataGrows
    <3>3. OptionCycles(k) \subseteq OptionCycles(<<t, date>>)'
      BY <1>1, <3>2 DEF OptionCycles
    <3> QED BY <1>1, <2>1, <3>1, <3>2, <3>3
  <2>2. CASE results'[t] # results[t]
    <3>1. PICK result, rows : Reports(result, rows)
      BY <1>2, <2>2 DEF TickerStep
    <3>2. results' = [results EXCEPT ![ticker] = result]
      BY <3>1 DEF Reports, Return
    <3>3. t = ticker /\ results'[t] = result
      BY <1>1, <2>2, <3>2
    <3>4. pc # "quote"
      BY <1>1, <1>5, <2>2, <3>3, TickerFacts DEF Collect, CountsAsObserved
    <3>5. cycle \in underlying[key]
      BY <1>1, <3>4 DEF UnderlyingInv, AfterQuote
    <3>6. cycle' \in underlying'[<<t, date'>>]
      BY <1>1, <3>3, <3>5, DataGrows
    <3>7. ASSUME results'[t].failed > 0 PROVE cycle' \in OptionCycles(<<t, date>>)'
      <4>1. rows # {}
        BY <1>5, <3>1, <3>3, <3>7 DEF Reports, CountsAsObserved
      <4>2. PICK r \in rows : TRUE
        BY <4>1
      <4>3. <<cycle, r>> \in options'[key]
        BY <1>1, <3>1, <4>2 DEF Reports
      <4>4. <<cycle, r>>[1] = cycle' /\ <<t, date'>> = key
        BY <1>1, <3>3
      <4> QED BY <4>3, <4>4 DEF OptionCycles
    <3> QED BY <3>6, <3>7
  <2> QED BY <2>1, <2>2
<1>6. PendingInv'
  <2>1. unrecorded' => \A t \in TickerSet : results'[t].status # "none"
    BY <1>4
  <2>2. \A t \in TickerSet :
          CountsAsObserved(t)' /\ results'[t].status # "none" =>
              /\ cycle' \in underlying'[<<t, date'>>]
              /\ results'[t].failed > 0 => cycle' \in OptionCycles(<<t, date>>)'
    BY <1>5
  <2> QED BY <2>1, <2>2 DEF PendingInv
<1> QED BY <1>3, <1>6 DEF StoredInv

\* The cycle of the tracker is counted, and its losses noted, by one step.
LEMMA RecordStored ==
    ASSUME CollectorTypeOK, StoredInv, unrecorded, NoteLosses, Between',
           [Next]_vars, UNCHANGED cycle,
           \A t \in TickerSet, d \in Dates :
             CountedFor(t, d)' \subseteq
                 IF d = date THEN CountedFor(t, d) \union Recorded[t] ELSE CountedFor(t, d)
    PROVE  StoredInv'
<1>1. /\ ~Between /\ healthDate = date /\ date \in Dates /\ cycle \in Nat
      /\ results \in [TickerSet -> TickerResults] /\ tracker \in [TickerSet -> SUBSET Nat]
      /\ \A t \in TickerSet, d \in Dates : <<t, d>> \in Keys
      /\ lossy \in [Keys -> SUBSET Nat] /\ TypeOK
  BY RecordedType, CollectionAssumption DEF CollectorTypeOK, Between, TypeOK, CycleTypeOK
<1> DEFINE Counts(t, d) == d = date /\ CountsAsObserved(t)
           Lost(t, d)   == d = date /\ results[t].failed > 0
<1>2. ASSUME NEW t \in TickerSet, NEW d \in Dates
      PROVE  /\ CountedFor(t, d)' \subseteq
                  CountedFor(t, d) \union (IF Counts(t, d) THEN {cycle} ELSE {})
             /\ lossy'[<<t, d>>] = lossy[<<t, d>>] \union (IF Lost(t, d) THEN {cycle} ELSE {})
  <2>1. lossy'[<<t, d>>] = lossy[<<t, d>>] \union (IF Lost(t, d) THEN {cycle} ELSE {})
    BY <1>1 DEF NoteLosses
  <2>2. Recorded[t] = IF CountsAsObserved(t) THEN tracker[t] \union {cycle} ELSE tracker[t]
    BY DEF Recorded
  <2>3. tracker[t] \subseteq CountedFor(t, date)
    BY <1>1 DEF CountedFor
  <2> QED BY <2>1, <2>2, <2>3
<1>3. RecordedOnce'
  <2> SUFFICES ASSUME NEW t \in TickerSet, NEW d \in Dates,
                      NEW c \in (CountedFor(t, d) \union lossy[<<t, d>>])'
               PROVE  c \in Nat /\ c <= cycle
    BY DEF RecordedOnce
  <2>1. c = cycle \/ c \in CountedFor(t, d) \union lossy[<<t, d>>]
    BY <1>2
  <2> QED BY <1>1, <2>1 DEF StoredInv, RecordedOnce
<1>4. CountedIsStored'
  <2> SUFFICES ASSUME NEW t \in TickerSet, NEW d \in Dates, NEW c \in CountedFor(t, d)'
               PROVE  /\ UnderlyingStored(<<t, d>>, c)'
                      /\ c \in lossy'[<<t, d>>] => OptionsStored(<<t, d>>, c)'
    BY DEF CountedIsStored, UnderlyingStored, OptionsStored
  <2>0. /\ c \in Nat /\ c <= cycle
        /\ UnderlyingStored(<<t, d>>, c) => UnderlyingStored(<<t, d>>, c)'
        /\ OptionsStored(<<t, d>>, c) => OptionsStored(<<t, d>>, c)'
    <3>1. c \in Nat /\ c <= cycle
      BY <1>3 DEF RecordedOnce
    <3> QED BY <1>1, <3>1, StoredKept
  <2>1. cycle \notin CountedFor(t, d) \union lossy[<<t, d>>]
    BY <1>1 DEF StoredInv, RecordedOnce
  <2>2. CASE c \in CountedFor(t, d)
    <3>1. c \in lossy'[<<t, d>>] => c \in lossy[<<t, d>>]
      BY <1>2, <2>1, <2>2
    <3> QED BY <2>0, <2>2, <3>1 DEF StoredInv, CountedIsStored
  <2>3. CASE c \notin CountedFor(t, d)
    <3>1. c = cycle /\ Counts(t, d)
      BY <1>2, <2>3
    <3>2. /\ cycle \in underlying[<<t, date>>]
          /\ results[t].failed > 0 => cycle \in OptionCycles(<<t, date>>)
      BY <1>1, <3>1 DEF StoredInv, PendingInv
    <3>3. c \in lossy'[<<t, d>>] => results[t].failed > 0
      BY <1>2, <2>1, <3>1
    <3>4. UnderlyingStored(<<t, d>>, c) /\ (c \in lossy'[<<t, d>>] => OptionsStored(<<t, d>>, c))
      BY <3>1, <3>2, <3>3 DEF UnderlyingStored, OptionsStored, OptionCycles
    <3> QED BY <2>0, <3>4
  <2> QED BY <2>2, <2>3
<1> QED BY <1>3, <1>4, NothingPending DEF StoredInv

LEMMA CollectorStored ==
    ASSUME CollectorTypeOK, UnderlyingInv, TurnsInv, StoredInv, [CollectorNext]_collectorVars
    PROVE  StoredInv'
<1>0. /\ [Next]_vars /\ None \notin Dates
      /\ healthDate \in Dates \union {None} /\ health \in [Dates -> [TickerSet -> SUBSET Nat]]
  BY StepsOfCycles, CollectorAssumption DEF CollectorTypeOK
<1>1. CASE Begin
  BY <1>0, <1>1, BeginStored
<1>2. CASE Collect
  BY <1>0, <1>2, CollectStored
<1>3. CASE Record
  <2>1. /\ unrecorded /\ NoteLosses /\ Between' /\ UNCHANGED cycle
        /\ healthDate' = healthDate /\ tracker' = Recorded /\ healthDate = date
        /\ health' = health \/ health' = [health EXCEPT ![date] = Recorded]
    BY <1>3, RecordedType
       DEF Record, vars, cycleVars, Between, CollectorTypeOK
  <2>2. \A t \in TickerSet, d \in Dates :
          CountedFor(t, d)' \subseteq
              IF d = date THEN CountedFor(t, d) \union Recorded[t] ELSE CountedFor(t, d)
    BY <1>0, <2>1 DEF CountedFor
  <2> QED BY <1>0, <2>1, <2>2, RecordStored
<1>4. CASE RecordFails
  <2>1. /\ unrecorded /\ NoteLosses /\ Between' /\ UNCHANGED cycle
        /\ healthDate' = None /\ healthDate = date
        /\ health' = health \/ health' = [health EXCEPT ![date] = Recorded]
    BY <1>4, RecordedType DEF RecordFails, Ends, Restart, Between
  <2>2. \A t \in TickerSet, d \in Dates :
          CountedFor(t, d)' \subseteq
              IF d = date THEN CountedFor(t, d) \union Recorded[t] ELSE CountedFor(t, d)
    BY <1>0, <2>1 DEF CountedFor
  <2> QED BY <1>0, <2>1, <2>2, RecordStored
<1>5. CASE CloseDay \/ Stop \/ Kill
  <2>1. /\ Between' /\ UNCHANGED <<lossy, cycle>> /\ healthDate' = None
        /\ \/ health' = Written \/ health' = health
           \/ \E d \in Dates : health' = [health EXCEPT ![d] = Unobserved]
    BY <1>5 DEF CloseDay, Stop, Kill, Ends, Restart, Between, vars, cycleVars
  <2>2. \A t \in TickerSet, d \in Dates : health'[d][t] \subseteq CountedFor(t, d)
    BY <1>0, <2>1 DEF Written, CountedFor, Unobserved
  <2>3. \A t \in TickerSet, d \in Dates : CountedFor(t, d)' \subseteq CountedFor(t, d)
    BY <1>0, <2>1, <2>2 DEF CountedFor
  <2> QED BY <1>0, <2>1, <2>3, CountedKept, NothingPending DEF StoredInv
<1>6. CASE NextDay
  <2>1. /\ Between' /\ UNCHANGED <<lossy, cycle, healthDate, tracker, health>>
    BY <1>6 DEF NextDay, NextDate, healthVars, Between
  <2>2. \A t \in TickerSet, d \in Dates : CountedFor(t, d)' \subseteq CountedFor(t, d)
    BY <2>1 DEF CountedFor
  <2> QED BY <1>0, <2>1, <2>2, CountedKept, NothingPending DEF StoredInv
<1>7. CASE AtBound \/ UNCHANGED collectorVars
  BY <1>7 DEF AtBound, Bounded, collectorVars, healthVars, vars, cycleVars, dataVars, StoredInv,
     PendingInv, RecordedOnce, CountedIsStored, CountedFor, Between, OptionCycles,
     CountsAsObserved, UnderlyingStored, OptionsStored
<1> QED BY <1>1, <1>2, <1>3, <1>4, <1>5, <1>6, <1>7 DEF CollectorNext

\* The health of a day counts no cycle whose underlying row was not stored, and none that
\* lost quote batches without a stored option row: for every number of tickers, dates and
\* cycles, whenever the process dies and whichever write fails.  A power failure may destroy
\* any of the three files; once a Parquet file is destroyed no cycle that follows is counted.
THEOREM CountedCyclesAreStored == CollectorSpec => []CountedIsStored
<1>1. CollectorTypeOK /\ UnderlyingInv /\ TurnsInv /\ StoredInv
        /\ [CollectorNext]_collectorVars => StoredInv'
  BY CollectorStored
<1>2. StoredInv => CountedIsStored
  BY DEF StoredInv
<1> QED BY <1>1, <1>2, StoredInit, CyclesHold, CollectorTypeCorrect, PTL DEF CollectorSpec
=============================================================================
