------------------------------- MODULE Dataset -------------------------------
(***************************************************************************)
(* What the offline checks say of the files a Collection leaves: the       *)
(* classification of qa_report.py and the sticky check of                  *)
(* validate_dataset.py, at every moment of the day.  Prices and duplicate  *)
(* rows, which the storage removes, are left out.                          *)
(***************************************************************************)
EXTENDS Collection

CONSTANTS
    Expected,       \* date -> the cycles at expected poll timestamps
    WarningPct,     \* warning_coverage_pct
    HealthyPct,     \* healthy_coverage_pct
    MorningCycles,  \* MORNING_WINDOW_MINUTES, in cycles
    TailCycles,     \* the 5 minutes a sticky contract may be silent, in cycles
    SampleContracts \* SAMPLE_CONTRACTS

ASSUME DatasetAssumption ==
    /\ \A d \in Dates : Expected[d] \subseteq Nat /\ IsFiniteSet(Expected[d]) /\ Expected[d] # {}
    /\ {WarningPct, HealthyPct} \subseteq 0 .. 100
    /\ {MorningCycles, TailCycles} \subseteq Nat /\ SampleContracts \in Nat \ {0}

\* The cycles with option rows, and the contracts with a row in a cycle.
OptionCycles(k) == {row[1] : row \in options[k]}
RowsOf(k, c)    == {row[2] : row \in {r \in options[k] : r[1] = c}}

Observed(k, cycles) == cycles \intersect Expected[k[2]]

\* The coverage of the expected cycles is below a threshold.
CoverageBelow(k, cycles, pct) ==
    100 * Cardinality(Observed(k, cycles)) < pct * Cardinality(Expected[k[2]])

\* The cycles with at most v option rows, and the row counts that occur.
AtMost(k, v) == {c \in OptionCycles(k) : Cardinality(RowsOf(k, c)) <= v}
RowCounts(k) == {Cardinality(RowsOf(k, c)) : c \in OptionCycles(k)}

Least(S) == CHOOSE v \in S : \A w \in S : v <= w

\* The two middle values of the rows per cycle, whose mean is the median.
LowerMedian(k) ==
    Least({v \in RowCounts(k) : 2 * Cardinality(AtMost(k, v)) >= Cardinality(OptionCycles(k))})
UpperMedian(k) ==
    Least({v \in RowCounts(k) : 2 * Cardinality(AtMost(k, v)) > Cardinality(OptionCycles(k))})

\* Some cycle has fewer rows than half the median.
ThinCycle(k) ==
    \E c \in OptionCycles(k) :
        4 * Cardinality(RowsOf(k, c)) < LowerMedian(k) + UpperMedian(k)

\* Mutated form: cycles without options are not looked for.
SuspiciousRowsOnly(k) ==
    \/ OptionCycles(k) \ Expected[k[2]] # {}
    \/ ThinCycle(k)
    \/ Persisted(k) = {}
    \/ CoverageBelow(k, underlying[k], WarningPct)

\* A cycle with an underlying row but no options, one off the grid, a thin one; no
\* readable metadata; or too few underlying rows.
Suspicious(k) ==
    \/ underlying[k] \ OptionCycles(k) # {}
    \/ OptionCycles(k) \ Expected[k[2]] # {}
    \/ ThinCycle(k)
    \/ Persisted(k) = {}
    \/ CoverageBelow(k, underlying[k], WarningPct)

\* Both files can be read: otherwise the reports stop with an exception.
Readable(k) == underlyingTorn[k] = 0 /\ optionsTorn[k] = 0

\* analyze_day and _classify, for a ticker on a date.
Classification(k) ==
    IF ~Readable(k) THEN "none"
    ELSE IF Observed(k, OptionCycles(k) \union underlying[k]) = {} THEN "MISSING"
    ELSE IF CoverageBelow(k, OptionCycles(k), WarningPct) THEN "PARTIAL"
    ELSE IF Suspicious(k) THEN "SUSPICIOUS"
    ELSE IF CoverageBelow(k, OptionCycles(k), HealthyPct) THEN "PARTIAL"
    ELSE "COMPLETE"
----------------------------------------------------------------------------
FirstCycle(k) == Least(OptionCycles(k))

\* The contracts of the metadata that were discovered in the morning.
Morning(k) == {s \in Persisted(k) : disk[k].contracts[s] <= FirstCycle(k) + MorningCycles}

\* Every (len // SampleContracts)-th morning contract, SampleContracts of them.
Sample(k) ==
    LET place(s) == Cardinality({r \in Morning(k) : r < s})
        step     == IF Cardinality(Morning(k)) < SampleContracts THEN 1
                    ELSE Cardinality(Morning(k)) \div SampleContracts
    IN  {s \in Morning(k) : place(s) % step = 0 /\ place(s) \div step < SampleContracts}

\* validate: the sampled contracts report until shortly before the last cycle.
StickyCheck(k) ==
    /\ Readable(k)
    /\ Sample(k) # {}
    /\ \A s \in Sample(k) : \E c \in OptionCycles(k) :
         /\ s \in RowsOf(k, c)
         /\ \A last \in OptionCycles(k) : last - c <= TailCycles
----------------------------------------------------------------------------
(***************************************************************************)
(* Properties.                                                             *)
(***************************************************************************)
\* A cycle that stored its underlying row and has not ended well, by a failure of any step
\* or a death, is seen in the files: as long as no later cycle runs, its day is not called
\* COMPLETE.
FailureShows ==
    \A t \in TickerSet :
        cycle \in underlying[<<t, date>>] /\ results[t].status # "ok" =>
            Classification(<<t, date>>) # "COMPLETE"

\* As soon as a cycle has rows for all the contracts that were requested, the sticky check
\* passes, whatever failed before: the universe of the morning is still being quoted, and
\* the metadata names no contract that is not (I1 and I2, checked by validate_dataset.py).
FullCycleValidates ==
    \A t \in TickerSet :
        LET k == <<t, date>>
        IN  RowsOf(k, cycle) # {} /\ RowsOf(k, cycle) = exposed[k] => StickyCheck(k)
=============================================================================
