--------------------------- MODULE StrikeSelector ---------------------------
(***************************************************************************)
(* The strike window of tradier_collector/strike_selector.py: the ATM      *)
(* strike with the strikes on each side of it, as positions in the sorted  *)
(* list of the chain's strikes.  Prices are integers of a fine unit.       *)
(***************************************************************************)
EXTENDS Integers, FiniteSets

\* strikes.index(s) in the sorted list of distinct strikes.
Position(strikes, s) == Cardinality({r \in strikes : r < s})

TruncatedLow(strikes, atm, each) == Position(strikes, atm) - each < 0

TruncatedHigh(strikes, atm, each) ==
    Position(strikes, atm) + each > Cardinality(strikes) - 1

\* Mutated form: a negative start of the slice counts from the end of the list.
SliceUnclamped(strikes, atm, each) ==
    {s \in strikes : Position(strikes, s) \in (Position(strikes, atm) - each) % Cardinality(strikes)
                                           .. Position(strikes, atm) + each}

\* The slice of the sorted strikes from low_index to high_index.
Slice(strikes, atm, each) ==
    {s \in strikes : Position(strikes, s) \in Position(strikes, atm) - each
                                           .. Position(strikes, atm) + each}
=============================================================================
