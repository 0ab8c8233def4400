---------------------------- MODULE MCCollection ----------------------------
(***************************************************************************)
(* Small instances for TLC: contracts are their strikes 1..n, and the ATM  *)
(* windows are those of the strike selector as the ATM strike moves.       *)
(***************************************************************************)
EXTENDS Collection, StrikeSelector

OneTicker  == <<"SPY">>
TwoTickers == <<"SPY", "QQQ">>

OneDate  == {1}
TwoDates == {1, 2}

OneStrike    == 1 .. 1
TwoStrikes   == 1 .. 2
ThreeStrikes == 1 .. 3

\* The windows with n strikes on each side.
WindowsOf(n) == {Slice(Symbols, atm, n) : atm \in Symbols}

SlidingWindows == WindowsOf(1)

GrowingWindows == {1 .. s : s \in Symbols}

SingleStrikes  == WindowsOf(0)

AllKeys == TickerSet \X Dates
=============================================================================
