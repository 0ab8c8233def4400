----------------------------- MODULE MCAtmSearch -----------------------------
(***************************************************************************)
(* Small chains for TLC.  Prices are in half ticks, so that a midpoint is  *)
(* an integer; the strikes are unevenly spaced, as near an adjustment.     *)
(***************************************************************************)
EXTENDS AtmSearch

Q(last, bid, ask, prevclose) ==
    [last |-> last, bid |-> bid, ask |-> ask, prevclose |-> prevclose]

\* Last trades beside, at and between the strikes, then a midpoint, a close, nothing.
MCQuotes ==
    {Q(p, 8, 12, 4) : p \in {2, 4, 6, 7, 8, 9, 10, 13, 14, 20, 30}}
        \union {Q(0, 8, 12, 4), Q(Missing, 6, 14, Missing), Q(Missing, 0, 12, 4),
                Q(Missing, Missing, 12, 0), Q(0, 0, 0, Missing)}

Row(strike, side) == [named |-> TRUE, strike |-> strike, side |-> side]

\* What a chain may have at a strike: nothing, both sides, one beside a malformed row, or
\* only a malformed one.
RowsAt(strike) ==
    {{}, {Row(strike, "call"), Row(strike, "put")}, {Row(strike, "call"), Row(strike, "other")},
     {[Row(strike, "put") EXCEPT !.named = FALSE]}}

Useless == {{}, {Row(Missing, "call"), Row(0, "put")}}

MCChains ==
    {a \union b \union c \union d \union e \union f :
       a \in RowsAt(4), b \in RowsAt(8), c \in RowsAt(12), d \in RowsAt(13),
       e \in {{}, {Row(22, "call")}}, f \in Useless}
=============================================================================
