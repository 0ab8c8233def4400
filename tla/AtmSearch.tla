------------------------------ MODULE AtmSearch ------------------------------
(***************************************************************************)
(* One discovery after another: the spot of the underlying quote           *)
(* (extract_spot of tradier_collector/normalization.py), the usable rows   *)
(* of the chain, the scan of find_atm_strike over the ascending strikes    *)
(* and the window around its answer (strike_selector.py, discovery.py).    *)
(***************************************************************************)
EXTENDS StrikeSelector

CONSTANTS
    Quotes,    \* underlying quotes: records of last, bid, ask and prevclose
    Chains,    \* option chains: sets of records of named, strike and side
    Missing,   \* a field to_float makes None of
    EachSide,  \* discovery_strikes_each_side
    Tolerance  \* by how much a higher strike must be nearer: the 1e-9 of the scan

Prices == UNION {{q.last, q.bid, q.ask, q.prevclose} : q \in Quotes}
Rows   == UNION Chains

ASSUME SearchAssumption ==
    /\ Missing \notin Int
    /\ Prices \subseteq Int \union {Missing}
    /\ \A q \in Quotes : q.bid \in Int /\ q.ask \in Int => (q.bid + q.ask) % 2 = 0
    /\ {row.strike : row \in Rows} \subseteq Int \union {Missing}
    /\ \A c \in Chains : IsFiniteSet({row.strike : row \in c})
    /\ EachSide \in Nat /\ Tolerance \in Nat

VARIABLES
    pc,      \* "idle", "chain", "first", "scan" or "done"
    spot,    \* what extract_spot made of the underlying quote
    chain,   \* the option chain of the cycle
    strikes, \* the distinct strikes of its usable rows
    rest,    \* the strikes find_atm_strike has still to look at
    best,    \* its best strike so far
    window   \* the StrikeWindow of the discovery

vars == <<pc, spot, chain, strikes, rest, best, window>>

EmptyWindow == [atm |-> Missing, strikes |-> {}, contracts |-> {},
                truncated_low |-> FALSE, truncated_high |-> FALSE]
----------------------------------------------------------------------------
Init ==
    /\ pc = "idle"
    /\ spot = Missing /\ chain = {} /\ strikes = {} /\ rest = {} /\ best = Missing
    /\ window = EmptyWindow

Positive(price) == price # Missing /\ price > 0

\* extract_spot: the last trade, else the midpoint, else the previous close.
ExtractSpot(q) ==
    IF Positive(q.last) THEN q.last
    ELSE IF Positive(q.bid) /\ Positive(q.ask) THEN (q.bid + q.ask) \div 2
    ELSE IF Positive(q.prevclose) THEN q.prevclose
    ELSE Missing

\* Without a spot there is no discovery.
TakeSpot(q) ==
    /\ pc = "idle"
    /\ spot' = ExtractSpot(q)
    /\ pc' = IF spot' = Missing THEN "idle" ELSE "chain"
    /\ UNCHANGED <<chain, strikes, rest, best, window>>

\* _valid_entries: rows with a symbol, a positive strike and a call or a put.
Usable(c) ==
    {row \in c : row.named /\ Positive(row.strike) /\ row.side \in {"call", "put"}}

StrikesOf(rows) == {row.strike : row \in rows}

\* The chain arrives; without a usable row the window is empty.
TakeChain(c) ==
    /\ pc = "chain"
    /\ chain' = c
    /\ strikes' = StrikesOf(Usable(c))
    /\ pc' = IF strikes' = {} THEN "done" ELSE "first"
    /\ UNCHANGED <<spot, rest, best, window>>

\* find_atm_strike starts with the lowest strike.
StartScan(lowest) ==
    /\ pc = "first"
    /\ lowest \in strikes /\ \A s \in strikes : lowest <= s
    /\ best' = lowest
    /\ rest' = strikes \ {lowest}
    /\ pc' = "scan"
    /\ UNCHANGED <<spot, chain, strikes, window>>

Distance(s) == IF s < spot THEN spot - s ELSE s - spot

\* Mutated form: the later strike wins a tie.
NearerOrEqual(s) == Distance(s) <= Distance(best) + Tolerance

\* Strictly nearer: an exact tie goes to the earlier, lower strike.
Nearer(s) == Distance(s) < Distance(best) - Tolerance

\* The next strike in ascending order.
Look(s) ==
    /\ pc = "scan"
    /\ s \in rest /\ \A r \in rest : s <= r
    /\ rest' = rest \ {s}
    /\ best' = IF Nearer(s) THEN s ELSE best
    /\ UNCHANGED <<pc, spot, chain, strikes, window>>

\* Mutated form: the rows are not those the strikes are made of.
ContractsOfAnyRow(selected) == {row \in chain : row.strike \in selected}

\* Both sides of the selected strikes, as far as the chain has them.
Contracts(selected) == {row \in Usable(chain) : row.strike \in selected}

\* select_atm_window, once the ATM strike is found.
SelectWindow ==
    /\ pc = "scan" /\ rest = {}
    /\ window' = [atm |-> best,
                  strikes |-> Slice(strikes, best, EachSide),
                  contracts |-> Contracts(Slice(strikes, best, EachSide)),
                  truncated_low |-> TruncatedLow(strikes, best, EachSide),
                  truncated_high |-> TruncatedHigh(strikes, best, EachSide)]
    /\ pc' = "done"
    /\ UNCHANGED <<spot, chain, strikes, rest, best>>

\* The window is handed over; nothing is kept for the next discovery.
Return ==
    /\ pc = "done" /\ pc' = "idle"
    /\ spot' = Missing /\ chain' = {} /\ strikes' = {} /\ rest' = {} /\ best' = Missing
    /\ window' = EmptyWindow

Next ==
    \/ \E q \in Quotes : TakeSpot(q)
    \/ \E c \in Chains : TakeChain(c)
    \/ \E lowest \in strikes : StartScan(lowest)
    \/ \E s \in rest : Look(s)
    \/ SelectWindow
    \/ Return

Spec == Init /\ [][Next]_vars
----------------------------------------------------------------------------
(***************************************************************************)
(* Properties.                                                             *)
(***************************************************************************)
\* A window of one strike at least has been chosen.
Chosen == pc = "done" /\ window.atm # Missing

\* The ATM strike is the nearest to the spot: every lower strike is farther away, and a
\* higher one is nearer by no more than the tolerance of the comparison, so that a spot
\* half-way between two strikes always takes the lower (strike_selector.py:8).
AtmIsNearest ==
    Chosen =>
        /\ window.atm \in strikes
        /\ \A s \in strikes :
             /\ s < window.atm => Distance(window.atm) < Distance(s)
             /\ s > window.atm => Distance(window.atm) <= Distance(s) + Tolerance

Below(set) == {s \in set : s < window.atm}
Above(set) == {s \in set : s > window.atm}

\* The window is the ATM strike with the EachSide strikes next to it on either side, or
\* all there are on that side, and then only it says that it is truncated: no strike in
\* between is left out (strike_selector.py:9).
WindowIsCentred ==
    Chosen =>
        /\ \A s \in strikes \ window.strikes, r \in window.strikes \union {window.atm} :
             IF s < window.atm THEN s < r ELSE r < s
        /\ Cardinality(Below(window.strikes)) =
             IF window.truncated_low THEN Cardinality(Below(strikes)) ELSE EachSide
        /\ Cardinality(Above(window.strikes)) =
             IF window.truncated_high THEN Cardinality(Above(strikes)) ELSE EachSide
        /\ window.truncated_low <=> Cardinality(Below(strikes)) < EachSide
        /\ window.truncated_high <=> Cardinality(Above(strikes)) < EachSide

\* What is tracked can be quoted: the window has a row exactly for its strikes, every row
\* has a symbol, and a malformed row of the same chain neither moves the ATM strike nor
\* gets into the universe.
WindowIsQuotable ==
    pc = "done" =>
        /\ StrikesOf(window.contracts) = window.strikes
        /\ window.contracts \subseteq Usable(chain)
        /\ window.contracts = {} <=> Usable(chain) = {}
=============================================================================
