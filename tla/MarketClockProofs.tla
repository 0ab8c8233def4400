-------------------------- MODULE MarketClockProofs --------------------------
(***************************************************************************)
(* Facts about the boundary arithmetic and the session windows of          *)
(* MarketClock.tla, for every calendar and every interval.                 *)
(***************************************************************************)
EXTENDS MarketClock, WellFoundedInduction, TLAPS

----------------------------------------------------------------------------
(***************************************************************************)
(* The least element of a set of naturals.                                 *)
(***************************************************************************)
Descending == {p \in Nat \X Nat : p[1] < p[2]}

LEMMA DescendingWellFounded == IsWellFoundedOn(Descending, Nat)
<1>1. OpToRel(<, Nat) = Descending
  BY Zenon DEF OpToRel, Descending
<1> QED BY <1>1, NatLessThanWellFounded, Zenon

LEMMA MinIsLeast ==
    ASSUME NEW S \in SUBSET Nat, S # {}
    PROVE  Min(S) \in S /\ \A x \in S : Min(S) <= x
<1>1. PICK least \in S : \A x \in S : <<x, least>> \notin Descending
  BY DescendingWellFounded, WFMin
<1>2. ASSUME NEW x \in S PROVE least <= x
  <2>1. x \in Nat /\ least \in Nat
    OBVIOUS
  <2>2. ~(x < least)
    BY <1>1, <2>1 DEF Descending
  <2> QED BY <2>1, <2>2
<1> QED BY <1>2 DEF Min
----------------------------------------------------------------------------
(***************************************************************************)
(* The grid of the multiples of the interval.                              *)
(***************************************************************************)
OnGrid(t) == \E k \in Nat : t = k * Interval

LEMMA DivMod ==
    ASSUME NEW m \in Nat
    PROVE  /\ m \div Interval \in Nat
           /\ (m \div Interval) * Interval <= m
           /\ m < (m \div Interval) * Interval + Interval
BY ClockBounds

LEMMA Product ==
    ASSUME NEW j \in Nat, NEW k \in Nat
    PROVE  /\ k * Interval \in Nat
           /\ (k + 1) * Interval = k * Interval + Interval
           /\ j <= k => j * Interval <= k * Interval
BY ClockBounds

\* Two grid points are a multiple of the interval apart.
LEMMA GridSteps ==
    ASSUME NEW j \in Nat, NEW k \in Nat, j * Interval <= k * Interval
    PROVE  /\ (j * Interval) % Interval = 0
           /\ (k * Interval - j * Interval) % Interval = 0
<1>1. \A n \in Nat : (n * Interval) % Interval = 0
  BY ClockBounds
<1>2. j <= k
  BY Product, ClockBounds
<1>3. k - j \in Nat /\ (k - j) * Interval = k * Interval - j * Interval
  BY <1>2, ClockBounds
<1> QED BY <1>1, <1>3

\* next_boundary is the first multiple of the interval strictly after the moment.
LEMMA NextBoundaryIsNext ==
    ASSUME NEW m \in Nat
    PROVE  /\ NextBoundary(m) \in Nat
           /\ OnGrid(NextBoundary(m))
           /\ m < NextBoundary(m)
           /\ \A t : OnGrid(t) /\ m < t => NextBoundary(m) <= t
<1> DEFINE q == m \div Interval
<1>1. q \in Nat /\ q + 1 \in Nat /\ q * Interval <= m /\ m < q * Interval + Interval
  BY DivMod
<1> HIDE DEF q
<1>2. (q + 1) * Interval = q * Interval + Interval /\ (q + 1) * Interval \in Nat
  BY <1>1, Product
<1>3. NextBoundary(m) = (q + 1) * Interval
  BY DEF NextBoundary, q
<1>4. ASSUME NEW k \in Nat, m < k * Interval PROVE (q + 1) * Interval <= k * Interval
  <2>1. ~(k <= q)
    BY <1>1, <1>4, Product, ClockBounds
  <2> QED BY <1>1, <2>1, Product
<1> QED BY <1>1, <1>2, <1>3, <1>4, ClockBounds DEF OnGrid
----------------------------------------------------------------------------
(***************************************************************************)
(* The windows.                                                            *)
(***************************************************************************)
LEMMA WindowTypes ==
    ASSUME NEW d \in Days, SessionWindow(d) # NoWindow
    PROVE  /\ d \in TradingDays
           /\ SessionWindow(d) = [start |-> SessionOpen[d], end |-> WindowEnd(d)]
           /\ SessionOpen[d] \in Time /\ WindowEnd(d) \in Time
           /\ DateOf[SessionOpen[d]] = d /\ DateOf[WindowEnd(d)] = d
<1>1. d \in TradingDays /\ HasWindow(d)
  BY DEF SessionWindow, HasWindow
<1> QED BY <1>1, CalendarTypes, SessionsWithinTheirDay, ClockBounds
        DEF SessionWindow, WindowEnd, IsEarlyClose, Days

\* The start that _wait_for_next_session sleeps for is a time, when there is one.
LEMMA NextSessionStartType ==
    ASSUME NEW m \in Time
    PROVE  NextSessionStart(m) \in Nat \union {None}
<1> DEFINE Candidates ==
        {d \in Days : /\ Today(m) <= d
                      /\ d < Today(m) + SearchDays
                      /\ HasWindow(d)
                      /\ m <= WindowEnd(d)}
<1>1. CASE Candidates = {}
  BY <1>1, Zenon DEF NextSessionStart
<1>2. CASE Candidates # {}
  <2>1. Candidates \in SUBSET Nat /\ Candidates \subseteq Days
    BY ClockBounds DEF Days
  <2>2. Min(Candidates) \in Days
    BY <1>2, <2>1, MinIsLeast
  <2>3. SessionOpen[Min(Candidates)] \in Nat
    BY <2>2, CalendarTypes, ClockBounds DEF Time
  <2>4. NextSessionStart(m) \in {SessionOpen[Min(Candidates)], m}
    BY <1>2 DEF NextSessionStart
  <2> QED BY <2>3, <2>4, ClockBounds DEF Time
<1> QED BY <1>1, <1>2

\* An opening that has passed lies before every later opening.
LEMMA OpeningsAdvance ==
    ASSUME NEW c \in TradingDays, NEW d \in TradingDays, c < d
    PROVE  SessionOpen[c] < SessionOpen[d]
<1>1. c \in Days /\ d \in Days /\ c \in Nat /\ d \in Nat
  BY CalendarTypes, ClockBounds DEF Days
<1>2. SessionOpen[c] \in Time /\ SessionOpen[d] \in Time
  BY <1>1, CalendarTypes
<1>3. DateOf[SessionOpen[c]] = c /\ DateOf[SessionOpen[d]] = d
  BY SessionsWithinTheirDay
<1> QED BY <1>1, <1>2, <1>3, DatesAdvance, ClockBounds DEF Time
=============================================================================
