--------------------------- MODULE AtmSearchProofs ---------------------------
(***************************************************************************)
(* Proofs about AtmSearch: the scan of find_atm_strike ends at the nearest *)
(* strike, and the window around it has rows for exactly its strikes.      *)
(***************************************************************************)
EXTENDS AtmSearch, FiniteSetTheorems, TLAPS

\* Every strike of the chain is finite in number and an integer.
ChainInv ==
    /\ pc \in {"idle", "chain", "first", "scan", "done"}
    /\ pc # "idle" => spot \in Int
    /\ strikes \subseteq Int /\ IsFiniteSet(strikes)
    /\ pc \in {"first", "scan"} => strikes # {}
    /\ pc \in {"first", "scan", "done"} => strikes = StrikesOf(Usable(chain))

\* s beats the strikes of a set: the lower ones are farther, the higher ones not nearer.
Beats(s, set) ==
    \A r \in set : /\ r < s => Distance(s) < Distance(r)
                   /\ r > s => Distance(s) <= Distance(r) + Tolerance

\* The scan is in order, and the best strike beats all that were looked at.
ScanInv ==
    pc = "scan" =>
        /\ rest \subseteq strikes
        /\ best \in strikes \ rest
        /\ \A s \in strikes \ rest, r \in rest : s < r
        /\ Beats(best, strikes \ rest)

DoneInv ==
    /\ pc # "done" => window = EmptyWindow
    /\ Chosen => window.atm \in strikes /\ Beats(window.atm, strikes)
    /\ WindowIsQuotable

SearchInv == ChainInv /\ ScanInv /\ DoneInv

LEMMA SpotIsAPrice ==
  ASSUME NEW q \in Quotes, ExtractSpot(q) # Missing PROVE ExtractSpot(q) \in Int
<1>1. {q.last, q.bid, q.ask, q.prevclose} \subseteq Int \union {Missing}
  BY SearchAssumption DEF Prices
<1> QED BY <1>1 DEF ExtractSpot, Positive

LEMMA UsableStrikes ==
  ASSUME NEW c \in Chains
  PROVE  StrikesOf(Usable(c)) \subseteq Int /\ IsFiniteSet(StrikesOf(Usable(c)))
<1>1. StrikesOf(Usable(c)) \subseteq {row.strike : row \in c}
  BY DEF StrikesOf, Usable
<1>2. IsFiniteSet({row.strike : row \in c})
  BY SearchAssumption
<1>3. {row.strike : row \in c} \subseteq Int \union {Missing}
  BY SearchAssumption DEF Rows
<1>4. \A s \in StrikesOf(Usable(c)) : s # Missing
  BY DEF StrikesOf, Usable, Positive
<1>5. IsFiniteSet(StrikesOf(Usable(c)))
  BY <1>1, <1>2, FS_Subset
<1> QED BY <1>1, <1>3, <1>4, <1>5

\* Whatever strike the window is cut around, that strike is in it.
LEMMA CentreInSlice ==
  ASSUME NEW set \in SUBSET Int, IsFiniteSet(set), NEW s \in set
  PROVE  s \in Slice(set, s, EachSide) /\ Slice(set, s, EachSide) \subseteq set
<1>1. IsFiniteSet({r \in set : r < s})
  BY FS_Subset
<1>2. Position(set, s) \in Nat
  BY <1>1, FS_CardinalityType DEF Position
<1> QED BY <1>2, SearchAssumption DEF Slice

\* The window has a row for each of its strikes, and for no other.
LEMMA RowsOfTheWindow ==
  ASSUME NEW selected, selected \subseteq StrikesOf(Usable(chain)), selected # {}
  PROVE  /\ StrikesOf(Contracts(selected)) = selected
         /\ Contracts(selected) \subseteq Usable(chain)
         /\ Contracts(selected) # {}
  BY DEF StrikesOf, Contracts
----------------------------------------------------------------------------
LEMMA SearchInit == Init => SearchInv
<1> SUFFICES ASSUME Init PROVE SearchInv
  OBVIOUS
<1>1. ChainInv
  BY FS_EmptySet DEF Init, ChainInv
<1> QED
  BY <1>1 DEF Init, SearchInv, ScanInv, DoneInv, Chosen, WindowIsQuotable

LEMMA SearchNext == SearchInv /\ [Next]_vars => SearchInv'
<1> SUFFICES ASSUME SearchInv, [Next]_vars PROVE SearchInv'
  OBVIOUS
<1>1. ASSUME NEW q \in Quotes, TakeSpot(q) PROVE SearchInv'
  <2>1. /\ pc = "idle" /\ pc' \in {"idle", "chain"} /\ spot' = ExtractSpot(q)
        /\ pc' = "chain" => spot' # Missing
        /\ UNCHANGED <<chain, strikes, rest, best, window>>
    BY <1>1 DEF TakeSpot
  <2>2. pc' # "idle" => spot' \in Int
    BY <2>1, SpotIsAPrice
  <2>3. ChainInv'
    BY <2>1, <2>2 DEF SearchInv, ChainInv
  <2> QED BY <2>1, <2>3 DEF SearchInv, ScanInv, DoneInv, Chosen, WindowIsQuotable
<1>2. ASSUME NEW c \in Chains, TakeChain(c) PROVE SearchInv'
  <2>1. /\ pc = "chain" /\ chain' = c /\ strikes' = StrikesOf(Usable(c))
        /\ pc' = IF strikes' = {} THEN "done" ELSE "first"
        /\ UNCHANGED <<spot, rest, best, window>>
    BY <1>2 DEF TakeChain
  <2>2. ChainInv'
    BY <2>1, UsableStrikes DEF SearchInv, ChainInv
  <2>3. window' = EmptyWindow
    BY <2>1 DEF SearchInv, DoneInv
  <2>4. pc' = "done" => Usable(c) = {}
    BY <2>1 DEF StrikesOf
  <2>5. DoneInv'
    BY <2>1, <2>3, <2>4 DEF DoneInv, Chosen, WindowIsQuotable, EmptyWindow, StrikesOf
  <2> QED BY <2>1, <2>2, <2>5 DEF SearchInv, ScanInv
<1>3. ASSUME NEW lowest \in strikes, StartScan(lowest) PROVE SearchInv'
  <2>1. /\ pc = "first" /\ pc' = "scan" /\ best' = lowest /\ rest' = strikes \ {lowest}
        /\ \A s \in strikes : lowest <= s
        /\ UNCHANGED <<spot, chain, strikes, window>>
    BY <1>3 DEF StartScan
  <2>2. ChainInv' /\ strikes \subseteq Int
    BY <2>1 DEF SearchInv, ChainInv
  <2>3. strikes' \ rest' = {lowest}
    BY <2>1, <1>3
  <2>4. \A r \in rest' : lowest < r
    BY <2>1, <2>2
  <2>5. ~(lowest < lowest) /\ ~(lowest > lowest)
    BY <2>2
  <2>6. Beats(best, strikes \ rest)'
    BY <2>1, <2>3, <2>5 DEF Beats
  <2>7. ScanInv'
    BY <2>1, <2>3, <2>4, <2>6 DEF ScanInv
  <2> QED BY <2>1, <2>2, <2>7 DEF SearchInv, DoneInv, Chosen, WindowIsQuotable
<1>4. ASSUME NEW s \in rest, Look(s) PROVE SearchInv'
  <2>1. /\ pc = "scan" /\ pc' = "scan" /\ rest' = rest \ {s} /\ \A r \in rest : s <= r
        /\ best' = IF Nearer(s) THEN s ELSE best
        /\ UNCHANGED <<spot, chain, strikes, window>>
    BY <1>4 DEF Look
  <2>2. /\ strikes \subseteq Int /\ rest \subseteq strikes /\ best \in strikes \ rest
        /\ \A r \in strikes \ rest, u \in rest : r < u
        /\ Beats(best, strikes \ rest) /\ spot \in Int /\ Tolerance \in Nat
    BY <2>1, SearchAssumption DEF SearchInv, ScanInv, ChainInv
  <2>3. strikes \ rest' = (strikes \ rest) \union {s}
    BY <2>1, <2>2, <1>4
  <2>4. \A r \in strikes \ rest', u \in rest' : r < u
    BY <2>1, <2>2, <2>3
  <2>5. \A r \in strikes : Distance(r) \in Int /\ Distance(r)' = Distance(r)
    BY <2>1, <2>2 DEF Distance
  <2>6. CASE Nearer(s)
    <3>1. Distance(s) < Distance(best) - Tolerance
      BY <2>6 DEF Nearer
    <3>2. ASSUME NEW r \in strikes \ rest PROVE r < s /\ Distance(s) < Distance(r)
      <4>1. Distance(best) <= Distance(r) + Tolerance
        <5>1. CASE r < best
          BY <5>1, <2>2, <2>5 DEF Beats
        <5>2. CASE r > best
          BY <5>2, <2>2 DEF Beats
        <5>3. CASE r = best
          BY <5>3, <2>2, <2>5
        <5> QED BY <5>1, <5>2, <5>3, <2>2
      <4> QED BY <4>1, <3>1, <2>2, <2>5
    <3>3. ~(s < s) /\ ~(s > s) /\ \A r \in strikes \ rest : ~(r > s)
      BY <3>2, <2>2
    <3>4. Beats(s, (strikes \ rest) \union {s})
      BY <3>2, <3>3 DEF Beats
    <3>5. best' = s
      BY <2>6, <2>1
    <3>6. Beats(best, strikes \ rest)'
      BY <3>4, <3>5, <2>1, <2>3, <2>5, <2>2, <1>4 DEF Beats
    <3> QED BY <2>1, <2>2, <2>3, <2>4, <3>5, <3>6, <1>4
            DEF SearchInv, ScanInv, ChainInv, DoneInv, Chosen, WindowIsQuotable
  <2>7. CASE ~Nearer(s)
    <3>1. s > best /\ Distance(best) <= Distance(s) + Tolerance
      BY <2>7, <2>2, <2>5 DEF Nearer
    <3>2. Beats(best, (strikes \ rest) \union {s})
      BY <3>1, <2>2 DEF Beats
    <3>3. best' = best
      BY <2>7, <2>1
    <3>4. Beats(best, strikes \ rest)'
      BY <3>2, <3>3, <2>1, <2>3, <2>5, <2>2, <1>4 DEF Beats
    <3> QED BY <2>1, <2>2, <2>3, <2>4, <3>3, <3>4, <1>4
            DEF SearchInv, ScanInv, ChainInv, DoneInv, Chosen, WindowIsQuotable
  <2> QED BY <2>6, <2>7
<1>5. CASE SelectWindow
  <2> DEFINE selected == Slice(strikes, best, EachSide)
  <2>1. /\ pc = "scan" /\ pc' = "done" /\ rest = {}
        /\ window'.atm = best /\ window'.strikes = selected
        /\ window'.contracts = Contracts(selected)
        /\ UNCHANGED <<spot, chain, strikes, rest, best>>
    BY <1>5 DEF SelectWindow
  <2>2. /\ strikes \subseteq Int /\ IsFiniteSet(strikes) /\ best \in strikes
        /\ strikes = StrikesOf(Usable(chain)) /\ Beats(best, strikes)
    BY <2>1 DEF SearchInv, ScanInv, ChainInv
  <2>3. best \in selected /\ selected \subseteq strikes
    BY <2>2, CentreInSlice
  <2> HIDE DEF selected
  <2>4. /\ StrikesOf(Contracts(selected)) = selected
        /\ Contracts(selected) \subseteq Usable(chain)
        /\ Contracts(selected) # {}
    BY <2>2, <2>3, RowsOfTheWindow
  <2>5. WindowIsQuotable'
    BY <2>1, <2>4 DEF WindowIsQuotable, StrikesOf, Usable
  <2>6. Beats(window.atm, strikes)'
    BY <2>1, <2>2 DEF Beats, Distance
  <2>7. ChainInv'
    BY <2>1 DEF SearchInv, ChainInv
  <2> QED BY <2>1, <2>2, <2>5, <2>6, <2>7 DEF SearchInv, ScanInv, DoneInv
<1>6. CASE Return
  <2>1. ChainInv'
    BY <1>6, FS_EmptySet DEF Return, ChainInv
  <2> QED BY <1>6, <2>1 DEF Return, SearchInv, ScanInv, DoneInv, Chosen, WindowIsQuotable
<1>7. CASE UNCHANGED vars
  <2>1. Beats(best, strikes \ rest)' <=> Beats(best, strikes \ rest)
    BY <1>7 DEF vars, Beats, Distance
  <2>2. Beats(window.atm, strikes)' <=> Beats(window.atm, strikes)
    BY <1>7 DEF vars, Beats, Distance
  <2> QED BY <1>7, <2>1, <2>2
          DEF vars, SearchInv, ChainInv, ScanInv, DoneInv, Chosen, WindowIsQuotable
<1> QED BY <1>1, <1>2, <1>3, <1>4, <1>5, <1>6, <1>7 DEF Next

\* The scan is right for every chain, spot and tolerance: one pass over the ascending
\* strikes with a strict comparison ends at the nearest strike, the lower one on a tie.
THEOREM AtmIsAlwaysNearest == Spec => []AtmIsNearest
<1>1. SearchInv => AtmIsNearest
  BY DEF SearchInv, DoneInv, AtmIsNearest, Beats
<1> QED BY <1>1, SearchInit, SearchNext, PTL DEF Spec

\* Whatever malformed rows a chain has, the window has rows for exactly its strikes.
THEOREM WindowIsAlwaysQuotable == Spec => []WindowIsQuotable
<1>1. SearchInv => WindowIsQuotable
  BY DEF SearchInv, DoneInv
<1> QED BY <1>1, SearchInit, SearchNext, PTL DEF Spec
----------------------------------------------------------------------------
(***************************************************************************)
(* The positions of the strikes in their sorted list, and the slices of    *)
(* it: Position is a bijection between the strikes and 0 .. n - 1.         *)
(***************************************************************************)
LEMMA PositionsAscend ==
  ASSUME NEW set \in SUBSET Int, IsFiniteSet(set)
  PROVE  /\ \A s \in set : Position(set, s) \in 0 .. Cardinality(set) - 1
         /\ \A r, s \in set : r < s <=> Position(set, r) < Position(set, s)
<1> DEFINE Lower(s) == {r \in set : r < s}
<1>1. ASSUME NEW s \in set
      PROVE  IsFiniteSet(Lower(s)) /\ Cardinality(Lower(s)) \in Nat /\ Lower(s) \subseteq set
  BY FS_Subset, FS_CardinalityType
<1>2. Cardinality(set) \in Nat
  BY FS_CardinalityType
<1>3. ASSUME NEW s \in set PROVE Position(set, s) \in 0 .. Cardinality(set) - 1
  <2>1. s \notin Lower(s)
    OBVIOUS
  <2> HIDE DEF Lower
  <2>2. Cardinality(Lower(s)) <= Cardinality(set) /\ Cardinality(Lower(s)) # Cardinality(set)
    BY <1>1, <2>1, FS_Subset
  <2>3. Position(set, s) = Cardinality(Lower(s))
    BY DEF Position, Lower
  <2> QED BY <1>1, <1>2, <2>2, <2>3
<1>4. ASSUME NEW r \in set, NEW s \in set, r < s PROVE Position(set, r) < Position(set, s)
  <2>1. Lower(r) \subseteq Lower(s) /\ r \in Lower(s) /\ r \notin Lower(r)
    <3>1. \A x \in set : x \in Int
      OBVIOUS
    <3>2. \A x \in set : x < r => x < s
      BY <1>4, <3>1
    <3>3. ~(r < r)
      BY <3>1
    <3>4. Lower(r) \subseteq Lower(s)
      BY <3>2
    <3>5. r \in Lower(s)
      BY <1>4
    <3>6. r \notin Lower(r)
      BY <3>3
    <3> QED BY <3>4, <3>5, <3>6
  <2> HIDE DEF Lower
  <2>2. /\ Cardinality(Lower(r)) <= Cardinality(Lower(s))
        /\ Cardinality(Lower(r)) # Cardinality(Lower(s))
    BY <1>1, <2>1, FS_Subset
  <2>3. Position(set, r) = Cardinality(Lower(r)) /\ Position(set, s) = Cardinality(Lower(s))
    BY DEF Position, Lower
  <2> QED BY <1>1, <2>2, <2>3
<1>5. ASSUME NEW r \in set, NEW s \in set, Position(set, r) < Position(set, s) PROVE r < s
  <2>1. r \in Int /\ s \in Int
    OBVIOUS
  <2>2. Position(set, r) \in Int /\ Position(set, s) \in Int
    BY <1>2, <1>3
  <2>3. CASE s < r
    <3>1. Position(set, s) < Position(set, r)
      BY <1>4, <2>3
    <3> QED BY <1>5, <2>2, <3>1
  <2>4. CASE s = r
    BY <1>5, <2>2, <2>4
  <2> QED BY <2>1, <2>3, <2>4
<1> QED BY <1>3, <1>4, <1>5

\* As many strikes have a position in a range as the range has positions.
LEMMA StrikesOfPositions ==
  ASSUME NEW set \in SUBSET Int, IsFiniteSet(set), NEW a \in Nat, NEW b \in Int,
         b <= Cardinality(set) - 1
  PROVE  Cardinality({s \in set : Position(set, s) \in a .. b}) = IF a > b THEN 0 ELSE b - a + 1
<1> DEFINE n == Cardinality(set)
           P == [s \in set |-> Position(set, s)]
           part == {s \in set : Position(set, s) \in a .. b}
           Q == [s \in part |-> Position(set, s)]
<1>1. n \in Nat
  BY FS_CardinalityType
<1>2. \A s \in set : Position(set, s) \in 0 .. n - 1
  BY PositionsAscend
<1>3. ASSUME NEW r \in set, NEW s \in set, Position(set, r) = Position(set, s) PROVE r = s
  <2>1. Position(set, r) \in Int
    BY <1>1, <1>2
  <2>2. ~(r < s) /\ ~(s < r)
    BY <1>3, <2>1, PositionsAscend
  <2> QED BY <2>2
<1>4. IsFiniteSet(0 .. n - 1) /\ Cardinality(0 .. n - 1) = n
  BY <1>1, FS_Interval
<1>5. P \in Injection(set, 0 .. n - 1)
  BY <1>2, <1>3 DEF Injection, IsInjective
<1>6. P \in Surjection(set, 0 .. n - 1)
  <2> HIDE DEF P
  <2> QED BY <1>4, <1>5, FS_Injection
<1>7. \A i \in 0 .. n - 1 : \E s \in set : Position(set, s) = i
  BY <1>6 DEF Surjection
<1>8. Q \in Bijection(part, a .. b)
  <2>1. Q \in [part -> a .. b]
    OBVIOUS
  <2>2. IsInjective(Q)
    BY <1>3 DEF IsInjective
  <2>3. \A i \in a .. b : \E s \in part : Q[s] = i
    BY <1>1, <1>7
  <2> QED BY <2>1, <2>2, <2>3 DEF Bijection, Injection, Surjection
<1>9. IsFiniteSet(part)
  BY FS_Subset
<1>10. Cardinality(a .. b) = Cardinality(part)
  <2> HIDE DEF part, Q
  <2>1. ExistsBijection(part, a .. b)
    BY <1>8 DEF ExistsBijection
  <2> QED BY <1>9, <2>1, FS_Bijection
<1> QED BY <1>10, FS_Interval

\* The window is the slice around its ATM strike and knows where it is cut.
SliceInv ==
    Chosen =>
        /\ window.strikes = Slice(strikes, window.atm, EachSide)
        /\ window.truncated_low = TruncatedLow(strikes, window.atm, EachSide)
        /\ window.truncated_high = TruncatedHigh(strikes, window.atm, EachSide)

LEMMA SliceNext == SearchInv /\ SliceInv /\ [Next]_vars => SliceInv'
<1> SUFFICES ASSUME SearchInv, SliceInv, [Next]_vars PROVE SliceInv'
  OBVIOUS
<1>1. ASSUME NEW c \in Chains, TakeChain(c) PROVE SliceInv'
  <2>1. window' = EmptyWindow
    BY <1>1 DEF TakeChain, SearchInv, DoneInv
  <2> QED BY <2>1 DEF SliceInv, Chosen, EmptyWindow
<1>2. CASE SelectWindow
  BY <1>2 DEF SelectWindow, SliceInv
<1>3. ASSUME \/ \E q \in Quotes : TakeSpot(q)
             \/ \E lowest \in strikes : StartScan(lowest)
             \/ \E s \in rest : Look(s)
             \/ Return
      PROVE  SliceInv'
  BY <1>3 DEF TakeSpot, StartScan, Look, Return, SliceInv, Chosen
<1>4. CASE UNCHANGED vars
  BY <1>4 DEF vars, SliceInv, Chosen
<1> QED BY <1>1, <1>2, <1>3, <1>4 DEF Next

LEMMA SlicesAreCentred == SearchInv /\ SliceInv => WindowIsCentred
<1> SUFFICES ASSUME SearchInv, SliceInv, Chosen PROVE WindowIsCentred
  BY DEF WindowIsCentred
<1> DEFINE n == Cardinality(strikes)
           Place(s) == Position(strikes, s)
           k == Place(window.atm)
<1>1. strikes \in SUBSET Int /\ IsFiniteSet(strikes) /\ window.atm \in strikes
  BY DEF SearchInv, ChainInv, DoneInv
<1>2. /\ n \in Nat /\ EachSide \in Nat
      /\ \A s \in strikes : Place(s) \in 0 .. n - 1
      /\ \A r, s \in strikes : r < s <=> Place(r) < Place(s)
  BY <1>1, PositionsAscend, FS_CardinalityType, SearchAssumption
<1>3. k \in 0 .. n - 1
  BY <1>1, <1>2
<1>4. /\ window.strikes = {s \in strikes : Place(s) \in k - EachSide .. k + EachSide}
      /\ window.truncated_low <=> k - EachSide < 0
      /\ window.truncated_high <=> k + EachSide > n - 1
  BY DEF SliceInv, Slice, TruncatedLow, TruncatedHigh
<1>5. \A a \in Nat, b \in Int : b <= n - 1 =>
        Cardinality({s \in strikes : Place(s) \in a .. b}) = IF a > b THEN 0 ELSE b - a + 1
  BY <1>1, StrikesOfPositions
<1>6. \A s \in strikes : /\ s < window.atm <=> Place(s) < k
                         /\ s > window.atm <=> Place(s) > k
  BY <1>1, <1>2
<1> HIDE DEF n, Place, k
<1>7. Below(strikes) = {s \in strikes : Place(s) \in 0 .. k - 1}
  BY <1>2, <1>3, <1>6 DEF Below
<1>8. Above(strikes) = {s \in strikes : Place(s) \in k + 1 .. n - 1}
  BY <1>2, <1>3, <1>6 DEF Above
<1>9. Cardinality(Below(strikes)) = k /\ Cardinality(Above(strikes)) = n - 1 - k
  <2>1. Cardinality({s \in strikes : Place(s) \in 0 .. k - 1}) = k
    BY <1>2, <1>3, <1>5
  <2>2. Cardinality({s \in strikes : Place(s) \in k + 1 .. n - 1}) = n - 1 - k
    BY <1>2, <1>3, <1>5
  <2> QED BY <1>7, <1>8, <2>1, <2>2
<1>10. Cardinality(Below(window.strikes)) = IF k - EachSide < 0 THEN k ELSE EachSide
  <2>1. CASE k - EachSide < 0
    <3>1. Below(window.strikes) = Below(strikes)
      BY <1>2, <1>3, <1>4, <1>6, <2>1 DEF Below
    <3> QED BY <1>9, <2>1, <3>1
  <2>2. CASE ~(k - EachSide < 0)
    <3>1. Below(window.strikes) = {s \in strikes : Place(s) \in k - EachSide .. k - 1}
      BY <1>2, <1>3, <1>4, <1>6 DEF Below
    <3>2. Cardinality({s \in strikes : Place(s) \in k - EachSide .. k - 1}) = EachSide
      BY <1>2, <1>3, <1>5, <2>2
    <3> QED BY <2>2, <3>1, <3>2
  <2> QED BY <2>1, <2>2
<1>11. Cardinality(Above(window.strikes)) = IF k + EachSide > n - 1 THEN n - 1 - k ELSE EachSide
  <2>1. CASE k + EachSide > n - 1
    <3>1. Above(window.strikes) = Above(strikes)
      BY <1>2, <1>3, <1>4, <1>6, <2>1 DEF Above
    <3> QED BY <1>9, <2>1, <3>1
  <2>2. CASE ~(k + EachSide > n - 1)
    <3>1. Above(window.strikes) = {s \in strikes : Place(s) \in k + 1 .. k + EachSide}
      BY <1>2, <1>3, <1>4, <1>6 DEF Above
    <3>2. Cardinality({s \in strikes : Place(s) \in k + 1 .. k + EachSide}) = EachSide
      BY <1>2, <1>3, <1>5, <2>2
    <3> QED BY <2>2, <3>1, <3>2
  <2> QED BY <2>1, <2>2
<1>12. ASSUME NEW s \in strikes \ window.strikes, NEW r \in window.strikes \union {window.atm}
       PROVE  IF s < window.atm THEN s < r ELSE r < s
  <2>1. k = Place(window.atm)
    BY DEF k
  <2>2. r \in strikes /\ Place(r) \in k - EachSide .. k + EachSide
    BY <1>1, <1>2, <1>3, <1>4, <2>1
  <2>3. Place(s) \in Int /\ ~(Place(s) \in k - EachSide .. k + EachSide)
    BY <1>2, <1>4
  <2>4. CASE Place(s) < k
    <3>1. Place(s) < Place(r)
      BY <1>2, <1>3, <2>2, <2>3, <2>4
    <3> QED BY <1>2, <1>6, <2>2, <2>4, <3>1
  <2>5. CASE ~(Place(s) < k)
    <3>1. Place(r) < Place(s)
      BY <1>2, <1>3, <2>2, <2>3, <2>5
    <3> QED BY <1>2, <1>6, <2>2, <2>5, <3>1
  <2> QED BY <2>4, <2>5
<1>13. /\ k - EachSide < 0 <=> k < EachSide
       /\ k + EachSide > n - 1 <=> n - 1 - k < EachSide
  BY <1>2, <1>3
<1> QED BY <1>4, <1>9, <1>10, <1>11, <1>12, <1>13 DEF WindowIsCentred

\* For every chain, spot and width the window has the EachSide nearest strikes on each
\* side of its ATM strike, or all there are and says so, and leaves none out in between.
THEOREM WindowIsAlwaysCentred == Spec => []WindowIsCentred
<1>1. Init => SliceInv
  BY DEF Init, SliceInv, Chosen
<1> QED BY <1>1, SearchInit, SearchNext, SliceNext, SlicesAreCentred, PTL DEF Spec
=============================================================================
