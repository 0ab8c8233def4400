--------------------------- MODULE MCHealthWatch ---------------------------
(***************************************************************************)
(* Small sessions for TLC: one date, a window from 2 to 8 and an interval  *)
(* of 2, so four expected timestamps; and one to 16, with eight.           *)
(***************************************************************************)
EXTENDS HealthWatch

MCDateOf  == [t \in Time |-> 0]
MCTrading == {0}
MCOpen    == [d \in Days |-> 2]
MCClose   == [d \in Days |-> 8]
MCEquity  == [d \in Days |-> 7]

\* Of the eight timestamps of the longer session the first periodic write holds two,
\* which is below WarningPct, as 5 of some 400 are in a real session.
LongClose  == [d \in Days |-> 16]
LongEquity == [d \in Days |-> 15]
=============================================================================
