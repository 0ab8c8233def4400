---------------------------- MODULE MCScheduler ----------------------------
(***************************************************************************)
(* Small calendars for TLC: date 0 is a regular session, date 1 an early   *)
(* close, date 2 (when there is one) a holiday.                            *)
(***************************************************************************)
EXTENDS Scheduler

MCDateOf == [t \in Time |-> Min({LastDay, t \div 9})]

\* Two sessions on the grid of an interval of 3: 3..7, sampled at 3 and 6, and
\* the early close 12..15, one tick after the equity close.
MCOpen    == [d \in Days |-> 9 * d + 3]
MCClose   == [d \in Days |-> 9 * d + 7]
MCEquity  == [d \in Days |-> IF d = 1 THEN 9 * d + 5 ELSE 9 * d + 6]
MCRegular == [d \in Days |-> 9 * d + 6]
MCTrading == {0, 1}

\* A wider calendar: sessions 4..10 and, closing early, 16..20, interval 4.
WideDateOf  == [t \in Time |-> Min({LastDay, t \div 12})]
WideOpen    == [d \in Days |-> 12 * d + 4]
WideClose   == [d \in Days |-> 12 * d + 10]
WideEquity  == [d \in Days |-> IF d = 1 THEN 12 * d + 7 ELSE 12 * d + 9]
WideRegular == [d \in Days |-> 12 * d + 9]
=============================================================================
