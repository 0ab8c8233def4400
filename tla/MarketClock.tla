---------------------------- MODULE MarketClock ----------------------------
(***************************************************************************)
(* The trading calendar and the poll-boundary arithmetic of                *)
(* tradier_collector/market_clock.py.  The module has no state: it is the  *)
(* vocabulary of every module that reasons about session time.             *)
(*                                                                         *)
(* Time is a number of ticks since the Unix epoch of the model.  A tick is *)
(* any fixed fraction of a second, so int(timestamp) \div interval of the  *)
(* code is t \div Interval.  The exchange calendar (a library) and the     *)
(* time-zone conversions are functions given as constants.                 *)
(***************************************************************************)
EXTENDS Integers, FiniteSets, FiniteSetsExt

CONSTANTS
    Horizon,            \* last tick at which the calendar is consulted
    LastDay,            \* the local dates are 0..LastDay
    DateOf,             \* tick -> local (New York) date
    TradingDays,        \* dates that are XNYS sessions
    SessionOpen,        \* date -> the configured local opening time, in UTC
    SessionClose,       \* date -> the configured local closing time, in UTC
    EquityClose,        \* date -> the equity close of the calendar, in UTC
    RegularEquityClose, \* date -> 16:00 local time, in UTC
    EarlyCloseExtra,    \* early_close_extra_minutes
    Interval,           \* poll_interval_seconds
    SearchDays,         \* dates next_session_start looks at (15)
    NoWindow,           \* session_window's None
    None                \* any other None

Time == 0 .. Horizon
Days == 0 .. LastDay

ASSUME ClockBounds ==
    /\ Horizon \in Nat
    /\ LastDay \in Nat
    /\ Interval \in Nat \ {0}
    /\ SearchDays \in Nat
    /\ EarlyCloseExtra \in Nat
    /\ None \notin Nat

ASSUME CalendarTypes ==
    /\ DateOf \in [Time -> Days]
    /\ TradingDays \subseteq Days
    /\ SessionOpen \in [Days -> Time]
    /\ SessionClose \in [Days -> Time]
    /\ EquityClose \in [Days -> Time]
    /\ RegularEquityClose \in [Days -> Time]
    /\ NoWindow \notin [start : Int, end : Int]

\* Local dates never go back: a local clock shift is an hour, a date is a day.
ASSUME DatesAdvance == \A s, t \in Time : s <= t => DateOf[s] <= DateOf[t]

\* The session of a date lies on that date, its extension included.
ASSUME SessionsWithinTheirDay ==
    \A d \in TradingDays :
        /\ DateOf[SessionOpen[d]] = d
        /\ DateOf[SessionClose[d]] = d
        /\ EquityClose[d] + EarlyCloseExtra \in Time
        /\ DateOf[EquityClose[d] + EarlyCloseExtra] = d
----------------------------------------------------------------------------
Today(now) == DateOf[now]

IsEarlyClose(d) ==
    /\ d \in TradingDays
    /\ EquityClose[d] < RegularEquityClose[d]

WindowEnd(d) ==
    IF IsEarlyClose(d) THEN EquityClose[d] + EarlyCloseExtra ELSE SessionClose[d]

\* A date that is no session, or whose window would be empty, has no window.
HasWindow(d) == d \in TradingDays /\ SessionOpen[d] < WindowEnd(d)

SessionWindow(d) ==
    IF HasWindow(d) THEN [start |-> SessionOpen[d], end |-> WindowEnd(d)]
                    ELSE NoWindow

\* The next multiple of the interval strictly after the moment.
NextBoundary(moment) == (moment \div Interval + 1) * Interval

FirstPoll(d) ==
    IF SessionOpen[d] % Interval = 0 THEN SessionOpen[d]
                                     ELSE NextBoundary(SessionOpen[d])

\* The loop `while current <= end: append; current += interval`, as a set.
ExpectedPollTimestamps(d) ==
    IF HasWindow(d)
    THEN {t \in FirstPoll(d) .. WindowEnd(d) : (t - FirstPoll(d)) % Interval = 0}
    ELSE {}

NextSessionStart(moment) ==
    LET Candidates ==
            {d \in Days : /\ Today(moment) <= d
                          /\ d < Today(moment) + SearchDays
                          /\ HasWindow(d)
                          /\ moment <= WindowEnd(d)}
        first == SessionOpen[Min(Candidates)]
    IN  IF Candidates = {} THEN None
        ELSE IF moment <= first THEN first ELSE moment
=============================================================================
