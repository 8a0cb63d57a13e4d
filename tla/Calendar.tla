------------------------------ MODULE Calendar ------------------------------
(***************************************************************************)
(* The times xtime computes, in a zone whose offset from UTC does not      *)
(* change.  A time is a number of seconds since the epoch, which was a     *)
(* Thursday; \div and % round down, for times before it too.               *)
(***************************************************************************)
EXTENDS Integers

CONSTANT Offset     \* of the zone, in seconds

OffsetAssumption == Offset \in Int

Day == 86400

\* Days since the epoch by the clock of the zone: time.Time.Date.
DayOf(t) == (t + Offset) \div Day

\* 0 is Sunday: time.Time.Weekday.
Weekday(t) == (DayOf(t) + 4) % 7

\* time.Date with the clock at 0.
Midnight(day) == day * Day - Offset

StartOfDay(t) == Midnight(DayOf(t))

\* Monday is the first day of a week.
StartOfWeek(t) ==
    LET weekday == IF Weekday(t) = 0 THEN 7 ELSE Weekday(t)
    IN  StartOfDay(t - (weekday - 1) * Day)

NextDailyTime(t, delay) == StartOfDay(t - delay) + Day + delay

NextWeeklyTime(t, delay) == StartOfWeek(t - delay) + 7 * Day + delay

\* The times NextDailyTime and NextWeeklyTime choose from: delay after the
\* start of a day, of a Monday.
IsDaily(u, delay) == u - delay = StartOfDay(u - delay)

IsWeekly(u, delay) == IsDaily(u, delay) /\ Weekday(u - delay) = 1
=============================================================================
