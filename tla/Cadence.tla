------------------------------ MODULE Cadence ------------------------------
(***************************************************************************)
(* The due dates of a cadence: domain/cadence.ts.                          *)
(*                                                                         *)
(* A date is the number of days since Monday 2024-01-01, all UTC, and a    *)
(* month the number of months since then, so a pair (year, monthIndex) of  *)
(* the code is one number.  Within these dates (to 2099) every fourth year *)
(* is a leap year.  Due dates fall on midnight.                            *)
(***************************************************************************)
EXTENDS Integers

Weekly == [kind : {"WEEKLY", "BIWEEKLY"}, day : 0 .. 6]     \* 0 = Sunday
Monthly == [kind : {"MONTHLY"}, day : 1 .. 31]
CadenceSet == Weekly \cup Monthly

-----------------------------------------------------------------------------
(* What Date does. *)

\* getUTCDay(): day 0 is a Monday.
Weekday(d) == (d + 1) % 7

Leap(m) == (m \div 12) % 4 = 0

\* Days of the year before each month, leap day not counted.
DaysBefore == <<0, 31, 59, 90, 120, 151, 181, 212, 243, 273, 304, 334>>

\* The first day of a month.
MonthStart(m) ==
  LET y == m \div 12 IN
  365 * y + ((y + 3) \div 4) + DaysBefore[(m % 12) + 1]
    + (IF Leap(m) /\ m % 12 > 1 THEN 1 ELSE 0)

\* Day 0 of the month after it: the number of its last day.
MonthLength(m) ==
  IF m % 12 = 1 THEN (IF Leap(m) THEN 29 ELSE 28)
  ELSE IF m % 12 \in {3, 5, 8, 10} THEN 30 ELSE 31

\* getUTCFullYear() and getUTCMonth(); no month is shorter than 28 days.
MonthOf(d) == CHOOSE m \in 0 .. d \div 28 : d - MonthStart(m) \in 0 .. MonthLength(m) - 1

-----------------------------------------------------------------------------
(* domain/cadence.ts. *)

NextWeekdayAtOrAfter(from, dayOfWeek) == from + ((dayOfWeek - Weekday(from) + 7) % 7)

\* A month without that day ends earlier: its last day.
ClampedMonthDay(m, dayOfMonth) ==
  MonthStart(m) + (IF dayOfMonth <= MonthLength(m) THEN dayOfMonth ELSE MonthLength(m)) - 1

NextCalendarMonth(m) == m + 1

MonthlyAtOrAfter(from, dayOfMonth) ==
  LET m == MonthOf(from)
      candidate == ClampedMonthDay(m, dayOfMonth)
  IN IF candidate >= from THEN candidate
     ELSE ClampedMonthDay(NextCalendarMonth(m), dayOfMonth)

\* computeNextDueAt without a previous due date.
FirstDueAt(cadence, createdAt) ==
  IF cadence.kind = "MONTHLY" THEN MonthlyAtOrAfter(createdAt, cadence.day)
  ELSE NextWeekdayAtOrAfter(createdAt, cadence.day)

\* The clamped day of one month carried into the next.
FaultyNextDueAt(cadence, previous) ==
  CASE cadence.kind = "WEEKLY" -> previous + 7
    [] cadence.kind = "BIWEEKLY" -> previous + 14
    [] cadence.kind = "MONTHLY" ->
         LET m == MonthOf(previous)
         IN ClampedMonthDay(NextCalendarMonth(m), previous - MonthStart(m) + 1)

\* computeNextDueAt from the previous due date.
NextDueAt(cadence, previous) ==
  CASE cadence.kind = "WEEKLY" -> previous + 7
    [] cadence.kind = "BIWEEKLY" -> previous + 14
    [] cadence.kind = "MONTHLY" ->
         ClampedMonthDay(NextCalendarMonth(MonthOf(previous)), cadence.day)
=============================================================================
