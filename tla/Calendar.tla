------------------------------ MODULE Calendar ------------------------------
(***************************************************************************)
(* The code's own calendar (Platform/Clock.h, ClockGetSetNow.c), which the *)
(* clock counts by and the user interface asks how long a month is.        *)
(***************************************************************************)
EXTENDS Integers

clockIsLeapYear(year) == year % 4 = 0

\* Mutant of clockDaysInMonth: 30 days where the number of the month is even.
DaysAlternating(month, year) ==
    IF month = 2 THEN (IF year % 4 = 0 THEN 29 ELSE 28) ELSE IF month % 2 = 0 THEN 30 ELSE 31

\* month & 0b1001
MonthBits(month) == (month % 2) + 8 * ((month \div 8) % 2)

clockDaysInMonth(month, year) ==
    IF month = 2
      THEN IF clockIsLeapYear(year) THEN 29 ELSE 28
      ELSE IF MonthBits(month) \in {9, 0} THEN 30 ELSE 31
-----------------------------------------------------------------------------
(***************************************************************************)
(* The calendar that the properties hold the code to: the lengths of the   *)
(* months by name, and the leap years of the century from 2000.            *)
(***************************************************************************)
IsLeap(year) == (2000 + year) % 4 = 0 /\ ((2000 + year) % 100 # 0 \/ (2000 + year) % 400 = 0)

MonthLength(month, year) ==
    IF month = 2 /\ IsLeap(year) THEN 29
    ELSE <<31, 28, 31, 30, 31, 30, 31, 31, 30, 31, 30, 31>>[month]
=============================================================================
