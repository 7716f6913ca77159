-------------------------------- MODULE Clock --------------------------------
(***************************************************************************)
(* Platform/Clock: the date and the time in GMT, kept in RAM to the minute *)
(* and to the second by timer 0, which counts them on its own while the    *)
(* processor sleeps or runs and raises a flag at the end of each minute.   *)
(*                                                                         *)
(* The flag is noticed in two places, by the handler of WOKEN_FROM_SLEEP   *)
(* and by clockGetNowGmt(), and the timer counts on between any two of the *)
(* steps in which the latter reads it.  A year ends at the number of the   *)
(* day that overflows to zero.                                             *)
(*                                                                         *)
(* `instant' and `began' are history variables: the true time, in seconds  *)
(* of the clock's cycle of Years years, and when the read began.           *)
(***************************************************************************)
EXTENDS Calendar, Sequences

CONSTANTS
    SecondsPerMinute,   \* 60
    MinutesPerHour,     \* 60
    HoursPerDay,        \* 24
    Years,              \* 100
    SetTimes            \* the dates and times that somebody sets

VARIABLES
    clockNow,           \* [time, date], the second being the one last read
    TMR0L,              \* seconds of the current minute
    TMR0IF,             \* a minute has ended
    reading,            \* how far a call of clockGetNowGmt() has got
    instant, began      \* history, see above

vars == <<clockNow, TMR0L, TMR0IF, reading, instant, began>>

UINT16_MAX == 2^16 - 1

Times == [second : 0 .. SecondsPerMinute - 1, minute : 0 .. MinutesPerHour - 1,
          hour : 0 .. HoursPerDay - 1]
-----------------------------------------------------------------------------
(***************************************************************************)
(* The true calendar, that the properties hold the clock to.               *)
(***************************************************************************)
DaysBeforeMonth(month, year) ==
    <<0, 31, 59, 90, 120, 151, 181, 212, 243, 273, 304, 334>>[month]
        + (IF month > 2 /\ IsLeap(year) THEN 1 ELSE 0)

DaysBeforeYear(year) == 365 * year + (year + 3) \div 4

SecondsPerDay == HoursPerDay * MinutesPerHour * SecondsPerMinute
Cycle == DaysBeforeYear(Years) * SecondsPerDay

\* The second of the cycle that is `second' past the minute of a date and time.
SecondOf(date, time, second) ==
    (DaysBeforeYear(date.year) + DaysBeforeMonth(date.month, date.year) + date.day - 1)
            * SecondsPerDay
        + (time.hour * MinutesPerHour + time.minute) * SecondsPerMinute + second

IsRealDate(date) ==
    /\ date.year \in 0 .. Years - 1
    /\ date.month \in 1 .. 12
    /\ date.day \in 1 .. MonthLength(date.month, date.year)

\* The leap years repeat from one cycle to the next, and the user interface
\* lets only real dates be set.
ASSUME ClockAssumption ==
    /\ {SecondsPerMinute, MinutesPerHour, HoursPerDay} \subseteq Nat \ {0}
    /\ Years \in 1 .. 100 /\ Years % 4 = 0
    /\ \A now \in SetTimes : now.time \in Times /\ IsRealDate(now.date)
-----------------------------------------------------------------------------
(***************************************************************************)
(* Counting by the code's own calendar.                                    *)
(***************************************************************************)
\* The sum that clockSetNowGmt() adds up from the months before.
DaysInMonthsBefore(year) ==
    LET days[month \in 1 .. 12] ==
            IF month = 1 THEN 0 ELSE days[month - 1] + clockDaysInMonth(month - 1, year)
    IN days

EndsMonth(date) == date.day = clockDaysInMonth(date.month, date.year)
EndsYear(date) == EndsMonth(date) /\ date.month = 12

NextYear(date) == (date.year + 1) % Years

\* Mutant of NextDate: the new year's first day is numbered one.
NextDateFromOne(date) ==
    [day |-> IF EndsMonth(date) THEN 1 ELSE date.day + 1,
     month |-> IF EndsYear(date) THEN 1
               ELSE IF EndsMonth(date) THEN date.month + 1 ELSE date.month,
     year |-> IF EndsYear(date) THEN NextYear(date) ELSE date.year,
     dayOfYear |-> (IF EndsYear(date) THEN 0 ELSE date.dayOfYear) + 1,
     isLeapYear |-> IF EndsYear(date) THEN clockIsLeapYear(NextYear(date))
                    ELSE date.isLeapYear]

NextDate(date) ==
    [day |-> IF EndsMonth(date) THEN 1 ELSE date.day + 1,
     month |-> IF EndsYear(date) THEN 1
               ELSE IF EndsMonth(date) THEN date.month + 1 ELSE date.month,
     year |-> IF EndsYear(date) THEN NextYear(date) ELSE date.year,
     dayOfYear |-> ((IF EndsYear(date) THEN UINT16_MAX ELSE date.dayOfYear) + 1) % 2^16,
     isLeapYear |-> IF EndsYear(date) THEN clockIsLeapYear(NextYear(date))
                    ELSE date.isLeapYear]

\* The date of a time that is set, with what clockSetNowGmt() works out.
FullDate(date) ==
    [day |-> date.day, month |-> date.month, year |-> date.year,
     dayOfYear |-> date.day - 1 + DaysInMonthsBefore(date.year)[date.month],
     isLeapYear |-> clockIsLeapYear(date.year)]
-----------------------------------------------------------------------------
\* clockInitialise() sets the epoch.
Init ==
    /\ clockNow = [time |-> [second |-> 0, minute |-> 0, hour |-> 0],
                   date |-> FullDate([day |-> 1, month |-> 1, year |-> 0])]
    /\ TMR0L = 0
    /\ TMR0IF = FALSE
    /\ reading = "idle"
    /\ instant = 0
    /\ began = 0

\* A second passes.  The main loop turns more than once a minute, so the flag
\* of one minute has been noticed by the end of the next.
TimerCounts ==
    /\ TMR0L' = (TMR0L + 1) % SecondsPerMinute
    /\ TMR0L' = 0 => ~TMR0IF
    /\ TMR0IF' = (TMR0IF \/ TMR0L' = 0)
    /\ instant' = (instant + 1) % Cycle
    /\ UNCHANGED <<clockNow, reading, began>>

Ticked(now) ==
    LET endsHour == now.time.minute + 1 = MinutesPerHour
        endsDay == endsHour /\ now.time.hour + 1 = HoursPerDay
    IN [time |-> [second |-> TMR0L,
                  minute |-> IF endsHour THEN 0 ELSE now.time.minute + 1,
                  hour |-> IF endsDay THEN 0
                           ELSE IF endsHour THEN now.time.hour + 1 ELSE now.time.hour],
        date |-> IF endsDay THEN NextDate(now.date) ELSE now.date]

clockTicked == clockNow' = Ticked(clockNow)

onWokenFromSleep ==
    /\ reading = "idle"
    /\ TMR0IF
    /\ TMR0IF' = FALSE
    /\ clockTicked
    /\ UNCHANGED <<TMR0L, reading, instant, began>>

\* clockGetNowGmt() in three steps: reading the second, looking at the flag and
\* copying the result.
GetReadsSecond ==
    /\ reading = "idle"
    /\ reading' = "looking"
    /\ clockNow' = [clockNow EXCEPT !.time.second = TMR0L,
                                    !.date.isLeapYear = clockIsLeapYear(clockNow.date.year)]
    /\ began' = instant
    /\ UNCHANGED <<TMR0L, TMR0IF, instant>>

\* Mutant of GetLooksAtFlag: the flag is left for the handler to see as well.
GetLeavesFlag ==
    /\ reading = "looking"
    /\ reading' = "copying"
    /\ IF TMR0IF THEN clockTicked ELSE UNCHANGED clockNow
    /\ UNCHANGED <<TMR0L, TMR0IF, instant, began>>

\* Mutant of GetLooksAtFlag: the minute is counted, but the second not read again.
GetKeepsSecond ==
    /\ reading = "looking"
    /\ reading' = "copying"
    /\ IF TMR0IF THEN clockNow' = [Ticked(clockNow) EXCEPT !.time.second = clockNow.time.second]
                 ELSE UNCHANGED clockNow
    /\ TMR0IF' = FALSE
    /\ UNCHANGED <<TMR0L, instant, began>>

GetLooksAtFlag ==
    /\ reading = "looking"
    /\ reading' = "copying"
    /\ IF TMR0IF THEN clockTicked ELSE UNCHANGED clockNow
    /\ TMR0IF' = FALSE
    /\ UNCHANGED <<TMR0L, instant, began>>

GetReturns ==
    /\ reading = "copying"
    /\ reading' = "idle"
    /\ began' = 0
    /\ UNCHANGED <<clockNow, TMR0L, TMR0IF, instant>>

\* Writing TMR0L restarts the second, so the timer cannot count in between.
clockSetNowGmt ==
    /\ reading = "idle"
    /\ \E now \in SetTimes :
           /\ clockNow' = [time |-> now.time, date |-> FullDate(now.date)]
           /\ TMR0L' = now.time.second
           /\ instant' = SecondOf(now.date, now.time, now.time.second)
    /\ TMR0IF' = FALSE
    /\ UNCHANGED <<reading, began>>

Next == \/ TimerCounts \/ onWokenFromSleep \/ clockSetNowGmt
        \/ GetReadsSecond \/ GetLooksAtFlag \/ GetReturns

Spec == Init /\ [][Next]_vars
-----------------------------------------------------------------------------
(***************************************************************************)
(* Properties.                                                             *)
(***************************************************************************)

\* The day of the year, which looks up the sun's times, and the leap year's flag
\* are those of the date, whether it was set or counted to from another year.
DayOfYearIsTheDates ==
    /\ clockNow.date.dayOfYear =
           DaysBeforeMonth(clockNow.date.month, clockNow.date.year) + clockNow.date.day - 1
    /\ clockNow.date.isLeapYear = IsLeap(clockNow.date.year)

\* No minute is lost or counted twice, whichever of the two notices its end.
KeepsTime ==
    (SecondOf(clockNow.date, clockNow.time, TMR0L)
        + (IF TMR0IF THEN SecondsPerMinute ELSE 0)) % Cycle = instant

\* What clockGetNowGmt() returns was the time at some moment of the call, though
\* the timer counts on while it is being read.
GetWasTrue ==
    [][GetReturns =>
        (SecondOf(clockNow.date, clockNow.time, clockNow.time.second) - began) % Cycle
            <= (instant - began) % Cycle]_vars
=============================================================================
