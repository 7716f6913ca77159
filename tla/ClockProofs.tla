---------------------------- MODULE ClockProofs ----------------------------
(***************************************************************************)
(* Proofs about module Clock, for minutes, hours and days of any length    *)
(* (the code's 60, 60 and 24 among them) and any cycle of whole leap       *)
(* years up to the code's hundred.                                         *)
(***************************************************************************)
EXTENDS Clock, TLAPS

LEMMA ConstantsAreNumbers ==
    /\ SecondsPerMinute \in Nat \ {0} /\ MinutesPerHour \in Nat \ {0}
    /\ HoursPerDay \in Nat \ {0}
    /\ Years \in 1 .. 100 /\ Years % 4 = 0
    /\ \A now \in SetTimes : now.time \in Times /\ IsRealDate(now.date)
BY ClockAssumption

\* Less than twice round wraps at most once.
LEMMA WrapsOnce ==
    ASSUME NEW cycle \in Nat \ {0}, NEW n \in Nat, n < 2 * cycle
    PROVE  n % cycle = IF n < cycle THEN n ELSE n - cycle
OBVIOUS

\* A difference that is a whole cycle short is the same modulo the cycle.
LEMMA WrapsBack ==
    ASSUME NEW cycle \in Nat \ {0}, NEW n \in 0 .. cycle - 1
    PROVE  n % cycle = n /\ (n - cycle) % cycle = n
OBVIOUS

(***************************************************************************)
(* The calendar.                                                           *)
(***************************************************************************)
LeapDay(year) == IF year % 4 = 0 THEN 1 ELSE 0

\* The two leap years of Calendar are the same within the century.
LEMMA LeapYears ==
    ASSUME NEW year \in 0 .. 99
    PROVE  (IsLeap(year) <=> year % 4 = 0) /\ (clockIsLeapYear(year) <=> year % 4 = 0)
BY DEF IsLeap, clockIsLeapYear

\* The months' lengths by their numbers' bits are those by name, and the days
\* before each month are the sum of those before.
LEMMA Months ==
    ASSUME NEW year \in 0 .. 99, NEW month \in 1 .. 12
    PROVE  /\ clockDaysInMonth(month, year) = MonthLength(month, year)
           /\ MonthLength(month, year) \in 28 .. 31
           /\ DaysBeforeMonth(month, year) \in 0 .. 335
           /\ month = 1 => DaysBeforeMonth(month, year) = 0
           /\ month < 12 => DaysBeforeMonth(month + 1, year)
                              = DaysBeforeMonth(month, year) + MonthLength(month, year)
           /\ month = 12 => DaysBeforeMonth(month, year) + MonthLength(month, year)
                              = 365 + LeapDay(year)
<1>1. IsLeap(year) <=> year % 4 = 0
  BY LeapYears
<1>2. clockIsLeapYear(year) <=> year % 4 = 0
  BY LeapYears
<1>3. month \in {1, 2, 3, 4, 5, 6, 7, 8, 9, 10, 11, 12}
  OBVIOUS
<1>4. clockDaysInMonth(month, year) = MonthLength(month, year)
  BY <1>1, <1>2, <1>3 DEF clockDaysInMonth, MonthLength, MonthBits
<1>5. MonthLength(month, year) \in 28 .. 31
  BY <1>3 DEF MonthLength
<1>6. DaysBeforeMonth(month, year) \in 0 .. 335
  BY <1>3 DEF DaysBeforeMonth
<1>7. month = 1 => DaysBeforeMonth(month, year) = 0
  BY <1>3 DEF DaysBeforeMonth
<1>8. month < 12 => DaysBeforeMonth(month + 1, year)
                      = DaysBeforeMonth(month, year) + MonthLength(month, year)
  BY <1>3 DEF DaysBeforeMonth, MonthLength
<1>9. month = 12 => DaysBeforeMonth(month, year) + MonthLength(month, year) = 365 + LeapDay(year)
  BY <1>1, <1>3 DEF DaysBeforeMonth, MonthLength, LeapDay
<1> QED BY <1>4, <1>5, <1>6, <1>7, <1>8, <1>9

LEMMA YearsAdd ==
    ASSUME NEW year \in 0 .. 99
    PROVE  /\ DaysBeforeYear(year) \in Nat
           /\ DaysBeforeYear(0) = 0
           /\ DaysBeforeYear(year + 1) = DaysBeforeYear(year) + 365 + LeapDay(year)
           /\ year < Years => DaysBeforeYear(year + 1) <= DaysBeforeYear(Years)
           /\ DaysBeforeYear(Years) \in Nat \ {0}
<1>1. Years \in 1 .. 100
  BY ConstantsAreNumbers
<1> QED BY <1>1 DEF DaysBeforeYear, LeapDay

\* Where a day of a month is in its year and in its cycle.
LEMMA DayOfMonth ==
    ASSUME NEW year \in 0 .. 99, NEW month \in 1 .. 12, NEW day \in 1 .. MonthLength(month, year)
    PROVE  /\ day \in 1 .. 31
           /\ DaysBeforeMonth(month, year) + day - 1 \in 0 .. 365
           /\ day - 1 + DaysBeforeMonth(month, year) = DaysBeforeMonth(month, year) + day - 1
           /\ DaysBeforeYear(year) + DaysBeforeMonth(month, year) + day - 1
                = DaysBeforeYear(year) + (DaysBeforeMonth(month, year) + day - 1)
<1>1. month \in {1, 2, 3, 4, 5, 6, 7, 8, 9, 10, 11, 12}
  OBVIOUS
<1>2. DaysBeforeMonth(month, year) + MonthLength(month, year) <= 366
  BY <1>1 DEF DaysBeforeMonth, MonthLength
<1>3. /\ MonthLength(month, year) \in 28 .. 31
      /\ DaysBeforeMonth(month, year) \in 0 .. 335
      /\ DaysBeforeYear(year) \in Nat
  BY Months, YearsAdd
<1> QED BY <1>2, <1>3

\* The sum that clockSetNowGmt() adds up is that of the calendar.
LEMMA DaysAreAddedUp ==
    ASSUME NEW year \in 0 .. 99, NEW month \in 1 .. 12
    PROVE  DaysInMonthsBefore(year)[month] = DaysBeforeMonth(month, year)
<1> DEFINE Sum(days) == [m \in 1 .. 12 |-> IF m = 1 THEN 0
                            ELSE days[m - 1] + clockDaysInMonth(m - 1, year)]
           sum == CHOOSE days : days = Sum(days)
           witness == [m \in 1 .. 12 |-> DaysBeforeMonth(m, year)]
<1>1. DaysInMonthsBefore(year) = sum
  BY DEF DaysInMonthsBefore
<1>2. witness = Sum(witness)
  <2>1. ASSUME NEW m \in 1 .. 12
        PROVE  witness[m] = Sum(witness)[m]
    <3>1. CASE m = 1
      BY <3>1, Months
    <3>2. CASE m # 1
      <4>1. m - 1 \in 1 .. 12 /\ m - 1 < 12 /\ (m - 1) + 1 = m
        BY <3>2
      <4>2. DaysBeforeMonth(m, year)
              = DaysBeforeMonth(m - 1, year) + clockDaysInMonth(m - 1, year)
        BY <4>1, Months
      <4> QED BY <3>2, <4>1, <4>2
    <3> QED BY <3>1, <3>2
  <2> QED BY <2>1
<1>3. sum = Sum(sum)
  BY <1>2
<1> HIDE DEF sum
<1>4. /\ sum[1] = 0
      /\ \A m \in 2 .. 12 : sum[m] = sum[m - 1] + clockDaysInMonth(m - 1, year)
  BY <1>3
<1>5. /\ DaysBeforeMonth(1, year) = 0
      /\ \A m \in 2 .. 12 : DaysBeforeMonth(m, year)
                              = DaysBeforeMonth(m - 1, year) + clockDaysInMonth(m - 1, year)
  <2>1. DaysBeforeMonth(1, year) = 0
    BY 1 \in 1 .. 12, Months
  <2>2. ASSUME NEW m \in 2 .. 12
        PROVE  DaysBeforeMonth(m, year)
                 = DaysBeforeMonth(m - 1, year) + clockDaysInMonth(m - 1, year)
    <3>1. m - 1 \in 1 .. 12 /\ m - 1 < 12 /\ (m - 1) + 1 = m
      OBVIOUS
    <3> QED BY <3>1, Months
  <2> QED BY <2>1, <2>2
<1>6. /\ sum[2] = DaysBeforeMonth(2, year) /\ sum[3] = DaysBeforeMonth(3, year)
      /\ sum[4] = DaysBeforeMonth(4, year) /\ sum[5] = DaysBeforeMonth(5, year)
      /\ sum[6] = DaysBeforeMonth(6, year) /\ sum[7] = DaysBeforeMonth(7, year)
      /\ sum[8] = DaysBeforeMonth(8, year) /\ sum[9] = DaysBeforeMonth(9, year)
      /\ sum[10] = DaysBeforeMonth(10, year) /\ sum[11] = DaysBeforeMonth(11, year)
      /\ sum[12] = DaysBeforeMonth(12, year)
  BY <1>4, <1>5
<1>7. month \in {1, 2, 3, 4, 5, 6, 7, 8, 9, 10, 11, 12}
  OBVIOUS
<1> QED BY <1>1, <1>4, <1>5, <1>6, <1>7

-----------------------------------------------------------------------------
(***************************************************************************)
(* The next day.                                                           *)
(***************************************************************************)
Dates == [day : 1 .. 31, month : 1 .. 12, year : 0 .. Years - 1,
          dayOfYear : 0 .. 365, isLeapYear : BOOLEAN]

\* The days of the cycle before a date.
DayNumber(date) ==
    DaysBeforeYear(date.year) + DaysBeforeMonth(date.month, date.year) + date.day - 1

DayOfYearIs(date) == date.dayOfYear = DaysBeforeMonth(date.month, date.year) + date.day - 1

IsGoodDate(date) == date \in Dates /\ IsRealDate(date) /\ DayOfYearIs(date)

Days == DaysBeforeYear(Years)

LEMMA DayNumberIsOfCycle ==
    ASSUME NEW date \in Dates, IsRealDate(date)
    PROVE  DayNumber(date) \in 0 .. Days - 1
<1> DEFINE y == date.year
           m == date.month
<1>1. y \in 0 .. 99 /\ m \in 1 .. 12 /\ y < Years
  BY ConstantsAreNumbers DEF Dates
<1>2. date.day \in 1 .. MonthLength(m, y)
  BY DEF IsRealDate
<1> HIDE DEF y, m
<1>3. DaysBeforeMonth(m, y) + MonthLength(m, y) <= 365 + LeapDay(y)
  <2>1. m \in {1, 2, 3, 4, 5, 6, 7, 8, 9, 10, 11, 12}
    BY <1>1
  <2>2. IsLeap(y) <=> y % 4 = 0
    BY <1>1, LeapYears
  <2> QED BY <2>1, <2>2 DEF DaysBeforeMonth, MonthLength, LeapDay
<1>4. /\ DaysBeforeYear(y) \in Nat /\ DaysBeforeYear(Years) \in Nat
      /\ DaysBeforeYear(y) + 365 + LeapDay(y) <= DaysBeforeYear(Years)
  BY <1>1, YearsAdd
<1>5. LeapDay(y) \in 0 .. 1 /\ MonthLength(m, y) \in 28 .. 31 /\ DaysBeforeMonth(m, y) \in 0 .. 335
  <2>1. MonthLength(m, y) \in 28 .. 31 /\ DaysBeforeMonth(m, y) \in 0 .. 335
    BY <1>1, Months, Zenon
  <2> QED BY <2>1 DEF LeapDay
<1>6. DaysBeforeYear(y) + DaysBeforeMonth(m, y) + date.day - 1 \in 0 .. DaysBeforeYear(Years) - 1
  BY <1>2, <1>3, <1>4, <1>5
<1> QED BY <1>6 DEF DayNumber, Days, y, m

\* The code's next date is the calendar's, but that the last of the cycle's is
\* followed by its first.
LEMMA NextDayFollows ==
    ASSUME NEW date, IsGoodDate(date)
    PROVE  /\ IsGoodDate(NextDate(date))
           /\ (date.isLeapYear <=> IsLeap(date.year))
                => (NextDate(date).isLeapYear <=> IsLeap(NextDate(date).year))
           /\ DayNumber(NextDate(date)) =
                  IF DayNumber(date) + 1 = Days THEN 0 ELSE DayNumber(date) + 1
<1> DEFINE y == date.year
           m == date.month
           next == NextDate(date)
<1>1. /\ y \in 0 .. 99 /\ y < Years /\ m \in 1 .. 12
      /\ Years \in 1 .. 100
      /\ date.day \in 1 .. MonthLength(m, y)
      /\ date.isLeapYear \in BOOLEAN
      /\ date.dayOfYear = DaysBeforeMonth(m, y) + date.day - 1
      /\ date.dayOfYear \in 0 .. 365
  BY ConstantsAreNumbers DEF IsGoodDate, Dates, IsRealDate, DayOfYearIs
<1>2. /\ clockDaysInMonth(m, y) = MonthLength(m, y)
      /\ MonthLength(m, y) \in 28 .. 31
      /\ DaysBeforeMonth(m, y) \in 0 .. 335
      /\ m < 12 => DaysBeforeMonth(m + 1, y) = DaysBeforeMonth(m, y) + MonthLength(m, y)
      /\ m = 12 => DaysBeforeMonth(m, y) + MonthLength(m, y) = 365 + LeapDay(y)
  <2>1. y \in 0 .. 99 /\ m \in 1 .. 12
    BY <1>1
  <2> HIDE DEF y, m
  <2> QED BY <2>1, Months, Zenon
<1>3. DayNumber(date) \in 0 .. Days - 1 /\ DayNumber(date) = DaysBeforeYear(y) + date.dayOfYear
  <2>1. DayNumber(date) \in 0 .. Days - 1
    BY DayNumberIsOfCycle DEF IsGoodDate
  <2> DEFINE d == date.day
             before == DaysBeforeMonth(m, y)
             years == DaysBeforeYear(y)
  <2>2. y \in 0 .. 99 /\ m \in 1 .. 12 /\ d \in 1 .. MonthLength(m, y)
    BY <1>1
  <2>3. DayNumber(date) = years + before + d - 1
    BY DEF DayNumber
  <2>4. date.dayOfYear = before + d - 1
    BY <1>1
  <2>5. years + before + d - 1 = years + (before + d - 1)
    <3> HIDE DEF y, m, d
    <3> QED BY <2>2, DayOfMonth, Zenon
  <2>6. DayNumber(date) = years + date.dayOfYear
    <3> HIDE DEF d, before, years
    <3> QED BY <2>3, <2>4, <2>5, Zenon
  <2> QED BY <2>1, <2>6
<1>4. CASE ~EndsMonth(date)
  <2>1. /\ next.day = date.day + 1 /\ next.month = m /\ next.year = y
        /\ next.dayOfYear = (date.dayOfYear + 1) % 2^16
        /\ next.isLeapYear = date.isLeapYear
        /\ next = [day |-> next.day, month |-> next.month, year |-> next.year,
                   dayOfYear |-> next.dayOfYear, isLeapYear |-> next.isLeapYear]
    BY <1>4 DEF NextDate, EndsYear
  <2>2. date.day + 1 \in 1 .. MonthLength(m, y)
    <3>1. \A length \in 28 .. 31 : \A d \in 1 .. length : d # length => d + 1 \in 1 .. length
      OBVIOUS
    <3>2. date.day # MonthLength(m, y)
      BY <1>2, <1>4 DEF EndsMonth
    <3> QED BY <1>1, <1>2, <3>1, <3>2, Zenon
  <2> HIDE DEF next
  <2>3. next.dayOfYear = date.dayOfYear + 1
    BY <1>1, <2>1, 2^16 = 65536
  <2>4. date.dayOfYear + 1 = DaysBeforeMonth(m, y) + (date.day + 1) - 1
    BY <1>1, <1>2
  <2>5. date.dayOfYear + 1 \in 0 .. 365
    <3>1. DaysBeforeMonth(m, y) + MonthLength(m, y) <= 366
      <4>1. m \in {1, 2, 3, 4, 5, 6, 7, 8, 9, 10, 11, 12}
        BY <1>1
      <4> QED BY <4>1 DEF DaysBeforeMonth, MonthLength
    <3>2. date.day + 1 <= MonthLength(m, y) /\ date.day \in Int
      BY <1>1, <1>2, <2>2
    <3>3. date.dayOfYear + 1 <= 365
      BY <1>1, <1>2, <2>4, <3>1, <3>2
    <3>4. date.dayOfYear \in 0 .. 365
      BY <1>1
    <3>5. \A d \in 0 .. 365 : d + 1 <= 365 => d + 1 \in 0 .. 365
      OBVIOUS
    <3> QED BY <3>3, <3>4, <3>5
  <2>6. next \in Dates
    <3>1. date.day + 1 \in 1 .. 31
      BY <1>2, <2>2
    <3> QED BY <1>1, <2>1, <2>3, <2>5, <3>1 DEF Dates
  <2>7. IsRealDate(next) /\ DayOfYearIs(next)
    BY <1>1, <2>1, <2>2, <2>3, <2>4 DEF IsRealDate, DayOfYearIs
  <2>8. DayNumber(next) = DayNumber(date) + 1
    <3>1. DaysBeforeYear(y) \in Nat
      BY <1>1, YearsAdd
    <3> QED BY <1>1, <1>2, <1>3, <2>1, <3>1 DEF DayNumber
  <2>9. DayNumber(next) \in 0 .. Days - 1
    BY <2>6, <2>7, DayNumberIsOfCycle
  <2> QED BY <1>3, <2>1, <2>6, <2>7, <2>8, <2>9 DEF IsGoodDate, next
<1>5. CASE EndsMonth(date) /\ m # 12
  <2>1. /\ next.day = 1 /\ next.month = m + 1 /\ next.year = y
        /\ next.dayOfYear = (date.dayOfYear + 1) % 2^16
        /\ next.isLeapYear = date.isLeapYear
        /\ next = [day |-> next.day, month |-> next.month, year |-> next.year,
                   dayOfYear |-> next.dayOfYear, isLeapYear |-> next.isLeapYear]
    BY <1>5 DEF NextDate, EndsYear
  <2>2. date.day = MonthLength(m, y)
    BY <1>2, <1>5 DEF EndsMonth
  <2> HIDE DEF next
  <2>3. m < 12 /\ m + 1 \in 1 .. 12
    BY <1>1, <1>5
  <2>4. MonthLength(m + 1, y) \in 28 .. 31 /\ DaysBeforeMonth(m + 1, y) \in 0 .. 335
    BY <1>1, <2>3, Months
  <2>5. /\ next.dayOfYear = DaysBeforeMonth(m + 1, y) /\ next.dayOfYear = date.dayOfYear + 1
        /\ next.dayOfYear \in 0 .. 365
    BY <1>1, <1>2, <2>1, <2>2, <2>3, <2>4, 2^16 = 65536
  <2>6. next \in Dates
    BY <1>1, <2>1, <2>3, <2>5 DEF Dates
  <2>7. IsRealDate(next) /\ DayOfYearIs(next)
    BY <1>1, <2>1, <2>3, <2>4, <2>5 DEF IsRealDate, DayOfYearIs
  <2>8. DayNumber(next) = DayNumber(date) + 1
    <3>1. DaysBeforeYear(y) \in Nat
      BY <1>1, YearsAdd
    <3> QED BY <1>1, <1>2, <1>3, <2>1, <2>4, <2>5, <3>1 DEF DayNumber
  <2>9. DayNumber(next) \in 0 .. Days - 1
    BY <2>6, <2>7, DayNumberIsOfCycle
  <2> QED BY <1>3, <2>1, <2>6, <2>7, <2>8, <2>9 DEF IsGoodDate, next
<1>6. CASE EndsMonth(date) /\ m = 12
  <2> DEFINE newYear == NextYear(date)
  <2>1. /\ next.day = 1 /\ next.month = 1 /\ next.year = newYear
        /\ next.dayOfYear = (UINT16_MAX + 1) % 2^16
        /\ next.isLeapYear = clockIsLeapYear(newYear)
        /\ next = [day |-> next.day, month |-> next.month, year |-> next.year,
                   dayOfYear |-> next.dayOfYear, isLeapYear |-> next.isLeapYear]
    BY <1>6 DEF NextDate, EndsYear
  <2>2. date.day = MonthLength(m, y)
    BY <1>2, <1>6 DEF EndsMonth
  <2>3. newYear = IF y + 1 = Years THEN 0 ELSE y + 1
    <3>1. \A k \in 0 .. 99, n \in 1 .. 100 :
              k < n => (k + 1) % n = IF k + 1 = n THEN 0 ELSE k + 1
      BY WrapsOnce
    <3>2. newYear = (y + 1) % Years
      BY DEF NextYear
    <3> QED BY <1>1, <3>1, <3>2
  <2> HIDE DEF next, newYear
  <2>4. newYear \in 0 .. Years - 1 /\ newYear \in 0 .. 99
    BY <1>1, <2>3
  <2>5. next.dayOfYear = 0
    BY <2>1, 2^16 = 65536 DEF UINT16_MAX
  <2>6. DaysBeforeMonth(1, newYear) = 0 /\ MonthLength(1, newYear) = 31
    BY DEF DaysBeforeMonth, MonthLength
  <2>7. clockIsLeapYear(newYear) \in BOOLEAN /\ (clockIsLeapYear(newYear) <=> IsLeap(newYear))
    BY <2>4, LeapYears DEF clockIsLeapYear
  <2>8. next \in Dates
    BY <2>1, <2>4, <2>5, <2>7 DEF Dates
  <2>9. IsRealDate(next) /\ DayOfYearIs(next)
    BY <2>1, <2>4, <2>5, <2>6 DEF IsRealDate, DayOfYearIs
  <2>10. /\ DaysBeforeYear(y) \in Nat /\ DaysBeforeYear(0) = 0 /\ Days \in Nat \ {0}
         /\ DaysBeforeYear(y + 1) = DaysBeforeYear(y) + 365 + LeapDay(y)
    BY <1>1, YearsAdd DEF Days
  <2>11. DayNumber(date) + 1 = DaysBeforeYear(y + 1)
    <3>1. LeapDay(y) \in 0 .. 1
      BY DEF LeapDay
    <3> QED BY <1>1, <1>2, <1>3, <1>6, <2>2, <2>10, <3>1
  <2>12. DayNumber(next) = DaysBeforeYear(newYear)
    <3>1. DaysBeforeYear(newYear) \in Nat
      BY <2>4, YearsAdd
    <3> QED BY <2>1, <2>6, <3>1 DEF DayNumber
  <2>13. DayNumber(next) \in 0 .. Days - 1
    BY <2>8, <2>9, DayNumberIsOfCycle
  <2>14. DayNumber(next) = IF DayNumber(date) + 1 = Days THEN 0 ELSE DayNumber(date) + 1
    <3>1. CASE y + 1 = Years
      BY <2>3, <2>10, <2>11, <2>12, <3>1 DEF Days
    <3>2. CASE y + 1 # Years
      BY <1>1, <1>3, <2>3, <2>10, <2>11, <2>12, <2>13, <3>2
    <3> QED BY <3>1, <3>2
  <2> QED BY <2>1, <2>7, <2>8, <2>9, <2>14 DEF IsGoodDate, next
<1> QED BY <1>4, <1>5, <1>6

\* A date that is set is one to count on from.
LEMMA SetDateIsGood ==
    ASSUME NEW date, IsRealDate(date), date.year \in 0 .. Years - 1
    PROVE  /\ IsGoodDate(FullDate(date))
           /\ FullDate(date).isLeapYear <=> IsLeap(date.year)
           /\ DayNumber(FullDate(date)) = DayNumber(date)
<1> DEFINE y == date.year
           m == date.month
           full == FullDate(date)
<1>1. /\ y \in 0 .. 99 /\ m \in 1 .. 12 /\ Years \in 1 .. 100
      /\ date.day \in 1 .. MonthLength(m, y)
  BY ConstantsAreNumbers DEF IsRealDate
<1>2. DaysInMonthsBefore(y)[m] = DaysBeforeMonth(m, y)
  BY <1>1, DaysAreAddedUp
<1>3. full = [day |-> date.day, month |-> m, year |-> y,
              dayOfYear |-> date.day - 1 + DaysBeforeMonth(m, y),
              isLeapYear |-> clockIsLeapYear(y)]
  BY <1>2 DEF FullDate
<1>4. /\ MonthLength(m, y) \in 28 .. 31 /\ DaysBeforeMonth(m, y) \in 0 .. 335
      /\ DaysBeforeMonth(m, y) + MonthLength(m, y) <= 366
  <2>1. m \in {1, 2, 3, 4, 5, 6, 7, 8, 9, 10, 11, 12}
    BY <1>1
  <2> QED BY <2>1 DEF DaysBeforeMonth, MonthLength
<1>5. date.day - 1 + DaysBeforeMonth(m, y) \in 0 .. 365 /\ date.day \in 1 .. 31
  <2> DEFINE d == date.day
  <2>1. y \in 0 .. 99 /\ m \in 1 .. 12 /\ d \in 1 .. MonthLength(m, y)
    BY <1>1
  <2>2. d - 1 + DaysBeforeMonth(m, y) \in 0 .. 365 /\ d \in 1 .. 31
    <3> HIDE DEF y, m, d
    <3>1. d \in 1 .. 31
      BY <2>1, DayOfMonth, Zenon
    <3>2. DaysBeforeMonth(m, y) + d - 1 \in 0 .. 365
      BY <2>1, DayOfMonth, Zenon
    <3>3. d - 1 + DaysBeforeMonth(m, y) = DaysBeforeMonth(m, y) + d - 1
      BY <2>1, DayOfMonth, Zenon
    <3> QED BY <3>1, <3>2, <3>3, Zenon
  <2> QED BY <2>2
<1>6. clockIsLeapYear(y) \in BOOLEAN /\ (clockIsLeapYear(y) <=> IsLeap(y))
  BY <1>1, LeapYears DEF clockIsLeapYear
<1> HIDE DEF full
<1>7. full \in Dates
  BY <1>1, <1>3, <1>5, <1>6 DEF Dates
<1>8. IsRealDate(full) /\ DayOfYearIs(full) /\ DayNumber(full) = DayNumber(date)
  BY <1>1, <1>3, <1>4 DEF IsRealDate, DayOfYearIs, DayNumber
<1> QED BY <1>3, <1>6, <1>7, <1>8 DEF IsGoodDate, full
-----------------------------------------------------------------------------
(***************************************************************************)
(* The next minute, and the next second.                                   *)
(***************************************************************************)
MinuteNumber(time) == time.hour * MinutesPerHour + time.minute
MinutesPerDay == HoursPerDay * MinutesPerHour

IsGoodTime(time) == time.hour \in 0 .. HoursPerDay - 1 /\ time.minute \in 0 .. MinutesPerHour - 1

EndsDay(time) == time.minute + 1 = MinutesPerHour /\ time.hour + 1 = HoursPerDay

LEMMA Products ==
    ASSUME NEW a \in Nat, NEW b \in Nat
    PROVE  /\ a * b \in Nat
           /\ (a + 1) * b = a * b + b
           /\ \A c \in Nat : a <= c => a * b <= c * b
OBVIOUS

LEMMA MinuteNumberIsOfDay ==
    ASSUME NEW time, IsGoodTime(time)
    PROVE  /\ MinutesPerDay \in Nat \ {0}
           /\ MinuteNumber(time) \in 0 .. MinutesPerDay - 1
           /\ EndsDay(time) => MinuteNumber(time) + 1 = MinutesPerDay
<1> DEFINE h == time.hour
           m == time.minute
<1>1. /\ h \in Nat /\ m \in Nat /\ HoursPerDay \in Nat \ {0} /\ MinutesPerHour \in Nat \ {0}
      /\ h + 1 <= HoursPerDay /\ m + 1 <= MinutesPerHour
  BY ConstantsAreNumbers DEF IsGoodTime
<1>2. EndsDay(time) => h + 1 = HoursPerDay /\ m + 1 = MinutesPerHour
  BY DEF EndsDay
<1>3. MinuteNumber(time) = h * MinutesPerHour + m
  BY DEF MinuteNumber
<1> HIDE DEF h, m
<1>4. h * MinutesPerHour \in Nat /\ (h + 1) * MinutesPerHour = h * MinutesPerHour + MinutesPerHour
  BY <1>1, Products
<1>5. (h + 1) * MinutesPerHour <= MinutesPerDay /\ MinutesPerDay \in Nat
  BY <1>1, Products DEF MinutesPerDay
<1>6. h + 1 = HoursPerDay => (h + 1) * MinutesPerHour = MinutesPerDay
  BY DEF MinutesPerDay
<1> QED BY <1>1, <1>2, <1>3, <1>4, <1>5, <1>6

LEMMA NextMinuteFollows ==
    ASSUME NEW now, IsGoodTime(now.time)
    PROVE  LET after == Ticked(now).time
           IN  /\ IsGoodTime(after)
               /\ MinuteNumber(after) = IF EndsDay(now.time) THEN 0 ELSE MinuteNumber(now.time) + 1
               /\ after.second = TMR0L
               /\ Ticked(now).date = IF EndsDay(now.time) THEN NextDate(now.date) ELSE now.date
<1> DEFINE h == now.time.hour
           m == now.time.minute
           after == Ticked(now).time
<1>1. /\ h \in Nat /\ m \in Nat /\ HoursPerDay \in Nat \ {0} /\ MinutesPerHour \in Nat \ {0}
      /\ h + 1 <= HoursPerDay /\ m + 1 <= MinutesPerHour
  BY ConstantsAreNumbers DEF IsGoodTime
<1>2. /\ after.second = TMR0L
      /\ after.minute = IF m + 1 = MinutesPerHour THEN 0 ELSE m + 1
      /\ after.hour = IF m + 1 = MinutesPerHour
                        THEN IF h + 1 = HoursPerDay THEN 0 ELSE h + 1 ELSE h
      /\ Ticked(now).date = IF EndsDay(now.time) THEN NextDate(now.date) ELSE now.date
  BY DEF Ticked, EndsDay
<1>3. /\ EndsDay(now.time) <=> h + 1 = HoursPerDay /\ m + 1 = MinutesPerHour
      /\ MinuteNumber(now.time) = h * MinutesPerHour + m
      /\ MinuteNumber(after) = after.hour * MinutesPerHour + after.minute
      /\ IsGoodTime(after) <=> /\ after.hour \in 0 .. HoursPerDay - 1
                               /\ after.minute \in 0 .. MinutesPerHour - 1
  BY DEF EndsDay, MinuteNumber, IsGoodTime
<1> HIDE DEF h, m, after
<1>4. /\ h * MinutesPerHour \in Nat /\ 0 * MinutesPerHour = 0
      /\ (h + 1) * MinutesPerHour = h * MinutesPerHour + MinutesPerHour
  BY <1>1, Products
<1>5. CASE m + 1 # MinutesPerHour
  BY <1>1, <1>2, <1>3, <1>4, <1>5 DEF after
<1>6. CASE m + 1 = MinutesPerHour /\ h + 1 # HoursPerDay
  BY <1>1, <1>2, <1>3, <1>4, <1>6 DEF after
<1>7. CASE m + 1 = MinutesPerHour /\ h + 1 = HoursPerDay
  BY <1>1, <1>2, <1>3, <1>4, <1>7 DEF after
<1> QED BY <1>5, <1>6, <1>7

\* A second of the cycle by its day, its minute of the day and its second.
Instant(day, minute, second) == day * SecondsPerDay + minute * SecondsPerMinute + second

LEMMA SecondOfIsInstant ==
    ASSUME NEW date, NEW time, NEW second
    PROVE  SecondOf(date, time, second) = Instant(DayNumber(date), MinuteNumber(time), second)
BY DEF SecondOf, Instant, DayNumber, MinuteNumber

LEMMA InstantIsOfCycle ==
    ASSUME NEW day \in 0 .. Days - 1, NEW minute \in 0 .. MinutesPerDay - 1,
           NEW second \in 0 .. SecondsPerMinute - 1
    PROVE  /\ Instant(day, minute, second) \in 0 .. Cycle - 1
           /\ SecondsPerMinute <= Cycle /\ Cycle \in Nat \ {0}
           /\ Instant(day, minute, second) + SecondsPerMinute =
                  IF minute + 1 # MinutesPerDay THEN Instant(day, minute + 1, second)
                  ELSE IF day + 1 # Days THEN Instant(day + 1, 0, second)
                  ELSE Instant(0, 0, second) + Cycle
<1>1. /\ SecondsPerMinute \in Nat \ {0} /\ HoursPerDay \in Nat /\ MinutesPerHour \in Nat
      /\ Days \in Nat \ {0} /\ MinutesPerDay \in Nat
  BY ConstantsAreNumbers, YearsAdd DEF Days, MinutesPerDay
<1>2. SecondsPerDay = MinutesPerDay * SecondsPerMinute /\ Cycle = Days * SecondsPerDay
  BY DEF SecondsPerDay, MinutesPerDay, Cycle, Days
<1>3. /\ minute * SecondsPerMinute \in Nat
      /\ (minute + 1) * SecondsPerMinute = minute * SecondsPerMinute + SecondsPerMinute
      /\ (minute + 1) * SecondsPerMinute <= SecondsPerDay
      /\ SecondsPerDay \in Nat /\ 0 * SecondsPerMinute = 0
  BY <1>1, <1>2, Products
<1>4. /\ day * SecondsPerDay \in Nat
      /\ (day + 1) * SecondsPerDay = day * SecondsPerDay + SecondsPerDay
      /\ (day + 1) * SecondsPerDay <= Cycle
      /\ Cycle \in Nat /\ 0 * SecondsPerDay = 0
  BY <1>1, <1>2, <1>3, Products
<1>5. minute + 1 = MinutesPerDay => (minute + 1) * SecondsPerMinute = SecondsPerDay
  BY <1>2
<1>6. day + 1 = Days => (day + 1) * SecondsPerDay = Cycle
  BY <1>2
<1>7. SecondsPerMinute <= Cycle /\ Cycle \in Nat \ {0}
  BY <1>1, <1>3, <1>4
<1>8. Instant(day, minute, second) \in 0 .. Cycle - 1
  BY <1>1, <1>3, <1>4 DEF Instant
<1>9. Instant(day, minute, second) + SecondsPerMinute =
          IF minute + 1 # MinutesPerDay THEN Instant(day, minute + 1, second)
          ELSE IF day + 1 # Days THEN Instant(day + 1, 0, second)
          ELSE Instant(0, 0, second) + Cycle
  BY <1>1, <1>3, <1>4, <1>5, <1>6 DEF Instant
<1> QED BY <1>7, <1>8, <1>9
-----------------------------------------------------------------------------
(***************************************************************************)
(* The invariant.                                                          *)
(***************************************************************************)
TypesInv ==
    /\ clockNow \in [time : [second : Int, minute : 0 .. MinutesPerHour - 1,
                            hour : 0 .. HoursPerDay - 1], date : Dates]
    /\ TMR0L \in 0 .. SecondsPerMinute - 1
    /\ TMR0IF \in BOOLEAN
    /\ instant \in 0 .. Cycle - 1

DateInv ==
    /\ IsRealDate(clockNow.date)
    /\ DayOfYearIs(clockNow.date)
    /\ clockNow.date.isLeapYear <=> IsLeap(clockNow.date.year)

\* The time that is kept, the minute not yet noticed included.
Kept == SecondOf(clockNow.date, clockNow.time, TMR0L) + (IF TMR0IF THEN SecondsPerMinute ELSE 0)

\* It may be past the end of the cycle, when the last minute is not noticed yet.
KeptInv == Kept = instant \/ Kept = instant + Cycle

IInv == TypesInv /\ DateInv /\ KeptInv

LEMMA SecondIsOfCycle ==
    ASSUME NEW date \in Dates, IsRealDate(date), NEW time, IsGoodTime(time),
           NEW second \in 0 .. SecondsPerMinute - 1
    PROVE  /\ SecondOf(date, time, second) \in 0 .. Cycle - 1
           /\ SecondsPerMinute <= Cycle /\ Cycle \in Nat \ {0}
<1>1. DayNumber(date) \in 0 .. Days - 1
  BY DayNumberIsOfCycle
<1>2. MinuteNumber(time) \in 0 .. MinutesPerDay - 1
  BY MinuteNumberIsOfDay
<1> QED BY <1>1, <1>2, SecondOfIsInstant, InstantIsOfCycle

LEMMA SecondsAreAdded ==
    ASSUME NEW date \in Dates, IsRealDate(date), NEW time, IsGoodTime(time), NEW second \in Int
    PROVE  /\ SecondOf(date, time, 0) \in Int
           /\ SecondOf(date, time, second) = SecondOf(date, time, 0) + second
<1>1. DayNumber(date) \in 0 .. Days - 1 /\ MinuteNumber(time) \in 0 .. MinutesPerDay - 1
  BY DayNumberIsOfCycle, MinuteNumberIsOfDay
<1> DEFINE day == DayNumber(date)
           minute == MinuteNumber(time)
<1>2. /\ SecondOf(date, time, second) = Instant(day, minute, second)
      /\ SecondOf(date, time, 0) = Instant(day, minute, 0)
  BY SecondOfIsInstant
<1>3. day \in Nat /\ minute \in Nat
  BY <1>1
<1>4. SecondsPerDay \in Nat /\ SecondsPerMinute \in Nat
  BY ConstantsAreNumbers, Products DEF SecondsPerDay
<1> HIDE DEF day, minute
<1>5. day * SecondsPerDay \in Nat /\ minute * SecondsPerMinute \in Nat
  BY <1>3, <1>4, Products
<1> QED BY <1>2, <1>5 DEF Instant

\* Where the clock is, as far as the arithmetic needs it.
LEMMA KeptIsInRange ==
    ASSUME TypesInv, DateInv
    PROVE  /\ IsGoodTime(clockNow.time) /\ IsGoodDate(clockNow.date)
           /\ SecondOf(clockNow.date, clockNow.time, TMR0L) \in 0 .. Cycle - 1
           /\ Cycle \in Nat \ {0} /\ SecondsPerMinute \in Nat \ {0}
           /\ SecondsPerMinute <= Cycle
           /\ Kept \in 0 .. 2 * Cycle - 1
<1>1. IsGoodTime(clockNow.time) /\ IsGoodDate(clockNow.date) /\ clockNow.date \in Dates
  BY DEF TypesInv, DateInv, IsGoodTime, IsGoodDate
<1>2. /\ SecondOf(clockNow.date, clockNow.time, TMR0L) \in 0 .. Cycle - 1
      /\ Cycle \in Nat \ {0} /\ SecondsPerMinute <= Cycle
  BY <1>1, SecondIsOfCycle DEF TypesInv, IsGoodDate
<1>3. SecondsPerMinute \in Nat \ {0}
  BY ConstantsAreNumbers
<1>4. Kept \in 0 .. 2 * Cycle - 1
  BY <1>2, <1>3 DEF Kept
<1> QED BY <1>1, <1>2, <1>3, <1>4

\* A minute noticed is what the flag stood for.
LEMMA TickedKeeps ==
    ASSUME IInv, TMR0IF, clockTicked, TMR0IF' = FALSE, UNCHANGED <<TMR0L, instant>>
    PROVE  IInv'
<1> DEFINE day == DayNumber(clockNow.date)
           minute == MinuteNumber(clockNow.time)
           time == Ticked(clockNow).time
           date == Ticked(clockNow).date
<1>1. /\ IsGoodTime(clockNow.time) /\ IsGoodDate(clockNow.date) /\ clockNow.date \in Dates
      /\ IsRealDate(clockNow.date)
      /\ TMR0L \in 0 .. SecondsPerMinute - 1 /\ instant \in 0 .. Cycle - 1
      /\ Cycle \in Nat \ {0} /\ SecondsPerMinute \in Nat \ {0}
  BY KeptIsInRange DEF IInv, TypesInv, DateInv, IsGoodDate
<1>2. clockNow' = [time |-> time, date |-> date]
  BY DEF clockTicked, Ticked
<1>3. /\ IsGoodTime(time) /\ time.second = TMR0L
      /\ MinuteNumber(time) = IF EndsDay(clockNow.time) THEN 0 ELSE minute + 1
      /\ date = IF EndsDay(clockNow.time) THEN NextDate(clockNow.date) ELSE clockNow.date
  BY <1>1, NextMinuteFollows
<1>4. time \in [second : Int, minute : 0 .. MinutesPerHour - 1, hour : 0 .. HoursPerDay - 1]
  <2>1. /\ time.second \in Int /\ time.minute \in 0 .. MinutesPerHour - 1
        /\ time.hour \in 0 .. HoursPerDay - 1
    BY <1>1, <1>3 DEF IsGoodTime
  <2>2. time = [second |-> time.second, minute |-> time.minute, hour |-> time.hour]
    BY DEF Ticked
  <2> HIDE DEF time
  <2> QED BY <2>1, <2>2
<1>5. /\ IsGoodDate(date) /\ (date.isLeapYear <=> IsLeap(date.year))
      /\ DayNumber(date) = IF ~EndsDay(clockNow.time) THEN day
                           ELSE IF day + 1 = Days THEN 0 ELSE day + 1
  BY <1>1, <1>3, NextDayFollows DEF IInv, DateInv
<1>6. /\ day \in 0 .. Days - 1 /\ minute \in 0 .. MinutesPerDay - 1
      /\ MinutesPerDay \in Nat \ {0} /\ Days \in Nat \ {0}
      /\ EndsDay(clockNow.time) => minute + 1 = MinutesPerDay
  BY <1>1, DayNumberIsOfCycle, MinuteNumberIsOfDay, YearsAdd DEF Days
<1>7. ~EndsDay(clockNow.time) => minute + 1 # MinutesPerDay
  <2>1. MinuteNumber(time) \in 0 .. MinutesPerDay - 1
    BY <1>3, MinuteNumberIsOfDay
  <2> HIDE DEF minute, time
  <2> QED BY <1>3, <1>6, <2>1
<1>8. Kept = Instant(day, minute, TMR0L) + SecondsPerMinute
  <2>1. SecondOf(clockNow.date, clockNow.time, TMR0L) = Instant(day, minute, TMR0L)
    BY SecondOfIsInstant
  <2> QED BY <2>1 DEF Kept
<1> HIDE DEF day, minute, time, date
<1>9. Kept' = Instant(DayNumber(date), MinuteNumber(time), TMR0L)
  <2>1. clockNow'.date = date /\ clockNow'.time = time /\ TMR0L' = TMR0L
    BY <1>2
  <2>2. SecondOf(date, time, TMR0L) = Instant(DayNumber(date), MinuteNumber(time), TMR0L)
    BY SecondOfIsInstant
  <2>3. Instant(DayNumber(date), MinuteNumber(time), TMR0L) \in Int
    BY <1>1, <1>3, <1>5, DayNumberIsOfCycle, MinuteNumberIsOfDay, InstantIsOfCycle DEF IsGoodDate
  <2>4. Kept' = SecondOf(date, time, TMR0L) + 0
    BY <2>1 DEF Kept
  <2> QED BY <2>2, <2>3, <2>4
<1>10. Kept = IF EndsDay(clockNow.time) /\ day + 1 = Days THEN Kept' + Cycle ELSE Kept'
  <2>1. Kept = IF minute + 1 # MinutesPerDay THEN Instant(day, minute + 1, TMR0L)
               ELSE IF day + 1 # Days THEN Instant(day + 1, 0, TMR0L)
               ELSE Instant(0, 0, TMR0L) + Cycle
    BY <1>1, <1>6, <1>8, InstantIsOfCycle
  <2>2. CASE ~EndsDay(clockNow.time)
    BY <1>3, <1>5, <1>7, <1>9, <2>1, <2>2
  <2>3. CASE EndsDay(clockNow.time) /\ day + 1 = Days
    BY <1>3, <1>5, <1>6, <1>9, <2>1, <2>3
  <2>4. CASE EndsDay(clockNow.time) /\ day + 1 # Days
    BY <1>3, <1>5, <1>6, <1>9, <2>1, <2>4
  <2> QED BY <2>2, <2>3, <2>4
<1>11. TypesInv' /\ DateInv'
  BY <1>1, <1>2, <1>4, <1>5 DEF TypesInv, DateInv, IsGoodDate
<1>12. KeptInv'
  <2>1. Kept \in 0 .. 2 * Cycle - 1 /\ Kept' \in 0 .. Cycle - 1
    <3>1. Kept \in 0 .. 2 * Cycle - 1
      BY KeptIsInRange DEF IInv
    <3>2. Kept' \in 0 .. Cycle - 1
      BY <1>1, <1>3, <1>5, <1>9, DayNumberIsOfCycle, MinuteNumberIsOfDay, InstantIsOfCycle
         DEF IsGoodDate
    <3> QED BY <3>1, <3>2
  <2>2. Kept = Kept' \/ Kept = Kept' + Cycle
    BY <1>10
  <2>3. /\ Kept = instant \/ Kept = instant + Cycle
        /\ instant \in 0 .. Cycle - 1 /\ Cycle \in Nat
    BY <1>1 DEF IInv, KeptInv
  <2>4. Kept' = instant \/ Kept' = instant + Cycle
    <3>1. \A cycle \in Nat : \A now \in 0 .. cycle - 1, after \in 0 .. cycle - 1,
                                before \in 0 .. 2 * cycle - 1 :
              /\ before = after \/ before = after + cycle
              /\ before = now \/ before = now + cycle
              => after = now \/ after = now + cycle
      OBVIOUS
    <3> QED BY <2>1, <2>2, <2>3, <3>1, Zenon
  <2>5. instant' = instant
    OBVIOUS
  <2> QED BY <2>4, <2>5 DEF KeptInv
<1> QED BY <1>11, <1>12 DEF IInv

\* A second counts for itself, or with the flag for the minute that it ends.
LEMMA TimerKeeps ==
    ASSUME IInv, TimerCounts
    PROVE  IInv'
<1> DEFINE minute == SecondOf(clockNow.date, clockNow.time, 0)
<1>1. /\ TMR0L \in 0 .. SecondsPerMinute - 1 /\ SecondsPerMinute \in Nat \ {0}
      /\ instant \in 0 .. Cycle - 1 /\ Cycle \in Nat \ {0} /\ TMR0IF \in BOOLEAN
      /\ Kept = instant \/ Kept = instant + Cycle
  BY KeptIsInRange DEF IInv, TypesInv, KeptInv
<1>2. /\ TMR0L' = IF TMR0L + 1 = SecondsPerMinute THEN 0 ELSE TMR0L + 1
      /\ instant' = IF instant + 1 = Cycle THEN 0 ELSE instant + 1
  <2>1. \A cycle \in Nat \ {0} : \A n \in 0 .. cycle - 1 :
            (n + 1) % cycle = IF n + 1 = cycle THEN 0 ELSE n + 1
    BY WrapsOnce
  <2>2. TMR0L' = (TMR0L + 1) % SecondsPerMinute /\ instant' = (instant + 1) % Cycle
    BY DEF TimerCounts
  <2> QED BY <1>1, <2>1, <2>2
<1>3. /\ TMR0L' = 0 => ~TMR0IF
      /\ TMR0IF' = (TMR0IF \/ TMR0L' = 0)
      /\ clockNow' = clockNow
  BY DEF TimerCounts
<1>4. TypesInv' /\ DateInv'
  <2>1. TMR0L' \in 0 .. SecondsPerMinute - 1 /\ instant' \in 0 .. Cycle - 1
    BY <1>1, <1>2
  <2>2. TMR0IF' \in BOOLEAN
    BY <1>3
  <2> QED BY <1>3, <2>1, <2>2 DEF IInv, TypesInv, DateInv
<1>5. /\ minute \in Int
      /\ SecondOf(clockNow.date, clockNow.time, TMR0L) = minute + TMR0L
      /\ SecondOf(clockNow.date, clockNow.time, TMR0L)' = minute + TMR0L'
  <2>1. \A second \in Int : SecondOf(clockNow.date, clockNow.time, second) = minute + second
    BY KeptIsInRange, SecondsAreAdded DEF IInv, IsGoodDate
  <2>2. SecondOf(clockNow.date, clockNow.time, TMR0L)'
          = SecondOf(clockNow.date, clockNow.time, TMR0L')
    BY <1>3 DEF SecondOf
  <2>3. minute \in Int
    BY KeptIsInRange, SecondsAreAdded DEF IInv, IsGoodDate
  <2>4. TMR0L \in Int /\ TMR0L' \in Int
    BY <1>1, <1>4 DEF TypesInv
  <2> HIDE DEF minute
  <2> QED BY <2>1, <2>2, <2>3, <2>4
<1> HIDE DEF minute
<1>6. Kept' = Kept + 1
  <2>1. /\ Kept = minute + TMR0L + (IF TMR0IF THEN SecondsPerMinute ELSE 0)
        /\ Kept' = minute + TMR0L' + (IF TMR0IF' THEN SecondsPerMinute ELSE 0)
    BY <1>5 DEF Kept
  <2>2. /\ TMR0L \in Int /\ TMR0L' \in Int /\ SecondsPerMinute \in Int /\ minute \in Int
        /\ TMR0L + 1 # 0
    BY <1>1, <1>4, <1>5 DEF TypesInv
  <2>3. CASE TMR0L + 1 = SecondsPerMinute
    <3>1. TMR0L' = 0 /\ ~TMR0IF /\ TMR0IF'
      BY <1>2, <1>3, <2>3
    <3> QED BY <2>1, <2>2, <2>3, <3>1
  <2>4. CASE TMR0L + 1 # SecondsPerMinute
    <3>1. TMR0L' = TMR0L + 1 /\ (TMR0IF' <=> TMR0IF)
      BY <1>2, <1>3, <2>2, <2>4
    <3> QED BY <2>1, <2>2, <3>1
  <2> QED BY <2>3, <2>4
<1>7. Kept' \in 0 .. 2 * Cycle - 1
  <2>1. minute + TMR0L' \in 0 .. Cycle - 1 /\ SecondsPerMinute <= Cycle
    <3>1. /\ clockNow.date \in Dates /\ IsRealDate(clockNow.date) /\ IsGoodTime(clockNow.time)
          /\ TMR0L' \in 0 .. SecondsPerMinute - 1 /\ TMR0L' \in Int
      BY <1>1, <1>4, KeptIsInRange DEF IInv, TypesInv, IsGoodDate
    <3>2. SecondOf(clockNow.date, clockNow.time, TMR0L') = minute + TMR0L'
      BY <3>1, SecondsAreAdded DEF minute
    <3> QED BY <3>1, <3>2, SecondIsOfCycle
  <2>2. Kept' = minute + TMR0L' + (IF TMR0IF' THEN SecondsPerMinute ELSE 0)
    BY <1>5 DEF Kept
  <2> QED BY <1>1, <2>1, <2>2
<1>8. KeptInv'
  BY <1>1, <1>2, <1>6, <1>7 DEF KeptInv
<1> QED BY <1>4, <1>8 DEF IInv

\* Reading puts the second, and the flag of the leap year, in the place of themselves.
LEMMA ReadsSecondKeeps ==
    ASSUME IInv, GetReadsSecond
    PROVE  IInv'
<1> DEFINE leap == clockIsLeapYear(clockNow.date.year)
           time == [clockNow.time EXCEPT !.second = TMR0L]
           date == [clockNow.date EXCEPT !.isLeapYear = leap]
<1>1. /\ UNCHANGED <<TMR0L, TMR0IF, instant>>
      /\ clockNow' = [clockNow EXCEPT !.time = time, !.date = date]
  BY DEF GetReadsSecond
<1>2. /\ clockNow \in [time : [second : Int, minute : 0 .. MinutesPerHour - 1,
                              hour : 0 .. HoursPerDay - 1], date : Dates]
      /\ TMR0L \in 0 .. SecondsPerMinute - 1 /\ SecondsPerMinute \in Nat
  BY ConstantsAreNumbers DEF IInv, TypesInv
<1>3. leap \in BOOLEAN /\ (leap <=> IsLeap(clockNow.date.year))
  <2>1. clockNow.date.year \in 0 .. 99
    BY <1>2, ConstantsAreNumbers DEF Dates
  <2> QED BY <2>1, LeapYears DEF clockIsLeapYear
<1> HIDE DEF leap
<1>4. /\ time \in [second : Int, minute : 0 .. MinutesPerHour - 1, hour : 0 .. HoursPerDay - 1]
      /\ time.hour = clockNow.time.hour /\ time.minute = clockNow.time.minute
  BY <1>2
<1>5. /\ date \in Dates
      /\ date.day = clockNow.date.day /\ date.month = clockNow.date.month
      /\ date.year = clockNow.date.year /\ date.dayOfYear = clockNow.date.dayOfYear
      /\ date.isLeapYear = leap
  BY <1>2, <1>3 DEF Dates
<1> HIDE DEF time, date
<1>6. clockNow' = [time |-> time, date |-> date]
  BY <1>1, <1>2
<1>7. TypesInv'
  BY <1>1, <1>4, <1>5, <1>6 DEF IInv, TypesInv
<1>8. DateInv'
  BY <1>3, <1>5, <1>6 DEF IInv, DateInv, IsRealDate, DayOfYearIs
<1>9. Kept' = Kept
  <2>1. /\ clockNow'.date.year = clockNow.date.year /\ clockNow'.date.month = clockNow.date.month
        /\ clockNow'.date.day = clockNow.date.day
        /\ clockNow'.time.hour = clockNow.time.hour /\ clockNow'.time.minute = clockNow.time.minute
    BY <1>4, <1>5, <1>6
  <2> QED BY <1>1, <2>1 DEF Kept, SecondOf
<1>10. KeptInv'
  BY <1>1, <1>9 DEF IInv, KeptInv
<1> QED BY <1>7, <1>8, <1>10 DEF IInv

\* Setting the clock sets what is kept.
LEMMA SetKeeps ==
    ASSUME IInv, clockSetNowGmt
    PROVE  IInv'
<1>1. PICK now \in SetTimes :
          /\ clockNow' = [time |-> now.time, date |-> FullDate(now.date)]
          /\ TMR0L' = now.time.second
          /\ instant' = SecondOf(now.date, now.time, now.time.second)
  BY DEF clockSetNowGmt
<1>2. now.time \in Times /\ IsRealDate(now.date) /\ SecondsPerMinute \in Nat \ {0}
  BY ConstantsAreNumbers
<1>3. TMR0IF' = FALSE
  BY DEF clockSetNowGmt
<1> DEFINE date == FullDate(now.date)
<1>4. /\ IsGoodDate(date) /\ (date.isLeapYear <=> IsLeap(now.date.year))
      /\ date.year = now.date.year /\ DayNumber(date) = DayNumber(now.date)
  <2>1. now.date.year \in 0 .. Years - 1
    BY <1>2 DEF IsRealDate
  <2> QED BY <1>2, <2>1, SetDateIsGood DEF FullDate
<1>5. /\ now.time \in [second : Int, minute : 0 .. MinutesPerHour - 1, hour : 0 .. HoursPerDay - 1]
      /\ IsGoodTime(now.time) /\ now.time.second \in 0 .. SecondsPerMinute - 1
  BY <1>2 DEF Times, IsGoodTime
<1> HIDE DEF date
<1>6. /\ SecondOf(date, now.time, now.time.second) \in 0 .. Cycle - 1
      /\ SecondOf(date, now.time, now.time.second)
            = SecondOf(now.date, now.time, now.time.second)
  BY <1>4, <1>5, SecondIsOfCycle, SecondOfIsInstant DEF IsGoodDate
<1>7. clockNow' = [time |-> now.time, date |-> date]
  BY <1>1 DEF date
<1>8. TypesInv'
  <2>1. clockNow' \in [time : [second : Int, minute : 0 .. MinutesPerHour - 1,
                              hour : 0 .. HoursPerDay - 1], date : Dates]
    BY <1>4, <1>5, <1>7 DEF IsGoodDate
  <2>2. /\ TMR0L' \in 0 .. SecondsPerMinute - 1 /\ TMR0IF' \in BOOLEAN
        /\ instant' \in 0 .. Cycle - 1
    BY <1>1, <1>3, <1>5, <1>6
  <2> QED BY <2>1, <2>2 DEF TypesInv
<1>9. DateInv'
  BY <1>4, <1>7 DEF DateInv, IsGoodDate
<1>10. KeptInv'
  <2>1. Kept' = SecondOf(date, now.time, now.time.second) + 0
    BY <1>1, <1>3, <1>7 DEF Kept
  <2> QED BY <1>1, <1>6, <2>1 DEF KeptInv
<1> QED BY <1>8, <1>9, <1>10 DEF IInv

LEMMA InitHolds == Init => IInv
<1> SUFFICES ASSUME Init PROVE IInv
  OBVIOUS
<1> DEFINE epoch == [day |-> 1, month |-> 1, year |-> 0]
           date == FullDate(epoch)
           time == [second |-> 0, minute |-> 0, hour |-> 0]
<1>1. /\ clockNow = [time |-> time, date |-> date]
      /\ TMR0L = 0 /\ TMR0IF = FALSE /\ instant = 0
  BY DEF Init
<1>2. /\ SecondsPerMinute \in Nat \ {0} /\ MinutesPerHour \in Nat \ {0}
      /\ HoursPerDay \in Nat \ {0} /\ Years \in 1 .. 100
  BY ConstantsAreNumbers
<1>3. IsRealDate(epoch) /\ epoch.year \in 0 .. Years - 1
  BY <1>2 DEF IsRealDate, MonthLength
<1>4. /\ IsGoodDate(date) /\ (date.isLeapYear <=> IsLeap(date.year))
      /\ DayNumber(date) = DayNumber(epoch)
  BY <1>3, SetDateIsGood DEF FullDate
<1>5. DayNumber(epoch) = 0
  BY DEF DayNumber, DaysBeforeYear, DaysBeforeMonth
<1>6. IsGoodTime(time) /\ MinuteNumber(time) = 0
  BY <1>2 DEF IsGoodTime, MinuteNumber
<1>7. time \in [second : Int, minute : 0 .. MinutesPerHour - 1, hour : 0 .. HoursPerDay - 1]
  BY <1>2
<1> HIDE DEF date, time
<1>8. SecondOf(date, time, 0) \in 0 .. Cycle - 1 /\ Cycle \in Nat \ {0}
  BY <1>2, <1>4, <1>6, SecondIsOfCycle DEF IsGoodDate
<1>9. SecondOf(date, time, 0) = 0
  <2>1. SecondOf(date, time, 0) = Instant(0, 0, 0)
    BY <1>4, <1>5, <1>6, SecondOfIsInstant
  <2>2. SecondsPerDay \in Nat
    BY <1>2, Products DEF SecondsPerDay
  <2> QED BY <1>2, <2>1, <2>2 DEF Instant
<1>10. TypesInv /\ DateInv
  <2>1. clockNow \in [time : [second : Int, minute : 0 .. MinutesPerHour - 1,
                             hour : 0 .. HoursPerDay - 1], date : Dates]
    BY <1>1, <1>4, <1>7 DEF IsGoodDate
  <2>2. /\ TMR0L \in 0 .. SecondsPerMinute - 1 /\ TMR0IF \in BOOLEAN
        /\ instant \in 0 .. Cycle - 1
    <3>1. \A n \in Nat \ {0} : 0 \in 0 .. n - 1
      OBVIOUS
    <3>2. TMR0L = 0 /\ instant = 0 /\ TMR0IF = FALSE
      BY <1>1
    <3> QED BY <1>2, <1>8, <3>1, <3>2, Zenon
  <2>3. clockNow.date = date
    BY <1>1
  <2> QED BY <1>4, <2>1, <2>2, <2>3 DEF TypesInv, DateInv, IsGoodDate
<1>11. KeptInv
  BY <1>1, <1>9 DEF KeptInv, Kept
<1> QED BY <1>10, <1>11 DEF IInv

LEMMA StepPreserves == IInv /\ [Next]_vars => IInv'
<1> SUFFICES ASSUME IInv, [Next]_vars PROVE IInv'
  OBVIOUS
<1>1. CASE TimerCounts
  BY <1>1, TimerKeeps
<1>2. CASE onWokenFromSleep
  BY <1>2, TickedKeeps DEF onWokenFromSleep
<1>3. CASE GetReadsSecond
  BY <1>3, ReadsSecondKeeps
<1>4. CASE GetLooksAtFlag /\ TMR0IF
  BY <1>4, TickedKeeps DEF GetLooksAtFlag
<1>5. CASE GetLooksAtFlag /\ ~TMR0IF
  <2>1. UNCHANGED <<clockNow, TMR0L, TMR0IF, instant>>
    BY <1>5 DEF GetLooksAtFlag, IInv, TypesInv
  <2> QED BY <2>1 DEF IInv, TypesInv, DateInv, KeptInv, Kept, SecondOf
<1>6. CASE clockSetNowGmt
  BY <1>6, SetKeeps
<1>7. CASE GetReturns \/ UNCHANGED vars
  <2>1. UNCHANGED <<clockNow, TMR0L, TMR0IF, instant>>
    BY <1>7 DEF GetReturns, vars
  <2> QED BY <2>1 DEF IInv, TypesInv, DateInv, KeptInv, Kept, SecondOf
<1> QED BY <1>1, <1>2, <1>3, <1>4, <1>5, <1>6, <1>7 DEF Next

LEMMA InvariantHolds == Spec => []IInv
<1>1. Init => IInv
  BY InitHolds
<1>2. IInv /\ [Next]_vars => IInv'
  BY StepPreserves
<1> QED BY <1>1, <1>2, PTL DEF Spec
-----------------------------------------------------------------------------
(***************************************************************************)
(* Reading the clock while it goes on.                                     *)
(***************************************************************************)
\* What clockGetNowGmt() would return now.
Shown == SecondOf(clockNow.date, clockNow.time, clockNow.time.second)

\* The moment n seconds after the read began.
IsLater(moment, n) == moment = began + n \/ moment + Cycle = began + n

\* The flag is not raised twice without being noticed, so this bounds the time
\* for which it has not been looked at.
Unnoticed == TMR0L + (IF TMR0IF THEN SecondsPerMinute ELSE 0)

\* Until the flag is looked at, the second is the one that the read began with, unless
\* the flag says otherwise; afterwards what was seen then stays.
LookingInv ==
    /\ clockNow.time.second \in 0 .. SecondsPerMinute - 1
    /\ \E n \in 0 .. Unnoticed :
           /\ IsLater(instant, n)
           /\ TMR0IF \/ n = TMR0L - clockNow.time.second

CopyingInv ==
    \E n \in 0 .. 2 * SecondsPerMinute + Unnoticed : \E seen \in 0 .. n :
        IsLater(instant, n) /\ IsLater(Shown, seen)

ReadInv ==
    /\ reading \in {"idle", "looking", "copying"}
    /\ reading # "idle" => began \in 0 .. Cycle - 1
    /\ reading = "looking" => LookingInv
    /\ reading = "copying" => CopyingInv

\* A call is over long before the cycle is.
LEMMA CycleIsLong == 4 * SecondsPerMinute <= Cycle
<1>1. /\ SecondsPerMinute \in Nat \ {0} /\ MinutesPerHour \in Nat \ {0}
      /\ HoursPerDay \in Nat \ {0} /\ Years \in 1 .. 100
  BY ConstantsAreNumbers
<1>2. /\ 1 * MinutesPerHour = MinutesPerHour /\ 1 * SecondsPerMinute = SecondsPerMinute
      /\ HoursPerDay * MinutesPerHour \in Nat /\ 1 <= HoursPerDay /\ 1 <= MinutesPerHour
      /\ 1 * MinutesPerHour <= HoursPerDay * MinutesPerHour
  BY <1>1, Products
<1>3. SecondsPerMinute <= SecondsPerDay /\ SecondsPerDay \in Nat
  <2>1. 1 <= HoursPerDay * MinutesPerHour
    BY <1>1, <1>2
  <2>2. 1 * SecondsPerMinute <= (HoursPerDay * MinutesPerHour) * SecondsPerMinute
    BY <1>1, <1>2, <2>1, Products
  <2> QED BY <1>1, <1>2, <2>2, Products DEF SecondsPerDay
<1>4. DaysBeforeYear(Years) \in Nat /\ 4 <= DaysBeforeYear(Years)
  BY <1>1 DEF DaysBeforeYear
<1>5. 4 * SecondsPerDay <= Cycle /\ Cycle \in Nat
  BY <1>3, <1>4, Products DEF Cycle
<1> QED BY <1>1, <1>3, <1>5

\* The same second of the minute that is kept, and of the one that is shown.
LEMMA ShownAndKept ==
    ASSUME TypesInv, DateInv
    PROVE  LET minute == SecondOf(clockNow.date, clockNow.time, 0)
           IN  /\ minute \in Int
               /\ Kept = minute + Unnoticed
               /\ Shown = minute + clockNow.time.second
               /\ clockNow.time.second \in 0 .. SecondsPerMinute - 1 => Shown \in 0 .. Cycle - 1
               /\ TMR0L \in 0 .. SecondsPerMinute - 1 /\ SecondsPerMinute \in Nat \ {0}
               /\ Cycle \in Nat \ {0} /\ TMR0IF \in BOOLEAN /\ clockNow.time.second \in Int
<1> DEFINE minute == SecondOf(clockNow.date, clockNow.time, 0)
<1>1. /\ IsGoodTime(clockNow.time) /\ IsRealDate(clockNow.date) /\ clockNow.date \in Dates
      /\ clockNow.time.second \in Int /\ TMR0L \in 0 .. SecondsPerMinute - 1
      /\ SecondsPerMinute \in Nat \ {0} /\ Cycle \in Nat \ {0} /\ TMR0IF \in BOOLEAN
  BY KeptIsInRange DEF TypesInv, DateInv, IsGoodDate
<1>2. /\ minute \in Int
      /\ \A second \in Int : SecondOf(clockNow.date, clockNow.time, second) = minute + second
  BY <1>1, SecondsAreAdded
<1>3. clockNow.time.second \in 0 .. SecondsPerMinute - 1 => Shown \in 0 .. Cycle - 1
  BY <1>1, SecondIsOfCycle DEF Shown
<1>4. Shown = minute + clockNow.time.second
  BY <1>1, <1>2 DEF Shown
<1>5. Kept = minute + Unnoticed
  <2>1. TMR0L \in Int
    BY <1>1
  <2>2. SecondOf(clockNow.date, clockNow.time, TMR0L) = minute + TMR0L
    BY <1>2, <2>1
  <2> HIDE DEF minute
  <2> QED BY <1>1, <1>2, <2>1, <2>2 DEF Kept, Unnoticed
<1> QED BY <1>1, <1>2, <1>3, <1>4, <1>5

LEMMA TimerKeepsRead ==
    ASSUME IInv, ReadInv, TimerCounts
    PROVE  ReadInv'
<1> DEFINE second == clockNow.time.second
<1>1. /\ TMR0L \in 0 .. SecondsPerMinute - 1 /\ SecondsPerMinute \in Nat \ {0}
      /\ instant \in 0 .. Cycle - 1 /\ Cycle \in Nat \ {0} /\ TMR0IF \in BOOLEAN
  BY KeptIsInRange DEF IInv, TypesInv
<1>2. /\ TMR0L' = IF TMR0L + 1 = SecondsPerMinute THEN 0 ELSE TMR0L + 1
      /\ instant' = IF instant + 1 = Cycle THEN 0 ELSE instant + 1
  <2>1. \A cycle \in Nat \ {0} : \A n \in 0 .. cycle - 1 :
            (n + 1) % cycle = IF n + 1 = cycle THEN 0 ELSE n + 1
    BY WrapsOnce
  <2>2. TMR0L' = (TMR0L + 1) % SecondsPerMinute /\ instant' = (instant + 1) % Cycle
    BY DEF TimerCounts
  <2> QED BY <1>1, <2>1, <2>2
<1>3. /\ TMR0L' = 0 => ~TMR0IF
      /\ TMR0IF' = (TMR0IF \/ TMR0L' = 0)
      /\ UNCHANGED <<clockNow, reading, began>>
  BY DEF TimerCounts
<1>4. Unnoticed \in Nat /\ 2 * SecondsPerMinute + Unnoticed < Cycle
  <2>1. Unnoticed \in 0 .. 2 * SecondsPerMinute - 1
    BY <1>1 DEF Unnoticed
  <2> QED BY <1>1, <2>1, CycleIsLong
<1>5. Unnoticed' = Unnoticed + 1
  <2>1. CASE TMR0L + 1 = SecondsPerMinute
    <3>1. TMR0L' = 0 /\ ~TMR0IF /\ TMR0IF'
      BY <1>2, <1>3, <2>1
    <3> QED BY <1>1, <2>1, <3>1 DEF Unnoticed
  <2>2. CASE TMR0L + 1 # SecondsPerMinute
    <3>1. TMR0L' = TMR0L + 1 /\ TMR0L' # 0
      BY <1>1, <1>2, <2>2
    <3>2. TMR0IF' <=> TMR0IF
      BY <1>3, <3>1
    <3> QED BY <1>1, <3>1, <3>2 DEF Unnoticed
  <2> QED BY <2>1, <2>2
<1>6. ASSUME NEW n \in Nat, n < Cycle, IsLater(instant, n), began \in 0 .. Cycle - 1,
             NEW next, next = n + 1
      PROVE  IsLater(instant, next)'
  <2>1. began' = began /\ (instant = began + n \/ instant + Cycle = began + n)
    BY <1>3, <1>6 DEF IsLater
  <2>2. instant' = began + next \/ instant' + Cycle = began + next
    BY <1>1, <1>2, <1>6, <2>1
  <2> QED BY <2>1, <2>2 DEF IsLater
<1>7. CASE reading = "looking"
  <2>1. PICK n \in 0 .. Unnoticed :
            IsLater(instant, n) /\ (TMR0IF \/ n = TMR0L - second)
    BY <1>7 DEF ReadInv, LookingInv
  <2>2. /\ n \in Nat /\ n < Cycle /\ n + 1 \in 0 .. Unnoticed'
        /\ second \in 0 .. SecondsPerMinute - 1
    BY <1>1, <1>4, <1>5, <1>7, <2>1 DEF ReadInv, LookingInv
  <2>3. IsLater(instant, n + 1)'
    BY <1>6, <1>7, <2>1, <2>2 DEF ReadInv
  <2>4. TMR0IF' \/ n + 1 = TMR0L' - second'
    <3>1. CASE TMR0IF \/ TMR0L + 1 = SecondsPerMinute
      BY <1>2, <1>3, <3>1
    <3>2. CASE ~TMR0IF /\ TMR0L + 1 # SecondsPerMinute
      BY <1>1, <1>2, <1>3, <2>1, <2>2, <3>2
    <3> QED BY <3>1, <3>2
  <2>5. LookingInv'
    BY <1>3, <2>2, <2>3, <2>4 DEF LookingInv
  <2> QED BY <1>3, <1>7, <2>5 DEF ReadInv
<1>8. CASE reading = "copying"
  <2>1. PICK n \in 0 .. 2 * SecondsPerMinute + Unnoticed : \E seen \in 0 .. n :
            IsLater(instant, n) /\ IsLater(Shown, seen)
    BY <1>8 DEF ReadInv, CopyingInv
  <2>2. PICK seen \in 0 .. n : IsLater(instant, n) /\ IsLater(Shown, seen)
    BY <2>1
  <2>3. /\ n \in Nat /\ n < Cycle /\ n + 1 \in 0 .. 2 * SecondsPerMinute + Unnoticed'
        /\ seen \in 0 .. n + 1
    BY <1>1, <1>4, <1>5
  <2>4. IsLater(instant, n + 1)'
    BY <1>6, <1>8, <2>2, <2>3 DEF ReadInv
  <2>5. IsLater(Shown, seen)'
    BY <1>3, <2>2 DEF IsLater, Shown, SecondOf
  <2>6. CopyingInv'
    BY <2>3, <2>4, <2>5 DEF CopyingInv
  <2> QED BY <1>3, <1>8, <2>6 DEF ReadInv
<1>9. CASE reading = "idle"
  BY <1>3, <1>9 DEF ReadInv
<1> QED BY <1>7, <1>8, <1>9 DEF ReadInv

LEMMA ReadingSecondBegins ==
    ASSUME IInv, GetReadsSecond
    PROVE  ReadInv'
<1>1. /\ UNCHANGED <<TMR0L, TMR0IF, instant>> /\ reading' = "looking" /\ began' = instant
      /\ clockNow'.time.second = TMR0L
  BY DEF GetReadsSecond, IInv, TypesInv
<1>2. /\ TMR0L \in 0 .. SecondsPerMinute - 1 /\ SecondsPerMinute \in Nat
      /\ instant \in 0 .. Cycle - 1 /\ Cycle \in Nat
  BY KeptIsInRange DEF IInv, TypesInv
<1>3. Unnoticed \in Nat /\ Unnoticed' \in Nat
  BY <1>1, <1>2 DEF Unnoticed
<1>4. 0 \in 0 .. Unnoticed' /\ 0 = TMR0L' - clockNow'.time.second
  BY <1>1, <1>2, <1>3
<1>5. IsLater(instant, 0)'
  BY <1>1, <1>2 DEF IsLater
<1>6. LookingInv'
  BY <1>1, <1>2, <1>4, <1>5 DEF LookingInv
<1> QED BY <1>1, <1>2, <1>6 DEF ReadInv

\* A flag that is down has been so since the read began, and the second is the time
\* at which it did; one that is up has the second read again.
LEMMA LookingEnds ==
    ASSUME IInv, ReadInv, GetLooksAtFlag, IInv'
    PROVE  ReadInv'
<1>1. /\ TMR0L \in 0 .. SecondsPerMinute - 1 /\ SecondsPerMinute \in Nat \ {0}
      /\ instant \in 0 .. Cycle - 1 /\ Cycle \in Nat \ {0} /\ TMR0IF \in BOOLEAN
  BY KeptIsInRange DEF IInv, TypesInv
<1>2. /\ reading = "looking" /\ reading' = "copying" /\ TMR0IF' = FALSE
      /\ UNCHANGED <<TMR0L, instant, began>>
      /\ IF TMR0IF THEN clockNow' = Ticked(clockNow) ELSE clockNow' = clockNow
  BY DEF GetLooksAtFlag, clockTicked
<1>3. /\ began \in 0 .. Cycle - 1
      /\ clockNow.time.second \in 0 .. SecondsPerMinute - 1
  BY <1>2 DEF ReadInv, LookingInv
<1>4. PICK n \in 0 .. Unnoticed :
          IsLater(instant, n) /\ (TMR0IF \/ n = TMR0L - clockNow.time.second)
  BY <1>2 DEF ReadInv, LookingInv
<1>5. Unnoticed' = TMR0L /\ n \in 0 .. 2 * SecondsPerMinute + Unnoticed'
  <2>1. Unnoticed' = TMR0L
    BY <1>1, <1>2 DEF Unnoticed
  <2>2. Unnoticed \in Nat /\ Unnoticed <= SecondsPerMinute + TMR0L
    BY <1>1 DEF Unnoticed
  <2> QED BY <1>1, <2>1, <2>2
<1>6. IsLater(instant, n)'
  BY <1>2, <1>4 DEF IsLater
<1>7. CASE TMR0IF
  <2>1. clockNow'.time.second = TMR0L'
    BY <1>2, <1>7 DEF Ticked
  <2>2. Shown' = Kept' /\ Shown' \in 0 .. Cycle - 1
    <3>1. /\ clockNow'.date \in Dates /\ IsRealDate(clockNow'.date) /\ IsGoodTime(clockNow'.time)
          /\ TMR0L' \in 0 .. SecondsPerMinute - 1
      BY DEF IInv, TypesInv, DateInv, IsRealDate, IsGoodTime
    <3>2. SecondOf(clockNow'.date, clockNow'.time, TMR0L') \in 0 .. Cycle - 1
      BY <3>1, SecondIsOfCycle
    <3>3. Kept' = SecondOf(clockNow'.date, clockNow'.time, TMR0L') + 0
      BY <1>2 DEF Kept, SecondOf
    <3>4. Shown' = SecondOf(clockNow'.date, clockNow'.time, TMR0L')
      BY <2>1 DEF Shown, SecondOf
    <3> QED BY <3>2, <3>3, <3>4
  <2>3. Shown' = instant'
    BY <1>1, <1>2, <2>2 DEF IInv, KeptInv
  <2>4. IsLater(Shown, n)'
    BY <1>6, <2>3 DEF IsLater
  <2>5. n \in 0 .. n
    BY <1>1 DEF Unnoticed
  <2>6. CopyingInv'
    BY <1>5, <1>6, <2>4, <2>5 DEF CopyingInv
  <2> QED BY <1>2, <1>3, <2>6 DEF ReadInv
<1>8. CASE ~TMR0IF
  <2>1. n = TMR0L - clockNow.time.second /\ Unnoticed = TMR0L /\ n \in Nat
    BY <1>1, <1>4, <1>8 DEF Unnoticed
  <2>2. /\ Kept = instant \/ Kept = instant + Cycle
        /\ Shown = Kept - n /\ Shown \in 0 .. Cycle - 1 /\ Kept \in Int
    <3> DEFINE minute == SecondOf(clockNow.date, clockNow.time, 0)
    <3>1. /\ minute \in Int /\ Kept = minute + Unnoticed /\ Shown = minute + clockNow.time.second
          /\ Shown \in 0 .. Cycle - 1
      BY <1>3, ShownAndKept DEF IInv
    <3> HIDE DEF minute
    <3> QED BY <1>1, <1>3, <2>1, <3>1 DEF IInv, KeptInv
  <2>3. Kept = instant
    <3>1. Kept \in 0 .. Cycle - 1
      BY <1>1, <1>8, KeptIsInRange DEF IInv, Kept
    <3> QED BY <1>1, <2>2, <3>1
  <2>4. Shown = began
    BY <1>1, <1>3, <1>4, <2>1, <2>2, <2>3 DEF IsLater
  <2>5. IsLater(Shown, 0)' /\ 0 \in 0 .. n
    <3>1. Shown' = Shown
      BY <1>2, <1>8 DEF Shown, SecondOf
    <3> QED BY <1>2, <1>3, <2>1, <2>4, <3>1 DEF IsLater
  <2>6. CopyingInv'
    BY <1>5, <1>6, <2>5 DEF CopyingInv
  <2> QED BY <1>2, <1>3, <2>6 DEF ReadInv
<1> QED BY <1>1, <1>7, <1>8

LEMMA ReadStep == IInv /\ ReadInv /\ [Next]_vars => ReadInv'
<1> SUFFICES ASSUME IInv, ReadInv, [Next]_vars PROVE ReadInv'
  OBVIOUS
<1>1. CASE TimerCounts
  BY <1>1, TimerKeepsRead
<1>2. CASE GetReadsSecond
  BY <1>2, ReadingSecondBegins
<1>3. CASE GetLooksAtFlag
  BY <1>3, LookingEnds, StepPreserves
<1>4. CASE onWokenFromSleep \/ clockSetNowGmt \/ GetReturns
  BY <1>4 DEF ReadInv, onWokenFromSleep, clockSetNowGmt, GetReturns
<1>5. CASE UNCHANGED vars
  BY <1>5 DEF vars, ReadInv, LookingInv, CopyingInv, IsLater, Unnoticed, Shown, SecondOf
<1> QED BY <1>1, <1>2, <1>3, <1>4, <1>5 DEF Next
-----------------------------------------------------------------------------
(***************************************************************************)
(* The theorems.                                                           *)
(***************************************************************************)

\* The day of the year and the leap year's flag are the date's, whether it was set
\* or counted to (ClockGetSetNow.c:45-60, 97-105).
THEOREM DayOfYearIsRight == Spec => []DayOfYearIsTheDates
<1>1. IInv => DayOfYearIsTheDates
  <2> SUFFICES ASSUME IInv PROVE DayOfYearIsTheDates
    OBVIOUS
  <2>1. clockNow.date.isLeapYear \in BOOLEAN
    BY DEF IInv, TypesInv, Dates
  <2>2. IsLeap(clockNow.date.year) \in BOOLEAN
    BY DEF IsLeap
  <2> QED BY <2>1, <2>2 DEF IInv, DateInv, DayOfYearIs, DayOfYearIsTheDates
<1> QED BY <1>1, InvariantHolds, PTL

\* Whichever of the handler and the reader notices the end of a minute, none is lost
\* and none is counted twice, round any number of cycles (ClockGetSetNow.c:21-66).
THEOREM TimeIsKept == Spec => []KeepsTime
<1>1. IInv => KeepsTime
  <2> SUFFICES ASSUME IInv PROVE Kept % Cycle = instant
    BY DEF KeepsTime, Kept
  <2>1. /\ instant \in 0 .. Cycle - 1 /\ Cycle \in Nat \ {0}
        /\ Kept = instant \/ Kept = instant + Cycle
    BY KeptIsInRange DEF IInv, TypesInv, KeptInv
  <2>2. \A cycle \in Nat \ {0} : \A n \in 0 .. cycle - 1 :
            n % cycle = n /\ (n + cycle) % cycle = n
    BY WrapsOnce
  <2> QED BY <2>1, <2>2
<1> QED BY <1>1, InvariantHolds, PTL

\* However long a call takes, and whatever the timer does between its steps, what it
\* returns was the time at some moment of it (ClockGetSetNow.c:21-43).
THEOREM ReadsAreTrue == Spec => GetWasTrue
<1> DEFINE true == (Shown - began) % Cycle <= (instant - began) % Cycle
<1>1. Init => ReadInv
  BY DEF Init, ReadInv
<1>2. IInv /\ ReadInv /\ [Next]_vars => [GetReturns => true]_vars
  <2> SUFFICES ASSUME IInv, ReadInv, GetReturns PROVE true
    OBVIOUS
  <2>1. began \in 0 .. Cycle - 1 /\ CopyingInv
    BY DEF GetReturns, ReadInv
  <2>2. PICK n \in 0 .. 2 * SecondsPerMinute + Unnoticed : \E seen \in 0 .. n :
            IsLater(instant, n) /\ IsLater(Shown, seen)
    BY <2>1 DEF CopyingInv
  <2>3. PICK seen \in 0 .. n : IsLater(instant, n) /\ IsLater(Shown, seen)
    BY <2>2
  <2>4. /\ TMR0L \in 0 .. SecondsPerMinute - 1 /\ SecondsPerMinute \in Nat
        /\ Cycle \in Nat \ {0} /\ instant \in Int /\ Shown \in Int
    <3>1. /\ TMR0L \in 0 .. SecondsPerMinute - 1 /\ SecondsPerMinute \in Nat
          /\ Cycle \in Nat \ {0} /\ instant \in 0 .. Cycle - 1 /\ Shown \in Int
      BY KeptIsInRange, ShownAndKept DEF IInv, TypesInv
    <3> QED BY <3>1
  <2>5. n \in 0 .. Cycle - 1 /\ seen \in 0 .. Cycle - 1 /\ seen <= n
    <3>1. Unnoticed \in 0 .. 2 * SecondsPerMinute - 1
      BY <2>4 DEF Unnoticed
    <3> QED BY <2>4, <3>1, CycleIsLong
  <2>6. \A moment \in Int : \A k \in 0 .. Cycle - 1 :
            IsLater(moment, k) => (moment - began) % Cycle = k
    BY <2>1, <2>4, WrapsBack DEF IsLater
  <2> QED BY <2>3, <2>4, <2>5, <2>6
<1>3. IInv /\ ReadInv /\ [Next]_vars => ReadInv'
  BY ReadStep
<1>4. [][GetReturns => true]_vars <=> GetWasTrue
  BY DEF GetWasTrue, Shown
<1> QED BY <1>1, <1>2, <1>3, <1>4, InvariantHolds, PTL DEF Spec
=============================================================================
