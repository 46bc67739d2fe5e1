-------------------------- MODULE DeadlinesProofs --------------------------
(***************************************************************************)
(* The calendar and the generated deadlines: first the calendar's dates    *)
(* and what a plan has in it, then the generations that overlap, then that *)
(* periods follow each other, then the holidays.                           *)
(***************************************************************************)
EXTENDS Deadlines, WellFoundedInduction, TLAPS

LEMMA MonthTable ==
    /\ DaysBefore[1] = 0 /\ DaysBefore[2] = 31 /\ DaysBefore[3] = 59
    /\ DaysBefore[4] = 90 /\ DaysBefore[5] = 120 /\ DaysBefore[6] = 151
    /\ DaysBefore[7] = 181 /\ DaysBefore[8] = 212 /\ DaysBefore[9] = 243
    /\ DaysBefore[10] = 273 /\ DaysBefore[11] = 304 /\ DaysBefore[12] = 334
  BY DEF DaysBefore

LEMMA YearLength ==
    ASSUME NEW y \in Int
    PROVE  /\ YearStart(y) \in Int
           /\ YearStart(y + 1) = YearStart(y) + IF Leap(y) THEN 366 ELSE 365
           /\ y >= 1 => YearStart(y) >= 1
  BY SMT DEF YearStart, Leap

LEMMA NextYear ==
    ASSUME NEW y \in Int
    PROVE  YearStart(y + 1) = YearStart(y) + IF Leap(y) THEN 366 ELSE 365
  BY YearLength, SMT

LEMMA YearsInOrder ==
    ASSUME NEW y \in Int, NEW z \in Int, y < z
    PROVE  YearStart(y + 1) <= YearStart(z)
  BY SMT DEF YearStart

\* Years are 365.2425 days long on average, and never drift by two days.
LEMMA YearStartNear ==
    ASSUME NEW y \in Nat
    PROVE  /\ 146097 * (y - 1) - 303 <= 400 * YearStart(y)
           /\ 400 * YearStart(y) <= 146097 * (y - 1) + 796
<1> DEFINE n == y - 1
           a == n \div 4
           b == n \div 100
           c == n \div 400
<1>1. n \in Int /\ a \in Int /\ b \in Int /\ c \in Int
  OBVIOUS
<1>2. /\ 4 * a <= n /\ n <= 4 * a + 3
      /\ 100 * b <= n /\ n <= 100 * b + 99
      /\ 400 * c <= n /\ n <= 400 * c + 399
  BY <1>1, SMT
<1>3. YearStart(y) = 365 * n + a - b + c + 1
  BY SMT DEF YearStart
<1> HIDE DEF n, a, b, c
<1>4. /\ 146097 * n - 303 <= 400 * YearStart(y)
      /\ 400 * YearStart(y) <= 146097 * n + 796
  BY <1>1, <1>2, <1>3, SMT
<1>5. QED
  BY <1>4, SMT DEF n

LEMMA NearYearNear ==
    ASSUME NEW x \in Nat
    PROVE  /\ NearYear(x) \in Nat
           /\ 146097 * NearYear(x) <= 400 * x /\ 400 * x < 146097 * (NearYear(x) + 1)
  BY SMT DEF NearYear

\* No day belongs to two years.
LEMMA OneYear ==
    ASSUME NEW y \in Nat, NEW z \in Nat, NEW x \in Nat,
           YearStart(y) <= x, x < YearStart(y + 1),
           YearStart(z) <= x, x < YearStart(z + 1)
    PROVE  y = z
<1>1. /\ YearStart(y) \in Int /\ YearStart(y + 1) \in Int
      /\ YearStart(z) \in Int /\ YearStart(z + 1) \in Int
  BY YearLength, SMT
<1>2. ~(y < z) /\ ~(z < y)
  BY <1>1, YearsInOrder, SMT
<1>3. QED
  BY <1>2, SMT

LEMMA YearOfRight ==
    ASSUME NEW y \in Nat, NEW x \in Nat, YearStart(y) <= x, x < YearStart(y + 1)
    PROVE  YearOf(x) = y
<1> DEFINE near == NearYear(x)
           P(z) == YearStart(z) <= x /\ x < YearStart(z + 1)
<1>0. YearOf(x) = CHOOSE z \in near .. near + 2 : P(z)
  BY Zenon DEF YearOf
<1> HIDE DEF near
<1>1. near \in Nat /\ 146097 * near <= 400 * x /\ 400 * x < 146097 * (near + 1)
  BY NearYearNear, SMT DEF near
<1>2. YearStart(y) \in Int /\ YearStart(y + 1) \in Int /\ y + 1 \in Nat
  BY YearLength, SMT
<1>3. /\ 146097 * (y - 1) - 303 <= 400 * x
      /\ 400 * x <= 146097 * y + 396
  <2>1. 146097 * (y - 1) - 303 <= 400 * YearStart(y)
    BY YearStartNear, SMT
  <2>2. 400 * YearStart(y + 1) <= 146097 * (y + 1 - 1) + 796
    BY <1>2, YearStartNear, SMT
  <2>3. QED
    BY <1>2, <2>1, <2>2, SMT
<1>4. y \in near .. near + 2
  BY <1>1, <1>3, SMT
<1>5. \A z \in near .. near + 2 : P(z) => z = y
  BY <1>1, OneYear, SMT
<1>7. P(y)
  OBVIOUS
<1> HIDE DEF P
<1>6. QED
  BY <1>0, <1>4, <1>5, <1>7, Zenon

LEMMA YearOfDay ==
    ASSUME NEW x \in Nat, x >= 1
    PROVE  /\ YearOf(x) \in Nat \ {0}
           /\ YearStart(YearOf(x)) <= x /\ x < YearStart(YearOf(x) + 1)
<1> DEFINE near == NearYear(x)
<1>1. near \in Nat /\ 146097 * near <= 400 * x /\ 400 * x < 146097 * (near + 1)
  BY NearYearNear, SMT
<1> HIDE DEF near
<1>a. /\ near + 1 \in Nat /\ near + 2 \in Nat /\ near + 3 \in Nat
      /\ near + 1 + 1 = near + 2 /\ near + 2 + 1 = near + 3
      /\ near + 3 - 1 = near + 2
  BY <1>1, SMT
<1>b. /\ YearStart(near) \in Int /\ YearStart(near + 1) \in Int
      /\ YearStart(near + 2) \in Int /\ YearStart(near + 3) \in Int
  BY <1>1, <1>a, YearLength, SMT
<1>2. YearStart(near) <= x /\ x < YearStart(near + 3)
  <2>1. 400 * YearStart(near) <= 146097 * (near - 1) + 796
    BY <1>1, YearStartNear, SMT
  <2>2. 146097 * (near + 3 - 1) - 303 <= 400 * YearStart(near + 3)
    BY <1>a, YearStartNear, SMT
  <2>3. QED
    \* 146097 - 796 days are more than none, and twice 146097 - 303 too.
    BY <1>1, <1>a, <1>b, <2>1, <2>2, SMT
<1>3. PICK y \in {near, near + 1, near + 2} : YearStart(y) <= x /\ x < YearStart(y + 1)
  BY <1>a, <1>b, <1>2, SMT
<1>4. y \in Nat /\ YearOf(x) = y
  BY <1>1, <1>3, YearOfRight, SMT
<1>5. y # 0
  BY <1>3, SMT DEF YearStart
<1>6. QED
  BY <1>3, <1>4, <1>5

(***************************************************************************)
(* Months: a month is the first day of one, and its last one is before the *)
(* first of the next.                                                      *)
(***************************************************************************)
Months == 1 .. 12

LEMMA MonthNumbers == \A m : m \in Months <=> m \in Nat /\ 1 <= m /\ m <= 12
  BY SMT DEF Months

LEMMA MonthLengths ==
    ASSUME NEW y \in Int, NEW m \in Months
    PROVE  /\ MonthLength(y, m) \in 28 .. 31
           /\ DaysBeforeMonth(y, m) \in 0 .. 335
           /\ DaysBeforeMonth(y, 1) = 0
           /\ DaysBeforeMonth(y, 12) + MonthLength(y, 12) = IF Leap(y) THEN 366 ELSE 365
<1>1. Leap(y) \in BOOLEAN
  BY DEF Leap
<1>2. /\ MonthLength(y, m) = IF m = 2 THEN IF Leap(y) THEN 29 ELSE 28
                             ELSE IF m \in {4, 6, 9, 11} THEN 30 ELSE 31
      /\ MonthLength(y, 12) = 31
  BY DEF MonthLength
<1>3. m \in {1, 2, 3, 4, 5, 6, 7, 8, 9, 10, 11, 12}
  BY DEF Months
<1>4. QED
  BY <1>1, <1>2, <1>3, MonthTable, SMT DEF DaysBeforeMonth

LEMMA MonthsInOrder ==
    ASSUME NEW y \in Int, NEW m \in Months, NEW n \in Months, m < n
    PROVE  DaysBeforeMonth(y, m) + MonthLength(y, m) <= DaysBeforeMonth(y, n)
<1>1. Leap(y) \in BOOLEAN
  BY DEF Leap
<1>2. MonthLength(y, m) = IF m = 2 THEN IF Leap(y) THEN 29 ELSE 28
                          ELSE IF m \in {4, 6, 9, 11} THEN 30 ELSE 31
  BY DEF MonthLength
<1>3. m \in {1, 2, 3, 4, 5, 6, 7, 8, 9, 10, 11, 12} /\ n \in {1, 2, 3, 4, 5, 6, 7, 8, 9, 10, 11, 12}
  BY DEF Months
<1>4. QED
  BY <1>1, <1>2, <1>3, MonthTable, SMT DEF DaysBeforeMonth

LEMMA YearStartInt == ASSUME NEW y \in Int PROVE YearStart(y) \in Int
  BY SMT DEF YearStart

LEMMA DateInt ==
    ASSUME NEW y \in Int, NEW m \in Months, NEW d \in Int
    PROVE  /\ Date(y, m, d) \in Int
           /\ Date(y, m, d) = Date(y, m, 1) + d - 1
  BY YearStartInt, MonthLengths, MonthNumbers, SMT DEF Date

\* A day of a month is a day of its year.
LEMMA DateInYear ==
    ASSUME NEW y \in Int, NEW m \in Months, NEW d \in 1 .. MonthLength(y, m)
    PROVE  YearStart(y) <= Date(y, m, d) /\ Date(y, m, d) < YearStart(y + 1)
<1>1. /\ YearStart(y) \in Int
      /\ YearStart(y + 1) = YearStart(y) + (DaysBeforeMonth(y, 12) + MonthLength(y, 12))
  <2>1. /\ YearStart(y) \in Int
        /\ YearStart(y + 1) = YearStart(y) + IF Leap(y) THEN 366 ELSE 365
    BY YearLength, SMT
  <2>2. DaysBeforeMonth(y, 12) + MonthLength(y, 12) = IF Leap(y) THEN 366 ELSE 365
    BY MonthLengths, SMT
  <2>3. QED
    BY <2>1, <2>2, ZenonT(60)
<1>2. m = 12 \/ DaysBeforeMonth(y, m) + MonthLength(y, m) <= DaysBeforeMonth(y, 12)
  BY MonthsInOrder, MonthNumbers, SMT
<1>3. /\ DaysBeforeMonth(y, m) \in Nat /\ MonthLength(y, m) \in Nat
      /\ DaysBeforeMonth(y, 12) \in Nat /\ MonthLength(y, 12) \in Nat
  BY MonthLengths, MonthNumbers, SMT
<1>4. QED
  BY <1>1, <1>2, <1>3, SMT DEF Date

\* The parts of a date are the ones it is made from (date.year, .month, .day).
LEMMA PartsOfDate ==
    ASSUME NEW y \in Nat \ {0}, NEW m \in Months, NEW d \in 1 .. MonthLength(y, m)
    PROVE  /\ Date(y, m, d) \in Nat \ {0}
           /\ YearOf(Date(y, m, d)) = y
           /\ MonthOf(Date(y, m, d)) = m
           /\ DayOf(Date(y, m, d)) = d
<1> DEFINE x == Date(y, m, d)
           n == x - YearStart(y)
           P(k) == n \in DaysBeforeMonth(y, k) .. DaysBeforeMonth(y, k) + MonthLength(y, k) - 1
<1>0. y \in Int
  OBVIOUS
<1>1. YearStart(y) \in Nat \ {0} /\ d \in Int
  <2>1. YearStart(y) \in Int /\ YearStart(y) >= 1
    BY <1>0, YearLength, SMT
  <2>2. MonthLength(y, m) \in Int
    BY <1>0, MonthLengths, SMT
  <2>3. QED
    BY <2>1, <2>2, SMT
<1>2. x \in Nat \ {0} /\ YearStart(y) <= x /\ x < YearStart(y + 1)
  <2>1. YearStart(y) <= x /\ x < YearStart(y + 1)
    BY <1>0, DateInYear, Zenon
  <2>2. x \in Int
    BY <1>0, <1>1, DateInt, Zenon
  <2>3. QED
    BY <1>1, <2>1, <2>2, SMT
<1>3. YearOf(x) = y
  BY <1>2, YearOfRight, SMT
<1>4. n = DaysBeforeMonth(y, m) + d - 1
  BY <1>1, MonthLengths, SMT DEF Date
<1>5. MonthOf(x) = CHOOSE k \in Months : P(k)
  BY <1>3, Zenon DEF MonthOf, Months
<1>6. n \in Int /\ P(m)
  BY <1>4, MonthLengths, SMT
<1>7. \A k \in Months : P(k) => k = m
  <2> SUFFICES ASSUME NEW k \in Months, P(k), k # m PROVE FALSE
    OBVIOUS
  <2>1. /\ DaysBeforeMonth(y, k) \in Int /\ MonthLength(y, k) \in Int
        /\ DaysBeforeMonth(y, m) \in Int /\ MonthLength(y, m) \in Int
    BY MonthLengths, MonthNumbers, SMT
  <2>2. CASE k < m
    <3>1. DaysBeforeMonth(y, k) + MonthLength(y, k) <= DaysBeforeMonth(y, m)
      BY <2>2, MonthsInOrder, MonthNumbers, SMT
    <3>2. QED
      BY <2>1, <3>1, <1>4, SMT
  <2>3. CASE m < k
    <3>1. DaysBeforeMonth(y, m) + MonthLength(y, m) <= DaysBeforeMonth(y, k)
      BY <2>3, MonthsInOrder, MonthNumbers, SMT
    <3>2. QED
      BY <2>1, <3>1, <1>4, <1>6, SMT
  <2>4. QED
    BY <2>2, <2>3, MonthNumbers, SMT
<1>8. MonthOf(x) = m
  <2> HIDE DEF P
  <2>1. QED
    BY <1>5, <1>6, <1>7, Zenon
<1>9. DayOf(x) = d
  <2>1. DayOf(x) = x - Date(y, m, 1) + 1
    BY <1>3, <1>8, Zenon DEF DayOf
  <2>2. QED
    BY <1>1, <2>1, DateInt, SMT
<1>10. QED
  BY <1>2, <1>3, <1>8, <1>9

LEMMA YearsFollowDays ==
    ASSUME NEW x \in Nat \ {0}, NEW z \in Nat, x <= z
    PROVE  YearOf(x) <= YearOf(z)
<1> DEFINE v == YearOf(x)
           w == YearOf(z)
<1>1. /\ v \in Nat /\ w \in Nat
      /\ YearStart(v) <= x /\ z < YearStart(w + 1)
      /\ YearStart(v) \in Int /\ YearStart(w + 1) \in Int
  BY YearOfDay, YearStartInt, SMT
<1> HIDE DEF v, w
<1>2. ~(w < v)
  BY <1>1, YearsInOrder, SMT
<1>3. QED
  BY <1>1, <1>2, SMT DEF v, w

\* A day of the month that is cut to the month's length (clamped_date).
DayIn(y, m, d) == IF d < MonthLength(y, m) THEN d ELSE MonthLength(y, m)

LEMMA ClampedIsDate ==
    ASSUME NEW y \in Int, NEW m \in Months, NEW d \in Nat \ {0}
    PROVE  /\ Clamped(y, m, d) = Date(y, m, DayIn(y, m, d))
           /\ DayIn(y, m, d) \in 1 .. MonthLength(y, m)
           /\ MonthEnd(y, m) = Date(y, m, MonthLength(y, m))
           /\ MonthLength(y, m) \in 1 .. MonthLength(y, m)
           /\ Clamped(y, m, d) <= MonthEnd(y, m)
           /\ Date(y, m, 1) <= Clamped(y, m, d)
           /\ Clamped(y, m, d) \in Int /\ MonthEnd(y, m) \in Int
<1>1. MonthLength(y, m) \in Nat \ {0}
  BY MonthLengths, SMT
<1>2. /\ Clamped(y, m, d) = Date(y, m, DayIn(y, m, d))
      /\ DayIn(y, m, d) \in 1 .. MonthLength(y, m)
      /\ MonthEnd(y, m) = Date(y, m, MonthLength(y, m))
      /\ MonthLength(y, m) \in 1 .. MonthLength(y, m)
  BY <1>1, SMT DEF Clamped, MonthEnd, DayIn
<1>3. /\ Date(y, m, 1) \in Int
      /\ Date(y, m, DayIn(y, m, d)) = Date(y, m, 1) + DayIn(y, m, d) - 1
      /\ Date(y, m, MonthLength(y, m)) = Date(y, m, 1) + MonthLength(y, m) - 1
  BY <1>1, <1>2, DateInt, SMT
<1>4. QED
  BY <1>1, <1>2, <1>3, SMT

----------------------------------------------------------------------------
(***************************************************************************)
(* The plan leaves no period of its window out.                            *)
(***************************************************************************)
LEMMA YearEndDays ==
    ASSUME NEW t \in Terms
    PROVE  YearEndOf(t).month \in Months /\ YearEndOf(t).day \in 1 .. 31
<1>1. t.yearEnd.month \in Months /\ t.yearEnd.day \in 1 .. 31
  BY DeadlinesAssumption DEF Months
<1>2. QED
  BY <1>1, MonthNumbers, SMT DEF YearEndOf

\* An end of a period is a day of its month.
LEMMA EndIsDate ==
    ASSUME NEW t \in Terms, NEW y \in Nat \ {0}, NEW m \in Months,
           NEW end \in EndsInMonth(t, y, m)
    PROVE  \E d \in 1 .. MonthLength(y, m) : end = Date(y, m, d)
<1>1. YearEndOf(t).day \in Nat \ {0}
  BY YearEndDays, SMT
<1>2. end = Clamped(y, m, YearEndOf(t).day) \/ end = MonthEnd(y, m)
  BY Zenon DEF EndsInMonth, FiscalYearEnd
<1>3. QED
  BY <1>1, <1>2, ClampedIsDate, SMT

LEMMA MonthIndex ==
    ASSUME NEW y \in Int, NEW m \in Months
    PROVE  (12 * y + m - 1) \div 12 = y /\ ((12 * y + m - 1) % 12) + 1 = m
<1>1. m \in Int /\ 1 <= m /\ m <= 12
  BY MonthNumbers, SMT
<1>2. QED
  BY <1>1, SMT

\* Each end of a period is one that the engine counts from the year end of its
\* year, or of the next (periods_for).
LEMMA EndIsShifted ==
    ASSUME NEW t \in Terms, t.frequency \in {"annual", "semi_annual", "quarterly"},
           NEW y \in Nat \ {0}, NEW m \in Months, NEW end \in EndsInMonth(t, y, m)
    PROVE  \E z \in {y, y + 1}, shift \in Shifts(t.frequency) :
               end = PeriodEnd(z, shift, YearEndOf(t))
<1> DEFINE ye == YearEndOf(t)
           stride == Stride(t.frequency)
<1>1. ye.month \in Months /\ ye.month \in Int /\ 1 <= ye.month /\ ye.month <= 12
      /\ m \in Int /\ 1 <= m /\ m <= 12
  BY YearEndDays, MonthNumbers, SMT
<1>2. /\ t.frequency # "one_time" /\ t.frequency # "monthly"
      /\ 0 \in Shifts(t.frequency)
  BY DEF Shifts
<1>3. end \in IF m = ye.month THEN {FiscalYearEnd(y, ye)}
              ELSE IF (m - ye.month) % stride = 0 THEN {MonthEnd(y, m)} ELSE {}
  BY <1>2, Zenon DEF EndsInMonth
<1>4. CASE m = ye.month
  <2>1. end = PeriodEnd(y, 0, ye)
    BY <1>3, <1>4, Zenon DEF PeriodEnd
  <2>2. QED
    BY <2>1, <1>2
<1>5. CASE m # ye.month
  <2> DEFINE shift == IF m < ye.month THEN m - ye.month ELSE m - ye.month - 12
             z == IF m < ye.month THEN y ELSE y + 1
  <2>1. end = MonthEnd(y, m) /\ (m - ye.month) % stride = 0
    BY <1>3, <1>5, Zenon
  <2>2. shift \in Shifts(t.frequency) /\ shift # 0
    <3>1. CASE t.frequency = "annual"
      <4>1. (m - ye.month) % 12 = 0
        BY <2>1, <3>1 DEF Stride
      <4>2. QED
        BY <4>1, <1>1, <1>5, SMT
    <3>2. CASE t.frequency = "semi_annual"
      <4>1. (m - ye.month) % 6 = 0 /\ Shifts(t.frequency) = {0, -6}
        BY <2>1, <3>2 DEF Stride, Shifts
      <4>2. QED
        BY <4>1, <1>1, <1>5, SMT
    <3>3. CASE t.frequency = "quarterly"
      <4>1. (m - ye.month) % 3 = 0 /\ Shifts(t.frequency) = {-9, -6, -3, 0}
        BY <2>1, <3>3 DEF Stride, Shifts
      <4>2. QED
        BY <4>1, <1>1, <1>5, SMT
    <3>4. QED
      BY <3>1, <3>2, <3>3
  <2>3. z * 12 + ye.month - 1 + shift = 12 * y + m - 1
    BY <1>1, SMT
  <2>4. ShiftedMonthEnd(z, ye.month, shift) = MonthEnd(y, m)
    <3> HIDE DEF z, shift, ye
    <3>1. ShiftedMonthEnd(z, ye.month, shift)
            = MonthEnd((12 * y + m - 1) \div 12, ((12 * y + m - 1) % 12) + 1)
      BY <2>3, Zenon DEF ShiftedMonthEnd
    <3>2. (12 * y + m - 1) \div 12 = y /\ ((12 * y + m - 1) % 12) + 1 = m
      BY MonthIndex
    <3>3. QED
      BY <3>1, <3>2, Zenon
  <2>5. end = PeriodEnd(z, shift, ye)
    <3> HIDE DEF z, shift
    <3>1. QED
      BY <2>1, <2>2, <2>4, Zenon DEF PeriodEnd
  <2>6. z \in {y, y + 1}
    OBVIOUS
  <2>7. QED
    <3> HIDE DEF z, shift
    <3>1. QED
      BY <2>2, <2>5, <2>6
<1>6. QED
  BY <1>4, <1>5

LEMMA PlanIsComplete ==
    ASSUME NEW t \in Terms, NEW s, NEW from \in Nat \ {0}, NEW to \in Nat,
           NEW y \in Nat \ {0}, NEW m \in Months, NEW end \in EndsInMonth(t, y, m),
           from <= end, end <= to, s.from <= end, FirstDay(t, end) <= s.until
    PROVE  end \in {p.end : p \in PlanDeadlines(t, s, from, to)}
<1> DEFINE years == YearsAround(from, to)
           ye == YearEndOf(t)
<1>1. PICK d \in 1 .. MonthLength(y, m) : end = Date(y, m, d)
  BY EndIsDate
<1>2. end \in Nat \ {0} /\ YearOf(end) = y /\ MonthOf(end) = m
  BY <1>1, PartsOfDate
<1>3. y \in years /\ y + 1 \in years
  <2>1. YearOf(from) <= y /\ y <= YearOf(to)
    BY <1>2, YearsFollowDays, SMT
  <2>2. YearOf(from) \in Nat /\ YearOf(to) \in Nat
    BY <1>2, YearOfDay, SMT
  <2>3. QED
    BY <2>1, <2>2, SMT DEF YearsAround
<1> HIDE DEF years
<1>4. \E p \in PeriodsFor(t.frequency, ye, from, to) : p.end = end /\ p.start = FirstDay(t, end)
  <2>1. CASE t.frequency = "monthly"
    <3> DEFINE p == [start |-> Date(y, m, 1), end |-> MonthEnd(y, m)]
               all == {[start |-> Date(yy, mm, 1), end |-> MonthEnd(yy, mm)] :
                          yy \in years, mm \in 1 .. 12}
    <3>1. end = MonthEnd(y, m) /\ FirstDay(t, end) = Date(y, m, 1)
      BY <2>1, <1>2 DEF EndsInMonth, FirstDay
    <3>2. p \in all /\ p.start = Date(y, m, 1) /\ p.end = MonthEnd(y, m)
      <4>1. m \in 1 .. 12
        BY DEF Months
      <4>2. p \in all
        BY <1>3, <4>1, SMTT(60)
      <4>3. p.start = Date(y, m, 1) /\ p.end = MonthEnd(y, m)
        OBVIOUS
      <4> HIDE DEF p, all
      <4>4. QED
        BY <4>2, <4>3
    <3>3. PeriodsFor(t.frequency, ye, from, to) = {q \in all : from <= q.end /\ q.end <= to}
      BY <2>1 DEF PeriodsFor, years
    <3> HIDE DEF p, all
    <3>4. p \in PeriodsFor(t.frequency, ye, from, to)
      BY <3>1, <3>2, <3>3
    <3>5. QED
      BY <3>1, <3>2, <3>4
  <2>2. CASE t.frequency \in {"annual", "semi_annual", "quarterly"}
    <3> DEFINE p == [start |-> PeriodStart(end, t.frequency), end |-> end]
               ends == {PeriodEnd(yy, shift, ye) : yy \in years, shift \in Shifts(t.frequency)}
    <3>1. FirstDay(t, end) = PeriodStart(end, t.frequency)
      BY <2>2 DEF FirstDay
    <3>2. end \in ends
      BY <2>2, <1>3, EndIsShifted
    <3>3. PeriodsFor(t.frequency, ye, from, to) =
            {q \in {[start |-> PeriodStart(e, t.frequency), end |-> e] : e \in ends} :
                from <= q.end /\ q.end <= to}
      BY <2>2 DEF PeriodsFor, years
    <3> HIDE DEF ends
    <3>4. p \in PeriodsFor(t.frequency, ye, from, to)
      BY <3>2, <3>3
    <3>5. QED
      BY <3>1, <3>4
  <2>3. CASE t.frequency = "one_time"
    BY <2>3 DEF EndsInMonth
  <2>4. t.frequency \in Frequencies
    BY DeadlinesAssumption
  <2>5. QED
    BY <2>1, <2>2, <2>3, <2>4 DEF Frequencies
<1>5. PICK p \in PeriodsFor(t.frequency, ye, from, to) : p.end = end /\ p.start = FirstDay(t, end)
  BY <1>4
<1> DEFINE row == [start |-> p.start, end |-> p.end, due |-> DueDate(p.end, t.rule)]
<1>6. row \in PlanDeadlines(t, s, from, to)
  <2>1. p.end >= s.from /\ p.start <= s.until
    BY <1>5, SMT
  <2>2. QED
    BY <2>1, Zenon DEF PlanDeadlines, YearEndOf
<1>7. row.end = end
  BY <1>5
<1>8. QED
  BY <1>6, <1>7

\* The ends that a plan counts are days within its window.
LEMMA PlanWithinWindow ==
    ASSUME NEW t \in Terms, NEW s, NEW from \in Nat \ {0}, NEW to \in Nat,
           NEW p \in PlanDeadlines(t, s, from, to)
    PROVE  p.end \in Nat /\ from <= p.end /\ p.end <= to
<1> DEFINE years == YearsAround(from, to)
           ye == YearEndOf(t)
<1>1. PICK q \in PeriodsFor(t.frequency, ye, from, to) : p.end = q.end
  BY DEF PlanDeadlines, YearEndOf
<1>2. from <= q.end /\ q.end <= to
  BY DEF PeriodsFor
<1>3. years \subseteq Int
  <2>1. YearOf(from) \in Int
    BY YearOfDay, SMT
  <2>2. QED
    BY <2>1, SMT DEF YearsAround
<1> HIDE DEF years
<1>4. q.end \in Int
  <2>1. CASE t.frequency = "monthly"
    <3>1. q \in {[start |-> Date(y, m, 1), end |-> MonthEnd(y, m)] : y \in years, m \in 1 .. 12}
      BY <2>1 DEF PeriodsFor, years
    <3>2. PICK y \in Int, m \in Months : q.end = MonthEnd(y, m)
      BY <3>1, <1>3 DEF Months
    <3>3. QED
      BY <3>2, ClampedIsDate, SMT
  <2>2. CASE t.frequency \in {"annual", "semi_annual", "quarterly"}
    <3> DEFINE ends == {PeriodEnd(y, shift, ye) : y \in years, shift \in Shifts(t.frequency)}
    <3>1. q \in {[start |-> PeriodStart(e, t.frequency), end |-> e] : e \in ends}
      BY <2>2 DEF PeriodsFor, years
    <3>2. q.end \in ends
      BY <3>1
    <3>3. PICK y \in years, shift \in Shifts(t.frequency) : q.end = PeriodEnd(y, shift, ye)
      BY <3>2
    <3>4. y \in Int /\ shift \in Int
      BY <2>2, <1>3, SMT DEF Shifts
    <3>5. CASE shift = 0
      <4>1. q.end = Clamped(y, ye.month, ye.day)
        BY <3>3, <3>5 DEF PeriodEnd, FiscalYearEnd
      <4>2. ye.month \in Months /\ ye.day \in Nat \ {0}
        BY YearEndDays, SMT
      <4>3. QED
        <5> HIDE DEF ye
        <5>1. Clamped(y, ye.month, ye.day) \in Int
          BY <4>2, <3>4, ClampedIsDate, Zenon
        <5>2. QED
          BY <4>1, <5>1
    <3>6. CASE shift # 0
      <4> DEFINE total == y * 12 + ye.month - 1 + shift
      <4>1. q.end = MonthEnd(total \div 12, (total % 12) + 1)
        BY <3>3, <3>6 DEF PeriodEnd, ShiftedMonthEnd
      <4>2. total \in Int
        BY <3>4, YearEndDays, MonthNumbers, SMT
      <4> HIDE DEF total
      <4>3. total \div 12 \in Int /\ (total % 12) + 1 \in Months
        BY <4>2, MonthNumbers, SMT
      <4>4. QED
        BY <4>1, <4>3, ClampedIsDate, SMT
    <3>7. QED
      BY <3>5, <3>6
  <2>3. CASE t.frequency = "one_time"
    BY <2>3 DEF PeriodsFor
  <2>4. t.frequency \in Frequencies
    BY DeadlinesAssumption
  <2>5. QED
    BY <2>1, <2>2, <2>3, <2>4 DEF Frequencies
<1>5. QED
  BY <1>1, <1>2, <1>4, SMT

----------------------------------------------------------------------------
(***************************************************************************)
(* Bags with one of each of their elements.                                *)
(***************************************************************************)
LEMMA OneOfEach ==
    ASSUME NEW S
    PROVE  /\ BagToSet(SetToBag(S)) = S
           /\ \A e \in S : SetToBag(S)[e] = 1
           /\ EmptyBag = SetToBag({})
  BY DEF BagToSet, SetToBag, EmptyBag

LEMMA BagOfUnion ==
    ASSUME NEW S, NEW T, S \cap T = {}
    PROVE  SetToBag(S) (+) SetToBag(T) = SetToBag(S \cup T)
<1>1. DOMAIN SetToBag(S) = S /\ DOMAIN SetToBag(T) = T
  BY DEF SetToBag
<1>2. \A e \in S \cup T :
          (IF e \in S THEN SetToBag(S)[e] ELSE 0) + (IF e \in T THEN SetToBag(T)[e] ELSE 0) = 1
  BY OneOfEach, SMT
<1>3. SetToBag(S) (+) SetToBag(T) = [e \in S \cup T |-> 1]
  BY <1>1, <1>2 DEF (+)
<1>4. QED
  BY <1>3 DEF SetToBag

LEMMA BagWithout ==
    ASSUME NEW S, NEW x
    PROVE  SetToBag(S) (-) SetToBag({x}) = SetToBag(S \ {x})
<1> DEFINE A == SetToBag(S)
           C == SetToBag({x})
           B == [e \in DOMAIN A |-> IF e \in DOMAIN C THEN A[e] - C[e] ELSE A[e]]
<1>1. DOMAIN A = S /\ DOMAIN C = {x}
  BY DEF SetToBag
<1>2. A (-) C = [e \in {d \in DOMAIN B : B[d] > 0} |-> B[e]]
  BY DEF (-)
<1>3. B = [e \in S |-> IF e = x THEN 0 ELSE 1]
  <2>1. \A e \in S : (IF e \in DOMAIN C THEN A[e] - C[e] ELSE A[e]) = IF e = x THEN 0 ELSE 1
    BY <1>1, OneOfEach, SMT
  <2>2. QED
    BY <1>1, <2>1
<1> HIDE DEF A, B, C
<1>4. {d \in DOMAIN B : B[d] > 0} = S \ {x}
  BY <1>3, SMT
<1>5. A (-) C = [e \in S \ {x} |-> 1]
  BY <1>2, <1>3, <1>4
<1>6. QED
  BY <1>5 DEF A, C, SetToBag

----------------------------------------------------------------------------
(***************************************************************************)
(* The invariant.  Its first part types the state and says that the rows   *)
(* are one of each; the second one what overlapping requests may rely on.  *)
(***************************************************************************)
Assignments == [id : Nat, state : {"none", "inactive", "active"}, from : Nat, until : Nat]

\* A generation has planned with what it read.
Planned(g) ==
    /\ g.service \in Assignments /\ g.service.state = "active" /\ g.own \in BOOLEAN
    /\ g.terms \in Terms /\ g.known \subseteq Nat
    /\ g.from \in Nat \ {0} /\ g.to \in Nat /\ g.from <= g.to
    /\ g.plan = PlanDeadlines(g.terms, g.service, g.from, g.to)

TypeInv ==
    /\ today \in Days /\ terms \in Terms
    /\ service \in Assignments
    /\ rows = SetToBag(BagToSet(rows)) /\ BagToSet(rows) \subseteq Nat
    /\ deleted \subseteq Nat
    /\ service.state = "none" => BagToSet(rows) = {}
    /\ DOMAIN gen = Users
    /\ \A u \in Users : gen[u] # Idle => Planned(gen[u])
    /\ filled # Never => filled \in [from : Nat \ {0}, to : Nat] /\ filled.from <= filled.to
    /\ acts \in 0 .. MaxActs /\ passed \in 0 .. MaxDays

\* The assignment is as it was when it was inserted or activated, and nobody else
\* inserts or activates it; of other assignments a generation read a former one.
OwnIsKept ==
    /\ \A u, v \in Users : gen[u] # Idle /\ gen[u].own /\ gen[v] # Idle /\ gen[v].own => u = v
    /\ \A u \in Users : gen[u] # Idle =>
          IF ~gen[u].own THEN gen[u].service.id <= service.id
          ELSE IF gen[u].service.id = service.id
               THEN service.state = "inactive" /\ Same(gen[u].service, service)
               ELSE gen[u].service.id = service.id + 1 /\ service.state = "none"

\* Without an assignment nothing is filled.
NothingToFill == service.state = "none" => filled = Never

\* What a generation of the present assignment knows of stays on record.
KnownStays ==
    \A u \in Users : gen[u] # Idle /\ Placed(gen[u]) =>
        gen[u].known \subseteq BagToSet(rows) \cup deleted

Inv == TypeInv /\ OwnIsKept /\ NothingToFill /\ KnownStays /\ NoPeriodIsLost

LEMMA ForeverIsDay == Forever \in Nat
<1>1. LastYear \in Nat \ {0}
  BY DeadlinesAssumption, SMT
<1>2. 12 \in Months /\ 31 \in 1 .. MonthLength(LastYear, 12)
  BY MonthNumbers, SMT DEF MonthLength
<1>3. QED
  BY <1>1, <1>2, PartsOfDate, SMT DEF Forever

\* Of two days, the first and the last.
LEMMA FirstAndLast ==
    ASSUME NEW a \in Nat, NEW b \in Nat
    PROVE  /\ Min({a, b}) = IF a <= b THEN a ELSE b
           /\ Max({a, b}) = IF a <= b THEN b ELSE a
<1> DEFINE S == {a, b}
           lo == IF a <= b THEN a ELSE b
           hi == IF a <= b THEN b ELSE a
<1>1. /\ lo \in S /\ \A y \in S : lo <= y
      /\ \A x \in S : (\A y \in S : x <= y) => x = lo
  BY SMT
<1>2. /\ hi \in S /\ \A y \in S : hi >= y
      /\ \A x \in S : (\A y \in S : x >= y) => x = hi
  BY SMT
<1> HIDE DEF S, lo, hi
<1>3. Min(S) = lo
  BY <1>1, Zenon DEF Min
<1>4. Max(S) = hi
  BY <1>2, Zenon DEF Max
<1>5. QED
  BY <1>3, <1>4 DEF S, lo, hi

LEMMA MissingAreDays ==
    ASSUME NEW g, Planned(g)
    PROVE  Missing(g) \subseteq Nat
<1>1. \A p \in g.plan : p.end \in Nat
  BY PlanWithinWindow DEF Planned
<1>2. QED
  BY <1>1 DEF Missing

\* What a request reads and plans.
LEMMA ReadsPlans ==
    ASSUME TypeInv, NEW u \in Users, NEW s \in Assignments, s.state = "active",
           NEW own \in BOOLEAN, NEW months \in 1 .. 60, Reads(u, s, own, months)
    PROVE  /\ DOMAIN gen' = Users
           /\ \A v \in Users : v # u => gen'[v] = gen[v]
           /\ Planned(gen'[u])
           /\ gen'[u].service = s /\ gen'[u].own = own /\ gen'[u].known = BagToSet(rows)
<1>1. today \in Nat /\ today > 365 /\ terms \in Terms /\ BagToSet(rows) \subseteq Nat
  BY DeadlinesAssumption DEF TypeInv
<1>2. WindowFrom \in Nat \ {0} /\ WindowTo(months) \in Nat /\ WindowFrom <= WindowTo(months)
  BY <1>1, SMT DEF WindowFrom, WindowTo
<1>3. DOMAIN gen = Users
  BY DEF TypeInv
<1> DEFINE g == [service |-> s, own |-> own, terms |-> terms, known |-> BagToSet(rows),
                 from |-> WindowFrom, to |-> WindowTo(months),
                 plan |-> PlanDeadlines(terms, s, WindowFrom, WindowTo(months))]
<1>4. gen' = [gen EXCEPT ![u] = g]
  BY DEF Reads
<1>5. Planned(g)
  BY <1>1, <1>2 DEF Planned
<1> HIDE DEF g
<1>6. gen'[u] = g /\ DOMAIN gen' = Users /\ \A v \in Users : v # u => gen'[v] = gen[v]
  BY <1>3, <1>4
<1>7. g.service = s /\ g.own = own /\ g.known = BagToSet(rows)
  BY DEF g
<1>8. QED
  BY <1>5, <1>6, <1>7

\* Assigning reads the assignment that it inserts or activates.
LEMMA AssignReads ==
    ASSUME TypeInv, NEW u \in Users, Assign(u)
    PROVE  \E s \in Assignments, own \in BOOLEAN :
              /\ s.state = "active"
              /\ Reads(u, s, own, 18)
              /\ \/ /\ service.state # "none" /\ s.id = service.id /\ Same(s, service)
                    /\ own <=> service.state = "inactive"
                 \/ service.state = "none" /\ s.id = service.id + 1 /\ own
<1>1. service \in Assignments /\ today \in Nat /\ today - 365 \in Nat /\ Forever \in Nat
  BY DeadlinesAssumption, ForeverIsDay, SMT DEF TypeInv
<1>2. CASE service.state # "none" /\ Reads(u, [service EXCEPT !.state = "active"], service.state = "inactive", 18)
  <2> DEFINE s == [service EXCEPT !.state = "active"]
             own == service.state = "inactive"
  <2>1. s \in Assignments /\ s.state = "active" /\ s.id = service.id /\ Same(s, service)
    BY <1>1 DEF Assignments, Same
  <2>2. own \in BOOLEAN
    OBVIOUS
  <2>3. Reads(u, s, own, 18)
    BY <1>2
  <2>4. QED
    <3> HIDE DEF s
    <3>1. QED
      BY <1>2, <2>1, <2>2, <2>3
<1>3. ASSUME service.state = "none",
             NEW from \in {today, today - 365},
             Reads(u, [id |-> service.id + 1, state |-> "active",
                       from |-> from, until |-> Forever], TRUE, 18)
      PROVE  \E s \in Assignments, own \in BOOLEAN :
              /\ s.state = "active"
              /\ Reads(u, s, own, 18)
              /\ \/ /\ service.state # "none" /\ s.id = service.id /\ Same(s, service)
                    /\ own <=> service.state = "inactive"
                 \/ service.state = "none" /\ s.id = service.id + 1 /\ own
  <2> DEFINE s == [id |-> service.id + 1, state |-> "active", from |-> from, until |-> Forever]
  <2>1. s \in Assignments /\ s.state = "active" /\ s.id = service.id + 1
    BY <1>1 DEF Assignments
  <2>2. Reads(u, s, TRUE, 18)
    BY <1>3
  <2>3. QED
    <3> HIDE DEF s
    <3>1. QED
      BY <1>3, <2>1, <2>2
<1>4. \/ /\ service.state # "none"
         /\ Reads(u, [service EXCEPT !.state = "active"], service.state = "inactive", 18)
      \/ /\ service.state = "none"
         /\ \E from \in {today, today - 365} :
               Reads(u, [id |-> service.id + 1, state |-> "active",
                         from |-> from, until |-> Forever], TRUE, 18)
  BY Zenon DEF Assign
<1>5. QED
  BY <1>2, <1>3, <1>4, ZenonT(60)

\* What commit does to the rows.
LEMMA CommitRows ==
    ASSUME TypeInv, NEW u \in Users, Commit(u)
    PROVE  \/ /\ Missing(gen[u]) # {} => Placed(gen[u])
              /\ rows' = SetToBag(BagToSet(rows'))
              /\ BagToSet(rows') = BagToSet(rows) \cup Missing(gen[u])
           \/ rows' = rows /\ service' = service /\ filled' = filled /\ deleted' = deleted
<1> DEFINE M == Missing(gen[u])
<1>1. CASE /\ M # {} => Placed(gen[u]) /\ IndexAllows(M)
           /\ rows' = rows (+) SetToBag(M)
  <2>1. BagToSet(rows) \cap M = {}
    BY <1>1 DEF IndexAllows
  <2>2. rows = SetToBag(BagToSet(rows))
    BY DEF TypeInv
  <2>3. rows' = SetToBag(BagToSet(rows) \cup M)
    BY <1>1, <2>1, <2>2, BagOfUnion
  <2>4. BagToSet(rows') = BagToSet(rows) \cup M
    BY <2>3, OneOfEach
  <2>5. QED
    BY <1>1, <2>3, <2>4
<1>2. QED
  BY <1>1 DEF Commit

LEMMA CommitEnds ==
    ASSUME TypeInv, NEW u \in Users, Commit(u)
    PROVE  /\ gen[u] # Idle /\ Planned(gen[u])
           /\ DOMAIN gen' = Users /\ gen'[u] = Idle
           /\ \A v \in Users : v # u => gen'[v] = gen[v]
           /\ UNCHANGED <<today, terms, acts, passed>>
  BY DEF Commit, TypeInv

LEMMA JoinedIsWindow ==
    ASSUME TypeInv, NEW g, Planned(g)
    PROVE  /\ Joined(g) \in [from : Nat \ {0}, to : Nat] /\ Joined(g).from <= Joined(g).to
           /\ \A x \in Nat : Joined(g).from <= x /\ x <= Joined(g).to =>
                 \/ g.from <= x /\ x <= g.to
                 \/ filled # Never /\ filled.from <= x /\ x <= filled.to
<1>1. g.from \in Nat \ {0} /\ g.to \in Nat /\ g.from <= g.to
  BY DEF Planned
<1>2. CASE filled = Never \/ g.from > filled.to + 1 \/ g.to < filled.from - 1
  <2>1. Joined(g) = [from |-> g.from, to |-> g.to]
    BY <1>2 DEF Joined
  <2>2. QED
    BY <1>1, <2>1
<1>3. CASE ~(filled = Never \/ g.from > filled.to + 1 \/ g.to < filled.from - 1)
  <2> DEFINE a == filled.from
             b == filled.to
  <2>1. a \in Nat \ {0} /\ b \in Nat /\ a <= b /\ ~(g.from > b + 1) /\ ~(g.to < a - 1)
    BY <1>3 DEF TypeInv
  <2>2. Joined(g) = [from |-> Min({g.from, a}), to |-> Max({g.to, b})]
    BY <1>3 DEF Joined
  <2> HIDE DEF a, b
  <2>3. /\ Min({g.from, a}) = IF g.from <= a THEN g.from ELSE a
        /\ Max({g.to, b}) = IF g.to <= b THEN b ELSE g.to
    BY <1>1, <2>1, FirstAndLast
  <2>4. /\ Joined(g).from = IF g.from <= a THEN g.from ELSE a
        /\ Joined(g).to = IF g.to <= b THEN b ELSE g.to
        /\ Joined(g) = [from |-> Joined(g).from, to |-> Joined(g).to]
    BY <2>2, <2>3
  <2>5. /\ Joined(g).from \in Nat \ {0} /\ Joined(g).to \in Nat
        /\ Joined(g).from <= Joined(g).to
        /\ \A x \in Nat : Joined(g).from <= x /\ x <= Joined(g).to =>
              \/ g.from <= x /\ x <= g.to
              \/ a <= x /\ x <= b
    BY <1>1, <2>1, <2>4, SMT
  <2>6. QED
    BY <1>3, <2>4, <2>5 DEF a, b
<1>4. QED
  BY <1>2, <1>3

LEMMA InitTyped == Init => TypeInv
<1> SUFFICES ASSUME Init PROVE TypeInv
  OBVIOUS
<1>1. BagToSet(rows) = {} /\ rows = SetToBag(BagToSet(rows))
  BY OneOfEach DEF Init
<1>2. service \in Assignments
  BY DeadlinesAssumption, ForeverIsDay DEF Init, Assignments
<1>3. QED
  BY <1>1, <1>2, DeadlinesAssumption DEF Init, TypeInv

LEMMA NextTyped == TypeInv /\ [Next]_vars => TypeInv'
<1> SUFFICES ASSUME TypeInv, [Next]_vars PROVE TypeInv'
  OBVIOUS
<1> USE DEF TypeInv
<1>1. ASSUME NEW u \in Users, Generate(u) PROVE TypeInv'
  <2>1. PICK months \in Horizons : Reads(u, service, FALSE, months)
    BY <1>1 DEF Generate
  <2>2. service \in Assignments /\ service.state = "active" /\ months \in 1 .. 60
    BY <1>1, DeadlinesAssumption DEF Generate
  <2>3. DOMAIN gen' = Users /\ \A v \in Users : gen'[v] # Idle => Planned(gen'[v])
    BY <2>1, <2>2, ReadsPlans
  <2>4. QED
    BY <1>1, <2>3 DEF Generate
<1>2. ASSUME NEW u \in Users, Assign(u) PROVE TypeInv'
  <2>1. PICK s \in Assignments, own \in BOOLEAN : s.state = "active" /\ Reads(u, s, own, 18)
    BY <1>2, AssignReads
  <2>2. DOMAIN gen' = Users /\ \A v \in Users : gen'[v] # Idle => Planned(gen'[v])
    BY <2>1, ReadsPlans
  <2>3. QED
    BY <1>2, <2>2 DEF Assign
<1>3. ASSUME NEW u \in Users, Commit(u) PROVE TypeInv'
  <2>1. CASE rows' = rows /\ service' = service /\ filled' = filled /\ deleted' = deleted
    BY <1>3, <2>1, CommitEnds
  <2>2. CASE ~(rows' = rows /\ service' = service /\ filled' = filled /\ deleted' = deleted)
    <3> DEFINE g == gen[u]
    <3>1. /\ Missing(g) # {} => Placed(g)
          /\ rows' = SetToBag(BagToSet(rows'))
          /\ BagToSet(rows') = BagToSet(rows) \cup Missing(g)
      BY <1>3, <2>2, CommitRows
    <3>2. Missing(g) \subseteq Nat /\ Planned(g)
      BY <1>3, CommitEnds, MissingAreDays
    <3>3. /\ service' = IF g.own THEN g.service ELSE service
          /\ filled' = Joined(g) \/ filled' = filled
          /\ deleted' \subseteq deleted
      BY <1>3, <2>2 DEF Commit
    <3>4. service' \in Assignments
      BY <3>2, <3>3 DEF Planned
    <3>5. service'.state = "none" => BagToSet(rows') = {}
      BY <3>1, <3>2, <3>3 DEF Placed, Planned
    <3>6. filled' # Never => filled' \in [from : Nat \ {0}, to : Nat] /\ filled'.from <= filled'.to
      BY <3>2, <3>3, JoinedIsWindow
    <3>7. DOMAIN gen' = Users /\ \A v \in Users : gen'[v] # Idle => Planned(gen'[v])
      BY <1>3, CommitEnds
    <3>8. QED
      BY <1>3, <3>1, <3>2, <3>3, <3>4, <3>5, <3>6, <3>7, CommitEnds
  <2>3. QED
    BY <2>1, <2>2
<1>4. ASSUME NEW t \in Terms, ChangeTerms(t) PROVE TypeInv'
  BY <1>4, DeadlinesAssumption DEF ChangeTerms, Act
<1>5. CASE AssignOnly
  <2>1. service' \in Assignments /\ service'.state = "active"
    BY <1>5, DeadlinesAssumption, ForeverIsDay DEF AssignOnly, Assignments
  <2>2. QED
    BY <1>5, <2>1, DeadlinesAssumption DEF AssignOnly, Act
<1>6. CASE UpdateAssignment
  <2>1. service' \in Assignments /\ service'.state # "none"
    <3>1. PICK until \in {service.until, today, Forever}, state \in {"active", "inactive"} :
             service' = [service EXCEPT !.until = until, !.state = state]
      BY <1>6 DEF UpdateAssignment
    <3>2. until \in Nat
      BY DeadlinesAssumption, ForeverIsDay DEF Assignments
    <3>3. QED
      BY <3>1, <3>2 DEF Assignments
  <2>2. QED
    BY <1>6, <2>1, DeadlinesAssumption DEF UpdateAssignment, Act
<1>7. CASE RemoveAssignment
  <2>1. service' \in Assignments
    BY <1>7 DEF RemoveAssignment, Assignments
  <2>2. BagToSet(rows') = {} /\ rows' = SetToBag(BagToSet(rows'))
    BY <1>7, OneOfEach DEF RemoveAssignment, RowsAfterRemoval
  <2>3. QED
    BY <1>7, <2>1, <2>2, DeadlinesAssumption DEF RemoveAssignment, Act
<1>8. ASSUME NEW end \in BagToSet(rows) \cap Deletable, DeleteDeadline(end) PROVE TypeInv'
  <2>1. rows' = SetToBag(BagToSet(rows')) /\ BagToSet(rows') = BagToSet(rows) \ {end}
    <3>1. rows' = SetToBag(BagToSet(rows)) (-) SetToBag({end})
      BY <1>8 DEF DeleteDeadline
    <3>2. rows' = SetToBag(BagToSet(rows) \ {end})
      BY <3>1, BagWithout
    <3>3. QED
      BY <3>2, OneOfEach
  <2>2. deleted' \subseteq Nat
    BY <1>8 DEF DeleteDeadline
  <2>3. BagToSet(rows') \subseteq Nat /\ (service.state = "none" => BagToSet(rows') = {})
    BY <2>1
  <2>4. acts' \in 0 .. MaxActs
    BY <1>8, DeadlinesAssumption DEF DeleteDeadline, Act
  <2>5. /\ today' = today /\ terms' = terms /\ service' = service /\ gen' = gen
        /\ filled' = filled /\ passed' = passed
    BY <1>8 DEF DeleteDeadline
  <2> HIDE DEF TypeInv
  <2>6. QED
    BY <2>1, <2>2, <2>3, <2>4, <2>5 DEF TypeInv
<1>9. CASE Pass
  BY <1>9, DeadlinesAssumption DEF Pass
<1>10. CASE UNCHANGED vars
  BY <1>10 DEF vars
<1>11. QED
  BY <1>1, <1>2, <1>3, <1>4, <1>5, <1>6, <1>7, <1>8, <1>9, <1>10 DEF Next

\* Every reachable state is typed as the proofs need it: each request under way holds
\* a plan made from what it read, and no period is twice among the rows.
THEOREM AlwaysTyped == Spec => []TypeInv
  BY InitTyped, NextTyped, PTL DEF Spec

\* DeadlinesTypeOK: the state of the generated deadlines has its types, and what no
\* assignment owns is gone.
THEOREM DeadlinesTypeCorrect == Spec => []DeadlinesTypeOK
<1>1. TypeInv => DeadlinesTypeOK
  BY DeadlinesAssumption, OneOfEach DEF TypeInv, DeadlinesTypeOK, Assignments, Planned
<1>2. QED
  BY <1>1, AlwaysTyped, PTL

\* OnePerPeriod: overlapping generations, assignments and removals never give a
\* period two deadlines (generate_deadlines and deadlines_auto_period_idx).
THEOREM NoPeriodTwice == Spec => []OnePerPeriod
<1>1. TypeInv => OnePerPeriod
  BY OneOfEach DEF TypeInv, OnePerPeriod
<1>2. QED
  BY <1>1, AlwaysTyped, PTL

----------------------------------------------------------------------------
(***************************************************************************)
(* No period is lost.                                                      *)
(***************************************************************************)
LEMMA EndsAreDays ==
    ASSUME NEW t \in Terms, NEW end \in EndsOf[t]
    PROVE  /\ end \in Nat
           /\ \E y \in Nat \ {0}, m \in Months : end \in EndsInMonth(t, y, m)
<1>1. PICK y \in Years, m \in Months : end \in EndsInMonth(t, y, m)
  BY DEF EndsOf, Months
<1>2. y \in Nat \ {0}
  BY DeadlinesAssumption, SMT DEF Years
<1>3. end \in Nat
  BY <1>1, <1>2, EndIsDate, PartsOfDate
<1>4. QED
  BY <1>1, <1>2, <1>3

\* What was complete stays so while nothing leaves the record.
LEMMA CompleteKept ==
    ASSUME NoPeriodIsLost, filled' = filled, terms' = terms,
           filled # Never => Same(service, service'),
           BagToSet(rows) \cup deleted \subseteq BagToSet(rows') \cup deleted'
    PROVE  NoPeriodIsLost'
  BY DEF NoPeriodIsLost, Same

\* A generation that is committed while its terms and its assignment hold completes
\* its window.
LEMMA CommitCompletes ==
    ASSUME Inv, NEW u \in Users, Planned(gen[u]), gen[u].terms = terms, terms' = terms,
           Same(gen[u].service, service'), filled' = Joined(gen[u]), Placed(gen[u]),
           gen[u] # Idle,
           filled # Never => Same(service, service'),
           BagToSet(rows') = BagToSet(rows) \cup Missing(gen[u]),
           deleted' = deleted \ Missing(gen[u])
    PROVE  NoPeriodIsLost'
<1> DEFINE g == gen[u]
<1> SUFFICES ASSUME NEW end \in EndsOf[terms],
                    filled'.from <= end, end <= filled'.to,
                    service'.from <= end, FirstDay(terms, end) <= service'.until
             PROVE  end \in BagToSet(rows') \cup deleted'
  BY DEF NoPeriodIsLost
<1>1. end \in Nat /\ terms \in Terms /\ TypeInv
  BY EndsAreDays DEF Inv, TypeInv
<1>2. \/ g.from <= end /\ end <= g.to
      \/ filled # Never /\ filled.from <= end /\ end <= filled.to
  BY <1>1, JoinedIsWindow
<1>3. CASE g.from <= end /\ end <= g.to
  <2>1. PICK y \in Nat \ {0}, m \in Months : end \in EndsInMonth(terms, y, m)
    BY <1>1, EndsAreDays
  <2>2. g.service.from <= end /\ FirstDay(terms, end) <= g.service.until
    BY DEF Same
  <2>3. /\ g.from \in Nat \ {0} /\ g.to \in Nat
        /\ g.plan = PlanDeadlines(terms, g.service, g.from, g.to)
    BY DEF Planned
  <2>4. end \in {p.end : p \in g.plan}
    <3>1. end \in {p.end : p \in PlanDeadlines(terms, g.service, g.from, g.to)}
      BY <1>1, <1>3, <2>1, <2>2, <2>3, PlanIsComplete
    <3>2. QED
      BY <2>3, <3>1
  <2>5. end \in Missing(g) \/ end \in g.known
    BY <2>4 DEF Missing
  <2>6. g.known \subseteq BagToSet(rows) \cup deleted
    BY DEF Inv, KnownStays
  <2>7. QED
    BY <2>5, <2>6
<1>4. CASE filled # Never /\ filled.from <= end /\ end <= filled.to
  <2>1. service.from <= end /\ FirstDay(terms, end) <= service.until
    BY <1>4 DEF Same
  <2>2. end \in BagToSet(rows) \cup deleted
    BY <1>1, <1>4, <2>1 DEF Inv, NoPeriodIsLost
  <2>3. QED
    BY <2>2
<1>5. QED
  BY <1>2, <1>3, <1>4

\* What a commit does to the assignment.
LEMMA CommitService ==
    ASSUME Inv, NEW u \in Users, Commit(u)
    PROVE  \/ service' = service /\ (filled' # filled => Placed(gen[u]))
           \/ /\ gen[u].own /\ service' = gen[u].service /\ service'.state = "active"
              /\ \/ /\ service'.id = service.id /\ service.state = "inactive"
                    /\ Same(service, service')
                 \/ service'.id = service.id + 1 /\ service.state = "none"
<1>1. gen[u] # Idle /\ Planned(gen[u])
  BY CommitEnds DEF Inv
<1>2. CASE service' = service
  BY <1>2 DEF Commit
<1>3. CASE service' # service
  <2>1. gen[u].own /\ service' = gen[u].service
    BY <1>3 DEF Commit
  <2>2. service'.state = "active"
    BY <1>1, <2>1 DEF Planned
  <2>3. QED
    BY <1>1, <2>1, <2>2 DEF Inv, OwnIsKept, Same
<1>4. QED
  BY <1>2, <1>3

LEMMA CommitKeeps ==
    ASSUME Inv, NEW u \in Users, Commit(u), TypeInv'
    PROVE  OwnIsKept' /\ NothingToFill' /\ KnownStays' /\ NoPeriodIsLost'
<1> DEFINE g == gen[u]
<1>1. /\ g # Idle /\ Planned(g)
      /\ DOMAIN gen' = Users /\ gen'[u] = Idle
      /\ \A v \in Users : v # u => gen'[v] = gen[v]
      /\ UNCHANGED <<today, terms, acts, passed>>
  BY CommitEnds DEF Inv
<1>2. \A v \in Users : gen'[v] # Idle => v # u /\ gen'[v] = gen[v] /\ gen[v] # Idle
  BY <1>1
<1>3. \A v \in Users : gen'[v] # Idle => Planned(gen[v])
  BY <1>2 DEF Inv, TypeInv
<1>4. service.id \in Nat /\ service'.id \in Nat
  BY DEF Inv, TypeInv, Assignments
<1>5. OwnIsKept'
  <2>1. \A v, w \in Users : gen'[v] # Idle /\ gen'[v].own /\ gen'[w] # Idle /\ gen'[w].own => v = w
    BY <1>2 DEF Inv, OwnIsKept
  <2>2. ASSUME NEW v \in Users, gen'[v] # Idle
        PROVE  IF ~gen'[v].own THEN gen'[v].service.id <= service'.id
               ELSE IF gen'[v].service.id = service'.id
                    THEN service'.state = "inactive" /\ Same(gen'[v].service, service')
                    ELSE gen'[v].service.id = service'.id + 1 /\ service'.state = "none"
    <3>1. v # u /\ gen'[v] = gen[v] /\ gen[v] # Idle /\ gen[v].service.id \in Nat
      BY <1>2, <1>3, <2>2 DEF Planned, Assignments
    <3>2. CASE gen[v].own
      <4>1. ~g.own
        BY <1>1, <3>1, <3>2 DEF Inv, OwnIsKept
      <4>2. service' = service
        BY <4>1, CommitService
      <4>3. QED
        BY <3>1, <3>2, <4>2 DEF Inv, OwnIsKept
    <3>3. CASE ~gen[v].own
      <4>1. gen[v].service.id <= service.id
        BY <3>1, <3>3 DEF Inv, OwnIsKept
      <4>2. service.id <= service'.id
        BY <1>4, CommitService, SMT
      <4>3. QED
        BY <1>4, <3>1, <3>3, <4>1, <4>2, SMT
    <3>4. QED
      BY <3>2, <3>3
  <2>3. QED
    BY <2>1, <2>2 DEF OwnIsKept
<1>6. NothingToFill'
  <2> SUFFICES ASSUME service'.state = "none" PROVE filled' = Never
    BY DEF NothingToFill
  <2>1. service' = service /\ (filled' # filled => Placed(g))
    BY CommitService
  <2>2. service.state = "none" /\ filled = Never
    BY <2>1 DEF Inv, NothingToFill
  <2>3. CASE filled' # filled
    <3>1. g.own
      BY <2>1, <2>2, <2>3 DEF Placed
    <3>2. service' = g.service
      BY <3>1, <2>3 DEF Commit
    <3>3. QED
      BY <1>1, <3>2 DEF Planned
  <2>4. QED
    BY <2>2, <2>3
<1>7. BagToSet(rows) \cup deleted \subseteq BagToSet(rows') \cup deleted'
  <2>1. \/ /\ BagToSet(rows') = BagToSet(rows) \cup Missing(g)
           /\ deleted' = deleted \ Missing(g)
        \/ rows' = rows /\ deleted' = deleted
    <3>1. TypeInv
      BY DEF Inv
    <3>2. QED
      BY <3>1, CommitRows DEF Commit
  <2>2. QED
    BY <2>1
<1>8. KnownStays'
  <2> SUFFICES ASSUME NEW v \in Users, gen'[v] # Idle, Placed(gen[v])'
               PROVE  gen'[v].known \subseteq BagToSet(rows') \cup deleted'
    BY DEF KnownStays
  <2>1. v # u /\ gen'[v] = gen[v] /\ gen[v] # Idle /\ gen[v].service.id \in Nat
    BY <1>2, <1>3 DEF Planned, Assignments
  <2>2. Placed(gen[v])
    <3>1. CASE gen[v].own
      BY <3>1 DEF Placed
    <3>2. CASE ~gen[v].own
      <4>1. service'.state # "none" /\ service'.id = gen[v].service.id
        BY <2>1, <3>2 DEF Placed
      <4>2. gen[v].service.id <= service.id
        BY <2>1, <3>2 DEF Inv, OwnIsKept
      <4>3. service.state # "none" /\ service.id = gen[v].service.id
        BY <1>4, <2>1, <4>1, <4>2, CommitService, SMT
      <4>4. QED
        BY <4>3 DEF Placed
    <3>3. QED
      BY <3>1, <3>2
  <2>3. gen[v].known \subseteq BagToSet(rows) \cup deleted
    BY <2>1, <2>2 DEF Inv, KnownStays
  <2>4. QED
    BY <2>1, <2>3, <1>7
<1>9. NoPeriodIsLost'
  <2>1. filled # Never => Same(service, service')
    <3>1. service.state # "none" \/ filled = Never
      BY DEF Inv, NothingToFill
    <3>2. QED
      BY <3>1, CommitService DEF Same
  <2>2. CASE filled' = filled
    BY <1>1, <1>7, <2>1, <2>2, CompleteKept DEF Inv
  <2>3. CASE filled' # filled
    <3>1. /\ filled' = Joined(g) /\ g.terms = terms /\ Same(g.service, service')
          /\ Placed(g) /\ deleted' = deleted \ Missing(g)
      BY <2>3 DEF Commit
    <3>2. BagToSet(rows') = BagToSet(rows) \cup Missing(g)
      BY <2>3, CommitRows DEF Inv
    <3>3. QED
      BY <1>1, <2>1, <3>1, <3>2, CommitCompletes
  <2>4. QED
    BY <2>2, <2>3
<1>10. QED
  BY <1>5, <1>6, <1>8, <1>9

\* Generate and Assign only read: what they plan is known to be on record.
LEMMA ReadsKeep ==
    ASSUME Inv, NEW u \in Users, NEW s \in Assignments, NEW own \in BOOLEAN,
           DOMAIN gen' = Users, \A v \in Users : v # u => gen'[v] = gen[v],
           gen'[u].service = s, gen'[u].own = own, gen'[u].known = BagToSet(rows),
           UNCHANGED <<terms, service, rows, filled, deleted>>,
           own => ~Locked,
           IF own THEN \/ s.id = service.id /\ service.state = "inactive" /\ Same(s, service)
                       \/ s.id = service.id + 1 /\ service.state = "none"
                  ELSE s.id = service.id
    PROVE  OwnIsKept' /\ NothingToFill' /\ KnownStays' /\ NoPeriodIsLost'
<1>1. service.id \in Nat /\ s.id \in Nat
  BY DEF Inv, TypeInv, Assignments
<1>2. OwnIsKept'
  <2>1. \A v, w \in Users : gen'[v] # Idle /\ gen'[v].own /\ gen'[w] # Idle /\ gen'[w].own => v = w
    BY DEF Inv, OwnIsKept, Locked
  <2>2. ASSUME NEW v \in Users, gen'[v] # Idle
        PROVE  IF ~gen'[v].own THEN gen'[v].service.id <= service'.id
               ELSE IF gen'[v].service.id = service'.id
                    THEN service'.state = "inactive" /\ Same(gen'[v].service, service')
                    ELSE gen'[v].service.id = service'.id + 1 /\ service'.state = "none"
    <3>1. CASE v = u
      BY <1>1, <3>1, SMT
    <3>2. CASE v # u
      BY <2>2, <3>2 DEF Inv, OwnIsKept
    <3>3. QED
      BY <3>1, <3>2
  <2>3. QED
    BY <2>1, <2>2 DEF OwnIsKept
<1>3. NothingToFill'
  BY DEF Inv, NothingToFill
<1>4. KnownStays'
  BY DEF Inv, KnownStays, Placed
<1>5. NoPeriodIsLost'
  BY DEF Inv, NoPeriodIsLost
<1>6. QED
  BY <1>2, <1>3, <1>4, <1>5

LEMMA InitKeeps == Init => Inv
<1>1. Init => TypeInv
  BY InitTyped
<1>2. Init => OwnIsKept /\ NothingToFill /\ KnownStays /\ NoPeriodIsLost
  BY DEF Init, OwnIsKept, NothingToFill, KnownStays, NoPeriodIsLost
<1>3. QED
  BY <1>1, <1>2 DEF Inv

LEMMA NextKeeps == Inv /\ [Next]_vars => Inv'
<1> SUFFICES ASSUME Inv, [Next]_vars
             PROVE  OwnIsKept' /\ NothingToFill' /\ KnownStays' /\ NoPeriodIsLost'
  BY NextTyped DEF Inv
<1>0. TypeInv /\ TypeInv'
  BY NextTyped DEF Inv
<1>a. /\ service.id \in Nat
      /\ \A u \in Users : gen[u] # Idle => gen[u].service.id \in Nat /\ gen[u].own \in BOOLEAN
  BY <1>0 DEF TypeInv, Planned, Assignments
<1>1. ASSUME NEW u \in Users, Generate(u)
      PROVE  OwnIsKept' /\ NothingToFill' /\ KnownStays' /\ NoPeriodIsLost'
  <2>1. PICK months \in Horizons : Reads(u, service, FALSE, months)
    BY <1>1 DEF Generate
  <2>2. service \in Assignments /\ service.state = "active" /\ months \in 1 .. 60
    BY <1>0, <1>1, DeadlinesAssumption DEF Generate, TypeInv
  <2>3. /\ DOMAIN gen' = Users /\ \A v \in Users : v # u => gen'[v] = gen[v]
        /\ gen'[u].service = service /\ gen'[u].own = FALSE /\ gen'[u].known = BagToSet(rows)
    BY <1>0, <2>1, <2>2, ReadsPlans
  <2>4. UNCHANGED <<terms, service, rows, filled, deleted>>
    BY <1>1 DEF Generate
  <2>5. QED
    BY <2>2, <2>3, <2>4, ReadsKeep
<1>2. ASSUME NEW u \in Users, Assign(u)
      PROVE  OwnIsKept' /\ NothingToFill' /\ KnownStays' /\ NoPeriodIsLost'
  <2>1. PICK s \in Assignments, own \in BOOLEAN :
              /\ s.state = "active"
              /\ Reads(u, s, own, 18)
              /\ \/ /\ service.state # "none" /\ s.id = service.id /\ Same(s, service)
                    /\ own <=> service.state = "inactive"
                 \/ service.state = "none" /\ s.id = service.id + 1 /\ own
    BY <1>0, <1>2, AssignReads
  <2>2. /\ DOMAIN gen' = Users /\ \A v \in Users : v # u => gen'[v] = gen[v]
        /\ gen'[u].service = s /\ gen'[u].own = own /\ gen'[u].known = BagToSet(rows)
    BY <1>0, <2>1, ReadsPlans
  <2>3. ~Locked /\ UNCHANGED <<terms, service, rows, filled, deleted>>
    BY <1>2 DEF Assign
  <2>4. IF own THEN \/ s.id = service.id /\ service.state = "inactive" /\ Same(s, service)
                    \/ s.id = service.id + 1 /\ service.state = "none"
               ELSE s.id = service.id
    BY <2>1
  <2>5. QED
    BY <2>2, <2>3, <2>4, ReadsKeep
<1>3. ASSUME NEW u \in Users, Commit(u)
      PROVE  OwnIsKept' /\ NothingToFill' /\ KnownStays' /\ NoPeriodIsLost'
  BY <1>0, <1>3, CommitKeeps
<1>4. ASSUME NEW t \in Terms, ChangeTerms(t)
      PROVE  OwnIsKept' /\ NothingToFill' /\ KnownStays' /\ NoPeriodIsLost'
  BY <1>4 DEF ChangeTerms, Inv, OwnIsKept, NothingToFill, KnownStays, NoPeriodIsLost, Placed
<1>5. CASE AssignOnly
  <2>1. /\ ~Locked /\ service.state = "none" /\ filled' = Never
        /\ service'.id = service.id + 1 /\ service'.state = "active"
        /\ UNCHANGED <<gen, rows, deleted>>
    BY <1>5 DEF AssignOnly, Inv, NothingToFill
  <2>2. \A u \in Users : gen[u] # Idle => ~gen[u].own /\ gen[u].service.id <= service.id
    BY <2>1 DEF Locked, Inv, OwnIsKept
  <2>3. OwnIsKept'
    BY <1>a, <2>1, <2>2 DEF OwnIsKept
  <2>4. KnownStays'
    <3>1. \A u \in Users : gen[u] # Idle => gen[u].service.id # service'.id
      BY <1>a, <2>1, <2>2, SMT
    <3>2. QED
      BY <2>1, <2>2, <3>1 DEF KnownStays, Placed
  <2>5. QED
    BY <2>1, <2>3, <2>4 DEF NothingToFill, NoPeriodIsLost
<1>6. CASE UpdateAssignment
  <2>1. PICK until \in {service.until, today, Forever}, state \in {"active", "inactive"} :
             service' = [service EXCEPT !.until = until, !.state = state]
    BY <1>6 DEF UpdateAssignment
  <2>2. service'.id = service.id /\ service'.state # "none"
    BY <1>0, <2>1 DEF TypeInv, Assignments
  <2>3. /\ ~Locked /\ service.state # "none"
        /\ filled' = IF Same(service, service') THEN filled ELSE Never
        /\ UNCHANGED <<gen, rows, deleted, terms>>
    BY <1>6 DEF UpdateAssignment
  <2>4. OwnIsKept'
    BY <2>2, <2>3 DEF Locked, Inv, OwnIsKept
  <2>5. KnownStays'
    BY <2>2, <2>3 DEF Inv, KnownStays, Placed
  <2>6. NoPeriodIsLost'
    <3>1. CASE Same(service, service')
      BY <2>3, <3>1, CompleteKept DEF Inv
    <3>2. CASE ~Same(service, service')
      BY <2>3, <3>2 DEF NoPeriodIsLost
    <3>3. QED
      BY <3>1, <3>2
  <2>7. QED
    BY <2>2, <2>4, <2>5, <2>6 DEF NothingToFill
<1>7. CASE RemoveAssignment
  <2>1. /\ ~Locked /\ filled' = Never /\ UNCHANGED gen
        /\ service'.id = service.id /\ service'.state = "none"
    BY <1>0, <1>7 DEF RemoveAssignment, TypeInv, Assignments
  <2>2. OwnIsKept'
    BY <2>1 DEF Locked, Inv, OwnIsKept
  <2>3. KnownStays'
    BY <2>1 DEF Locked, KnownStays, Placed
  <2>4. QED
    BY <2>1, <2>2, <2>3 DEF NothingToFill, NoPeriodIsLost
<1>8. ASSUME NEW end \in BagToSet(rows) \cap Deletable, DeleteDeadline(end)
      PROVE  OwnIsKept' /\ NothingToFill' /\ KnownStays' /\ NoPeriodIsLost'
  <2>1. BagToSet(rows') = BagToSet(rows) \ {end}
    <3>1. rows' = SetToBag(BagToSet(rows)) (-) SetToBag({end})
      BY <1>0, <1>8 DEF DeleteDeadline, TypeInv
    <3>2. rows' = SetToBag(BagToSet(rows) \ {end})
      BY <3>1, BagWithout
    <3>3. QED
      BY <3>2, OneOfEach
  <2>2. deleted' = deleted \cup {end} /\ UNCHANGED <<terms, service, gen, filled>>
    BY <1>8 DEF DeleteDeadline
  <2>3. BagToSet(rows) \cup deleted \subseteq BagToSet(rows') \cup deleted'
    BY <2>1, <2>2
  <2>4. OwnIsKept' /\ NothingToFill'
    BY <2>2 DEF Inv, OwnIsKept, NothingToFill
  <2>5. KnownStays'
    BY <2>2, <2>3 DEF Inv, KnownStays, Placed
  <2>6. NoPeriodIsLost'
    BY <2>2, <2>3, CompleteKept DEF Inv, Same
  <2>7. QED
    BY <2>4, <2>5, <2>6
<1>9. CASE Pass
  BY <1>9 DEF Pass, Inv, OwnIsKept, NothingToFill, KnownStays, NoPeriodIsLost, Placed
<1>10. CASE UNCHANGED vars
  BY <1>10 DEF vars, Inv, OwnIsKept, NothingToFill, KnownStays, NoPeriodIsLost, Placed
<1>11. QED
  BY <1>1, <1>2, <1>3, <1>4, <1>5, <1>6, <1>7, <1>8, <1>9, <1>10 DEF Next

\* NoPeriodIsLost: of the days that generation has filled, every period of the terms
\* and the assignment that ended on one has its deadline, unless somebody deleted it
\* (generate_deadlines and plan_deadlines).
THEOREM NothingIsLost == Spec => []NoPeriodIsLost
<1>1. Inv => NoPeriodIsLost
  BY DEF Inv
<1>2. QED
  BY <1>1, InitKeeps, NextKeeps, PTL DEF Spec

----------------------------------------------------------------------------
(***************************************************************************)
(* The periods of a plan leave no gap.  Months are counted through: the    *)
(* month m of the year y is the one numbered 12 * y + m.                   *)
(***************************************************************************)
LEMMA MonthsFollow ==
    ASSUME NEW y \in Int, NEW m \in Months, NEW z \in Int, NEW n \in Months,
           12 * y + m < 12 * z + n
    PROVE  MonthEnd(y, m) < Date(z, n, 1)
<1>1. /\ m \in Int /\ 1 <= m /\ m <= 12 /\ n \in Int /\ 1 <= n /\ n <= 12
      /\ YearStart(z) \in Int /\ YearStart(y) \in Int /\ YearStart(y + 1) \in Int
      /\ MonthLength(y, m) \in Nat \ {0}
      /\ MonthLength(z, n) \in Nat \ {0}
      /\ DaysBeforeMonth(y, m) \in Nat /\ DaysBeforeMonth(z, n) \in Nat
  <2>1. y + 1 \in Int
    OBVIOUS
  <2>2. YearStart(z) \in Int /\ YearStart(y) \in Int /\ YearStart(y + 1) \in Int
    BY <2>1, YearStartInt, Zenon
  <2>3. m \in Int /\ 1 <= m /\ m <= 12 /\ n \in Int /\ 1 <= n /\ n <= 12
    BY MonthNumbers, SMT
  <2>4. MonthLength(y, m) \in Nat \ {0} /\ DaysBeforeMonth(y, m) \in Nat
    BY MonthLengths, SMT
  <2>5. MonthLength(z, n) \in Nat \ {0} /\ DaysBeforeMonth(z, n) \in Nat
    BY MonthLengths, SMT
  <2>6. QED
    BY <2>2, <2>3, <2>4, <2>5
<1>2. MonthEnd(y, m) = YearStart(y) + DaysBeforeMonth(y, m) + MonthLength(y, m) - 1
  BY DEF MonthEnd, Date
<1>3. Date(z, n, 1) = YearStart(z) + DaysBeforeMonth(z, n) + 1 - 1
  BY DEF Date
<1>4. CASE y = z
  <2>1. DaysBeforeMonth(y, m) + MonthLength(y, m) <= DaysBeforeMonth(z, n)
    BY <1>1, <1>4, MonthsInOrder, SMT
  <2>2. QED
    BY <1>1, <1>2, <1>3, <1>4, <2>1, SMT
<1>5. CASE y < z
  <2>1. MonthEnd(y, m) < YearStart(y + 1)
    <3>1. MonthLength(y, m) \in 1 .. MonthLength(y, m)
      BY <1>1, SMT
    <3>2. QED
      BY <3>1, DateInYear, Zenon DEF MonthEnd
  <2>2. YearStart(y + 1) <= YearStart(z)
    BY <1>5, YearsInOrder
  <2>3. QED
    BY <1>1, <1>2, <1>3, <2>1, <2>2, SMT
<1>6. QED
  BY <1>1, <1>4, <1>5, SMT

\* The day after a month is the first one of the next.
LEMMA MonthsTouch ==
    ASSUME NEW y \in Int, NEW m \in Months, NEW z \in Int, NEW n \in Months,
           12 * y + m + 1 = 12 * z + n
    PROVE  Date(z, n, 1) = MonthEnd(y, m) + 1
<1>1. m \in Int /\ 1 <= m /\ m <= 12 /\ n \in Int /\ 1 <= n /\ n <= 12 /\ 1 \in Months
  BY MonthNumbers, SMT
<1>2. MonthEnd(y, m) = YearStart(y) + DaysBeforeMonth(y, m) + MonthLength(y, m) - 1
  BY DEF MonthEnd, Date
<1>3. Date(z, n, 1) = YearStart(z) + DaysBeforeMonth(z, n) + 1 - 1
  BY DEF Date
<1>4. CASE m = 12
  <2>1. z = y + 1 /\ n = 1
    BY <1>1, <1>4, SMT
  <2>2. DaysBeforeMonth(z, 1) = 0
    BY <1>1, MonthLengths, SMT
  <2>3. DaysBeforeMonth(y, 12) + MonthLength(y, 12) = IF Leap(y) THEN 366 ELSE 365
    BY MonthLengths, Zenon
  <2>4. YearStart(y) \in Int /\ YearStart(y + 1) = YearStart(y) + IF Leap(y) THEN 366 ELSE 365
    BY NextYear, YearStartInt, ZenonT(60)
  <2>5. DaysBeforeMonth(y, m) \in Int /\ MonthLength(y, m) \in Int
    BY MonthLengths, SMT
  <2>6. QED
    BY <1>2, <1>3, <1>4, <2>1, <2>2, <2>3, <2>4, <2>5, SMT
<1>5. CASE m # 12
  <2>1. z = y /\ n = m + 1 /\ m \in {1, 2, 3, 4, 5, 6, 7, 8, 9, 10, 11}
    BY <1>1, <1>5, SMT
  <2>2. Leap(y) \in BOOLEAN
    BY DEF Leap
  <2>3. MonthLength(y, m) = IF m = 2 THEN IF Leap(y) THEN 29 ELSE 28
                            ELSE IF m \in {4, 6, 9, 11} THEN 30 ELSE 31
    BY DEF MonthLength
  <2>4. DaysBeforeMonth(y, m + 1) = DaysBeforeMonth(y, m) + MonthLength(y, m)
    BY <2>1, <2>2, <2>3, MonthTable, SMT DEF DaysBeforeMonth
  <2>5. YearStart(y) \in Int /\ DaysBeforeMonth(y, m) \in Int /\ MonthLength(y, m) \in Int
    BY YearStartInt, MonthLengths, SMT
  <2>6. QED
    BY <1>2, <1>3, <2>1, <2>4, <2>5, SMT
<1>6. QED
  BY <1>4, <1>5

\* A period starts after the day, so many months before, that its end falls on.
LEMMA StartOfPeriod ==
    ASSUME NEW f \in {"annual", "semi_annual", "quarterly"},
           NEW y \in Nat \ {0}, NEW m \in Months, NEW d \in 1 .. MonthLength(y, m)
    PROVE  \E z \in Int, n \in Months :
              /\ 12 * z + n = 12 * y + m - Stride(f)
              /\ PeriodStart(Date(y, m, d), f) = Clamped(z, n, d) + 1
<1> DEFINE x == Date(y, m, d)
           total == m - 1 + (-Stride(f))
           z == y + total \div 12
           n == (total % 12) + 1
<1>1. YearOf(x) = y /\ MonthOf(x) = m /\ DayOf(x) = d
  BY PartsOfDate
<1>2. AddMonths(x, -Stride(f)) = Clamped(z, n, d)
  <2> HIDE DEF x
  <2>1. QED
    BY <1>1, Zenon DEF AddMonths
<1>3. Stride(f) \in {12, 6, 3}
  BY DEF Stride
<1>4. m \in Int /\ 1 <= m /\ m <= 12 /\ total \in Int
  BY <1>3, MonthNumbers, SMT
<1>5. z \in Int /\ n \in Int /\ 1 <= n /\ n <= 12 /\ 12 * z + n = 12 * y + m - Stride(f)
  <2>1. 12 * (total \div 12) + (total % 12) = total /\ total \div 12 \in Int
        /\ total % 12 \in 0 .. 11
    <3> HIDE DEF total
    <3>1. QED
      BY <1>4, SMT
  <2>2. total = m - 1 - Stride(f)
    BY <1>3, <1>4, SMT
  <2> DEFINE quo == total \div 12
             rem == total % 12
  <2>3. 12 * quo + rem = m - 1 - Stride(f) /\ quo \in Int /\ rem \in 0 .. 11
    BY <2>1, <2>2
  <2>4. z = y + quo /\ n = rem + 1
    OBVIOUS
  <2> HIDE DEF quo, rem, z, n
  <2>5. QED
    BY <1>3, <1>4, <2>3, <2>4, SMT
<1> HIDE DEF z, n
<1>6. n \in Months
  BY <1>5, MonthNumbers, SMT
<1>7. PeriodStart(x, f) = Clamped(z, n, d) + 1
  BY <1>2, Zenon DEF PeriodStart
<1>8. QED
  BY <1>5, <1>6, <1>7

\* Dates begin with the year 1.
LEMMA YearsOfDays ==
    ASSUME NEW y \in Int, NEW m \in Months, NEW d \in 1 .. MonthLength(y, m), Date(y, m, d) >= 1
    PROVE  y \in Nat \ {0}
<1>1. Date(y, m, d) < YearStart(y + 1)
  BY DateInYear
<1>2. y + 1 \in Int
  OBVIOUS
<1>3. YearStart(y + 1) \in Int /\ YearStart(1) = 1
  BY <1>2, YearStartInt, SMT DEF YearStart
<1>4. CASE y < 0
  <2>1. YearStart(y + 1) <= YearStart(1) \/ y + 1 = 1
    <3>1. y + 1 < 1 => YearStart(y + 1 + 1) <= YearStart(1)
      BY <1>2, YearsInOrder
    <3>2. YearStart(y + 1 + 1) = YearStart(y + 1) + (IF Leap(y + 1) THEN 366 ELSE 365)
      BY <1>2, NextYear, ZenonT(60)
    <3>3. QED
      BY <1>3, <1>4, <3>1, <3>2, SMT
  <2>2. Date(y, m, d) \in Int
    <3>1. d \in Int
      BY MonthLengths, SMT
    <3>2. QED
      BY <3>1, DateInt
  <2>3. QED
    BY <1>1, <1>3, <1>4, <2>1, <2>2, SMT
<1>5. CASE y = 0
  <2>1. Date(y, m, d) \in Int
    <3>1. d \in Int
      BY MonthLengths, SMT
    <3>2. QED
      BY <3>1, DateInt
  <2>2. QED
    BY <1>1, <1>3, <1>5, <2>1, SMT
<1>6. QED
  BY <1>4, <1>5, SMT

\* The end of a period in a month of which one ends.
EndIn(t, y, m) == IF m = YearEndOf(t).month THEN FiscalYearEnd(y, YearEndOf(t)) ELSE MonthEnd(y, m)

LEMMA EndsAreSpaced ==
    ASSUME NEW t \in Terms, t.frequency \in {"annual", "semi_annual", "quarterly"},
           NEW y \in Int, NEW m \in Months
    PROVE  /\ EndsInMonth(t, y, m) =
                 IF (m - YearEndOf(t).month) % Stride(t.frequency) = 0 THEN {EndIn(t, y, m)} ELSE {}
           /\ YearEndOf(t).month \in Months
           /\ Stride(t.frequency) \in {3, 6, 12}
<1>1. Stride(t.frequency) \in {3, 6, 12}
  BY DEF Stride
<1>2. YearEndOf(t).month \in Months
  BY YearEndDays
<1>3. m = YearEndOf(t).month => (m - YearEndOf(t).month) % Stride(t.frequency) = 0
  BY <1>1, <1>2, MonthNumbers, SMT
<1>4. QED
  BY <1>1, <1>2, <1>3 DEF EndsInMonth, EndIn

LEMMA ShiftedIsEnd ==
    ASSUME NEW t \in Terms, t.frequency \in {"annual", "semi_annual", "quarterly"},
           NEW z \in Int, NEW shift \in Shifts(t.frequency),
           PeriodEnd(z, shift, YearEndOf(t)) >= 1
    PROVE  \E y \in Nat \ {0}, m \in Months :
               PeriodEnd(z, shift, YearEndOf(t)) \in EndsInMonth(t, y, m)
<1> DEFINE ye == YearEndOf(t)
           x == PeriodEnd(z, shift, ye)
<1>1. ye.month \in Months /\ ye.month \in Int /\ 1 <= ye.month /\ ye.month <= 12 /\ ye.day \in Nat \ {0}
  BY YearEndDays, MonthNumbers, SMT
<1>2. PICK y \in Int, m \in Months :
          /\ x = EndIn(t, y, m) /\ (m - ye.month) % Stride(t.frequency) = 0
  <2>1. CASE shift = 0
    <3>1. x = EndIn(t, z, ye.month)
      BY <2>1, Zenon DEF PeriodEnd, EndIn
    <3>2. (ye.month - ye.month) % Stride(t.frequency) = 0
      <4>1. Stride(t.frequency) \in {3, 6, 12}
        BY DEF Stride
      <4>2. QED
        BY <1>1, <4>1, SMT
    <3>3. QED
      BY <1>1, <3>1, <3>2
  <2>2. CASE shift # 0
    <3> DEFINE total == z * 12 + ye.month - 1 + shift
               y == total \div 12
               m == (total % 12) + 1
    <3>1. x = MonthEnd(y, m)
      BY <2>2, Zenon DEF PeriodEnd, ShiftedMonthEnd
    <3>2. /\ shift \in Int /\ -12 < shift /\ shift < 0
          /\ shift % Stride(t.frequency) = 0 /\ Stride(t.frequency) \in {3, 6, 12}
      <4>1. CASE t.frequency = "annual"
        BY <2>2, <4>1 DEF Shifts
      <4>2. CASE t.frequency = "semi_annual"
        <5>1. shift = -6 /\ Stride(t.frequency) = 6
          BY <2>2, <4>2 DEF Shifts, Stride
        <5>2. QED
          BY <5>1, SMT
      <4>3. CASE t.frequency = "quarterly"
        <5>1. shift \in {-9, -6, -3} /\ Stride(t.frequency) = 3
          BY <2>2, <4>3 DEF Shifts, Stride
        <5>2. QED
          BY <5>1, SMT
      <4>4. QED
        BY <4>1, <4>2, <4>3
    <3>3. total \in Int
      BY <1>1, <3>2, SMT
    <3>4. y \in Int /\ m \in Int /\ 1 <= m /\ m <= 12 /\ 12 * y + m - 1 = total
      <4> HIDE DEF total
      <4>1. QED
        BY <3>3, SMT
    <3>5. 12 * y + m - 1 = z * 12 + ye.month - 1 + shift
      BY <3>4
    <3> HIDE DEF total, y, m
    <3>6. m # ye.month /\ (m - ye.month) % Stride(t.frequency) = 0
      <4>1. m - ye.month = 12 * (z - y) + shift
        BY <1>1, <3>2, <3>4, <3>5, SMT
      <4>2. m # ye.month
        BY <1>1, <3>2, <3>4, <4>1, SMT
      <4>3. (12 * (z - y) + shift) % Stride(t.frequency) = 0
        <5>1. CASE Stride(t.frequency) = 3
          BY <3>2, <3>4, <5>1, SMT
        <5>2. CASE Stride(t.frequency) = 6
          BY <3>2, <3>4, <5>2, SMT
        <5>3. CASE Stride(t.frequency) = 12
          BY <3>2, <3>4, <5>3, SMT
        <5>4. QED
          BY <3>2, <5>1, <5>2, <5>3
      <4>4. QED
        BY <4>1, <4>2, <4>3
    <3>7. m \in Months
      BY <3>4, MonthNumbers, SMT
    <3>8. x = EndIn(t, y, m)
      <4> HIDE DEF x
      <4>1. QED
        BY <3>1, <3>6, Zenon DEF EndIn
    <3>9. QED
      BY <3>4, <3>6, <3>7, <3>8
  <2>3. QED
    BY <2>1, <2>2
<1>3. x \in EndsInMonth(t, y, m)
  <2> HIDE DEF x
  <2>1. QED
    BY <1>2, EndsAreSpaced
<1>4. y \in Nat \ {0}
  <2>1. \E d \in 1 .. MonthLength(y, m) : x = Date(y, m, d)
    <3> HIDE DEF x, ye
    <3>1. x = Clamped(y, m, ye.day) \/ x = MonthEnd(y, m)
      BY <1>2, Zenon DEF EndIn, FiscalYearEnd, ye
    <3>2. QED
      BY <1>1, <3>1, ClampedIsDate, SMT
  <2>2. QED
    BY <2>1, YearsOfDays
<1>5. QED
  BY <1>3, <1>4

\* A plan is of whole periods of the terms, from their first days to their ends.
LEMMA PlanIsOfPeriods ==
    ASSUME NEW t \in Terms, NEW s, NEW from \in Nat \ {0}, NEW to \in Nat,
           NEW p \in PlanDeadlines(t, s, from, to)
    PROVE  /\ \E y \in Nat \ {0}, m \in Months : p.end \in EndsInMonth(t, y, m)
           /\ p.start = FirstDay(t, p.end)
           /\ s.from <= p.end /\ p.start <= s.until
<1> DEFINE years == YearsAround(from, to)
           ye == YearEndOf(t)
<1>1. PICK q \in PeriodsFor(t.frequency, ye, from, to) :
          p.end = q.end /\ p.start = q.start /\ q.end >= s.from /\ q.start <= s.until
  BY DEF PlanDeadlines, YearEndOf
<1>2. s.from <= p.end /\ p.start <= s.until
  BY <1>1, SMT
<1>3. p.end \in Nat \ {0}
  BY PlanWithinWindow, SMT
<1>4. years \subseteq Int
  <2>1. YearOf(from) \in Int
    BY YearOfDay, SMT
  <2>2. QED
    BY <2>1, SMT DEF YearsAround
<1> HIDE DEF years
<1>5. CASE t.frequency = "monthly"
  <2>1. q \in {[start |-> Date(y, m, 1), end |-> MonthEnd(y, m)] : y \in years, m \in 1 .. 12}
    BY <1>5 DEF PeriodsFor, years
  <2>2. PICK y \in Int, m \in Months : q.end = MonthEnd(y, m) /\ q.start = Date(y, m, 1)
    BY <2>1, <1>4 DEF Months
  <2>3. MonthLength(y, m) \in 1 .. MonthLength(y, m) /\ p.end = Date(y, m, MonthLength(y, m))
    BY <1>1, <2>2, MonthLengths, SMT DEF MonthEnd
  <2>4. y \in Nat \ {0}
    BY <1>3, <2>3, YearsOfDays, SMT
  <2>5. YearOf(p.end) = y /\ MonthOf(p.end) = m
    BY <2>3, <2>4, PartsOfDate
  <2>6. p.end \in EndsInMonth(t, y, m) /\ p.start = FirstDay(t, p.end)
    BY <1>1, <1>5, <2>2, <2>5 DEF EndsInMonth, FirstDay
  <2>7. QED
    BY <1>2, <2>4, <2>6
<1>6. CASE t.frequency \in {"annual", "semi_annual", "quarterly"}
  <2> DEFINE ends == {PeriodEnd(y, shift, ye) : y \in years, shift \in Shifts(t.frequency)}
  <2>1. q \in {[start |-> PeriodStart(e, t.frequency), end |-> e] : e \in ends}
    BY <1>6 DEF PeriodsFor, years
  <2>2. q.end \in ends /\ q.start = PeriodStart(q.end, t.frequency)
    BY <2>1
  <2>3. PICK z \in Int, shift \in Shifts(t.frequency) : q.end = PeriodEnd(z, shift, ye)
    BY <2>2, <1>4
  <2>4. PeriodEnd(z, shift, ye) >= 1
    BY <1>1, <1>3, <2>3, SMT
  <2>5. \E y \in Nat \ {0}, m \in Months : p.end \in EndsInMonth(t, y, m)
    BY <1>1, <1>6, <2>3, <2>4, ShiftedIsEnd
  <2>6. p.start = FirstDay(t, p.end)
    BY <1>1, <1>6, <2>2 DEF FirstDay
  <2>7. QED
    BY <1>2, <2>5, <2>6
<1>7. CASE t.frequency = "one_time"
  BY <1>7 DEF PeriodsFor
<1>8. t.frequency \in Frequencies
  BY DeadlinesAssumption
<1>9. QED
  BY <1>5, <1>6, <1>7, <1>8 DEF Frequencies

\* Months that are numbered alike are one.
LEMMA OneMonth ==
    ASSUME NEW y \in Int, NEW m \in Months, NEW z \in Int, NEW n \in Months,
           12 * y + m = 12 * z + n
    PROVE  y = z /\ m = n
  BY MonthNumbers, SMT

\* Ends of periods in different months are apart, on days of their months.
LEMMA EndsFollow ==
    ASSUME NEW t \in Terms, NEW y \in Nat \ {0}, NEW m \in Months, NEW e \in EndsInMonth(t, y, m),
           NEW z \in Nat \ {0}, NEW n \in Months, NEW f \in EndsInMonth(t, z, n),
           f < e
    PROVE  12 * z + n <= 12 * y + m
<1>1. /\ \E d \in 1 .. MonthLength(y, m) : e = Date(y, m, d)
      /\ \E d \in 1 .. MonthLength(z, n) : f = Date(z, n, d)
  BY EndIsDate
<1>2. PICK d \in 1 .. MonthLength(y, m) : e = Date(y, m, d)
  BY <1>1
<1>3. PICK c \in 1 .. MonthLength(z, n) : f = Date(z, n, c)
  BY <1>1
<1>4. MonthLength(y, m) \in Nat /\ MonthLength(z, n) \in Nat
  <2>1. MonthLength(y, m) \in Nat
    BY MonthLengths, SMT
  <2>2. MonthLength(z, n) \in Nat
    BY MonthLengths, SMT
  <2>3. QED
    BY <2>1, <2>2
<1>5. e <= MonthEnd(y, m) /\ e \in Int /\ MonthEnd(y, m) \in Int
  <2>1. d \in Int /\ d <= MonthLength(y, m) /\ y \in Int
    BY <1>4
  <2>2. Date(y, m, d) \in Int /\ Date(y, m, d) = Date(y, m, 1) + d - 1
    BY <2>1, DateInt, Zenon
  <2>3. /\ Date(y, m, MonthLength(y, m)) \in Int
        /\ Date(y, m, MonthLength(y, m)) = Date(y, m, 1) + MonthLength(y, m) - 1
    <3>1. MonthLength(y, m) \in Int
      BY <1>4
    <3>2. QED
      BY <2>1, <3>1, DateInt, Zenon
  <2>4. Date(y, m, 1) \in Int
    BY <2>1, DateInt, SMT
  <2>5. QED
    BY <1>2, <1>4, <2>1, <2>2, <2>3, <2>4, SMT DEF MonthEnd
<1>6. Date(z, n, 1) <= f /\ f \in Int /\ Date(z, n, 1) \in Int
  <2>1. c \in Int /\ 1 <= c /\ z \in Int
    BY <1>4
  <2>2. Date(z, n, c) \in Int /\ Date(z, n, c) = Date(z, n, 1) + c - 1
    BY <2>1, DateInt, Zenon
  <2>3. Date(z, n, 1) \in Int
    BY <2>1, DateInt, SMT
  <2>4. QED
    BY <1>3, <2>1, <2>2, <2>3, SMT
<1>7. ASSUME 12 * y + m < 12 * z + n PROVE FALSE
  <2>1. MonthEnd(y, m) < Date(z, n, 1)
    BY <1>7, MonthsFollow
  <2>2. QED
    BY <1>5, <1>6, <2>1, SMT
<1>8. QED
  BY <1>7, MonthNumbers, SMT

LEMMA MonthlyHasNoGap ==
    ASSUME NEW t \in Terms, t.frequency = "monthly",
           NEW s \in Assignments, NEW from \in Nat \ {0}, NEW to \in Nat,
           NEW q \in PlanDeadlines(t, s, from, to), NEW p \in PlanDeadlines(t, s, from, to),
           p.end < q.end
    PROVE  \E r \in PlanDeadlines(t, s, from, to) : r.end < q.end /\ q.start <= r.end + 1
<1> DEFINE plan == PlanDeadlines(t, s, from, to)
<1>1. PICK y \in Nat \ {0}, m \in Months : q.end \in EndsInMonth(t, y, m)
  BY PlanIsOfPeriods
<1>2. PICK z \in Nat \ {0}, n \in Months : p.end \in EndsInMonth(t, z, n)
  BY PlanIsOfPeriods
<1>3. q.end = MonthEnd(y, m) /\ p.end = MonthEnd(z, n)
  BY <1>1, <1>2 DEF EndsInMonth
<1>4. /\ m \in Int /\ 1 <= m /\ m <= 12 /\ n \in Int /\ 1 <= n /\ n <= 12
      /\ p.end \in Nat /\ from <= p.end /\ q.end \in Nat /\ q.end <= to
      /\ s.from <= p.end /\ s.from \in Nat /\ q.start <= s.until /\ s.until \in Nat
      /\ q.start = FirstDay(t, q.end)
  <2>1. m \in Int /\ 1 <= m /\ m <= 12 /\ n \in Int /\ 1 <= n /\ n <= 12
    BY MonthNumbers, SMT
  <2>2. p.end \in Nat /\ from <= p.end /\ q.end \in Nat /\ q.end <= to
    BY PlanWithinWindow
  <2>3. s.from <= p.end /\ q.start <= s.until /\ q.start = FirstDay(t, q.end)
    BY PlanIsOfPeriods
  <2>4. QED
    BY <2>1, <2>2, <2>3 DEF Assignments
<1>5. 12 * z + n < 12 * y + m
  <2>1. 12 * z + n <= 12 * y + m
    BY <1>1, <1>2, EndsFollow
  <2>2. y \in Int /\ z \in Int
    OBVIOUS
  <2>3. 12 * z + n # 12 * y + m
    BY <1>3, <1>4, <2>2, OneMonth
  <2>4. QED
    BY <1>4, <2>1, <2>2, <2>3, SMT
<1> DEFINE yy == IF m = 1 THEN y - 1 ELSE y
           mm == IF m = 1 THEN 12 ELSE m - 1
           e == MonthEnd(yy, mm)
<1>6. yy \in Int /\ mm \in Months /\ 12 * yy + mm + 1 = 12 * y + m
  BY <1>4, MonthNumbers, SMT
<1> HIDE DEF yy, mm
<1>7. Date(y, m, 1) = e + 1
  BY <1>6, MonthsTouch
<1>8. e \in Int /\ Date(y, m, 1) \in Int
  BY <1>6, <1>7, ClampedIsDate, DateInt, SMT
<1>9. p.end <= e
  <2>1. CASE 12 * z + n = 12 * yy + mm
    <3>1. z = yy /\ n = mm
      BY <2>1, <1>6, OneMonth
    <3>2. QED
      BY <3>1, <1>3, <1>8
  <2>2. CASE 12 * z + n < 12 * yy + mm
    <3>1. MonthEnd(z, n) < Date(yy, mm, 1)
      BY <2>2, <1>6, MonthsFollow
    <3>2. Date(yy, mm, 1) <= e /\ Date(yy, mm, 1) \in Int
      <4>1. Date(yy, mm, 1) <= Clamped(yy, mm, 1) /\ Clamped(yy, mm, 1) <= e
            /\ Clamped(yy, mm, 1) \in Int
        BY <1>6, ClampedIsDate, SMT
      <4>2. Date(yy, mm, 1) \in Int
        BY <1>6, DateInt, SMT
      <4>3. QED
        BY <1>8, <4>1, <4>2, SMT
    <3>3. QED
      BY <1>3, <1>4, <1>8, <3>1, <3>2, SMT
  <2>3. mm \in Int
    BY <1>6, MonthNumbers, SMT
  <2>4. QED
    BY <1>4, <1>5, <1>6, <2>1, <2>2, <2>3, SMT
<1>10. MonthLength(yy, mm) \in 1 .. MonthLength(yy, mm) /\ e = Date(yy, mm, MonthLength(yy, mm))
  BY <1>6, MonthLengths, SMT DEF MonthEnd
<1>11. yy \in Nat \ {0}
  <2>1. e >= 1
    BY <1>4, <1>8, <1>9, SMT
  <2>2. QED
    BY <1>6, <1>10, <2>1, YearsOfDays
<1>12. FirstDay(t, e) = Date(yy, mm, 1) /\ FirstDay(t, q.end) = Date(y, m, 1)
  <2>1. YearOf(e) = yy /\ MonthOf(e) = mm
    BY <1>6, <1>10, <1>11, PartsOfDate
  <2>2. PICK d \in 1 .. MonthLength(y, m) : q.end = Date(y, m, d)
    BY <1>1, EndIsDate
  <2>3. YearOf(q.end) = y /\ MonthOf(q.end) = m
    BY <2>2, PartsOfDate
  <2>4. QED
    BY <2>1, <2>3 DEF FirstDay
<1>13. q.start = e + 1
  BY <1>4, <1>7, <1>12
<1>14. e < q.end
  <2>1. Date(y, m, 1) <= Clamped(y, m, 1) /\ Clamped(y, m, 1) <= q.end
    BY <1>3, ClampedIsDate, SMT
  <2>2. Clamped(y, m, 1) \in Int
    BY ClampedIsDate, SMT
  <2>3. QED
    BY <1>4, <1>7, <1>8, <2>1, <2>2, SMT
<1>15. FirstDay(t, e) <= s.until
  <2>1. Date(yy, mm, 1) <= e
    <3>1. Date(yy, mm, 1) <= Clamped(yy, mm, 1) /\ Clamped(yy, mm, 1) <= e
          /\ Clamped(yy, mm, 1) \in Int
      BY <1>6, ClampedIsDate, SMT
    <3>2. Date(yy, mm, 1) \in Int
      BY <1>6, DateInt, SMT
    <3>3. QED
      BY <1>8, <3>1, <3>2, SMT
  <2>2. Date(yy, mm, 1) \in Int
    BY <1>6, DateInt, SMT
  <2>3. QED
    BY <1>4, <1>8, <1>12, <1>13, <2>1, <2>2, SMT
<1>16. e \in EndsInMonth(t, yy, mm)
  BY DEF EndsInMonth
<1>17. from <= e /\ e <= to /\ s.from <= e
  BY <1>4, <1>8, <1>9, <1>14, SMT
<1>18. e \in {r.end : r \in plan}
  <2> HIDE DEF e
  <2>1. QED
    BY <1>6, <1>11, <1>15, <1>16, <1>17, PlanIsComplete
<1>19. PICK r \in plan : r.end = e
  BY <1>18
<1>20. q.start <= e + 1
  BY <1>8, <1>13, SMT
<1>21. QED
  BY <1>14, <1>19, <1>20

\* When the year end is the last day of its month, so are all ends.
LEMMA EndsAtMonthEnds ==
    ASSUME NEW t \in Terms, EndsWithMonth(t), NEW y \in Int
    PROVE  FiscalYearEnd(y, YearEndOf(t)) = MonthEnd(y, YearEndOf(t).month)
<1> DEFINE m == YearEndOf(t).month
           d == YearEndOf(t).day
<1>1. m \in Months /\ d \in 1 .. 31
  BY YearEndDays
<1>2. MonthLength(y, m) \in Nat
  BY <1>1, MonthLengths, SMT
<1>3. ~(d < MonthLength(y, m))
  <2>1. MonthLength(y, m) <= IF m = 2 THEN 29 ELSE MonthLength(2001, m)
    BY DEF MonthLength
  <2>2. d >= IF m = 2 THEN 29 ELSE MonthLength(2001, m)
    BY DEF EndsWithMonth
  <2>3. MonthLength(2001, m) \in Nat
    <3>1. 2001 \in Int
      OBVIOUS
    <3>2. QED
      BY <1>1, <3>1, MonthLengths, SMT
  <2>4. QED
    BY <1>1, <1>2, <2>1, <2>2, <2>3, SMT
<1>4. QED
  BY <1>3 DEF FiscalYearEnd, Clamped

LEMMA OthersHaveNoGap ==
    ASSUME NEW t \in Terms, t.frequency \in {"annual", "semi_annual", "quarterly"},
           EndsWithMonth(t) \/ t.frequency = "annual",
           NEW s \in Assignments, NEW from \in Nat \ {0}, NEW to \in Nat,
           NEW q \in PlanDeadlines(t, s, from, to), NEW p \in PlanDeadlines(t, s, from, to),
           p.end < q.end
    PROVE  \E r \in PlanDeadlines(t, s, from, to) : r.end < q.end /\ q.start <= r.end + 1
<1> DEFINE plan == PlanDeadlines(t, s, from, to)
           f == t.frequency
           k == Stride(f)
           ye == YearEndOf(t)
<1>1. PICK y \in Nat \ {0}, m \in Months : q.end \in EndsInMonth(t, y, m)
  BY PlanIsOfPeriods
<1>2. PICK z \in Nat \ {0}, n \in Months : p.end \in EndsInMonth(t, z, n)
  BY PlanIsOfPeriods
<1>3. /\ (m - ye.month) % k = 0 /\ q.end = EndIn(t, y, m)
      /\ (n - ye.month) % k = 0 /\ p.end = EndIn(t, z, n)
      /\ ye.month \in Months /\ k \in {3, 6, 12}
  <2>1. y \in Int /\ z \in Int
    OBVIOUS
  <2>2. (m - ye.month) % k = 0 /\ q.end = EndIn(t, y, m) /\ ye.month \in Months /\ k \in {3, 6, 12}
    BY <1>1, <2>1, EndsAreSpaced
  <2>3. (n - ye.month) % k = 0 /\ p.end = EndIn(t, z, n)
    BY <1>2, <2>1, EndsAreSpaced
  <2>4. QED
    BY <2>2, <2>3
<1>4. /\ m \in Int /\ 1 <= m /\ m <= 12 /\ n \in Int /\ 1 <= n /\ n <= 12
      /\ ye.month \in Int /\ 1 <= ye.month /\ ye.month <= 12
  BY <1>3, MonthNumbers, SMT
<1>5. /\ p.end \in Nat /\ from <= p.end /\ q.end \in Nat /\ q.end <= to
      /\ s.from <= p.end /\ s.from \in Nat /\ q.start <= s.until /\ s.until \in Nat
      /\ q.start = PeriodStart(q.end, f)
  <2>1. p.end \in Nat /\ from <= p.end /\ q.end \in Nat /\ q.end <= to
    BY PlanWithinWindow
  <2>2. s.from <= p.end /\ q.start <= s.until /\ q.start = FirstDay(t, q.end)
    BY PlanIsOfPeriods
  <2>3. QED
    BY <2>1, <2>2 DEF Assignments, FirstDay
<1> HIDE DEF f, k, ye
<1>6. PICK d \in 1 .. MonthLength(y, m) : q.end = Date(y, m, d)
  BY <1>1, EndIsDate
<1>7. PICK yy \in Int, mm \in Months :
          12 * yy + mm = 12 * y + m - k /\ q.start = Clamped(yy, mm, d) + 1
  BY <1>5, <1>6, StartOfPeriod DEF f, k
<1>8. mm \in Int /\ 1 <= mm /\ mm <= 12 /\ d \in Nat \ {0}
  <2>1. MonthLength(y, m) \in Nat
    BY MonthLengths, SMT
  <2>2. QED
    BY <2>1, MonthNumbers, SMT
<1>9. (mm - ye.month) % k = 0
  <2>1. mm - ye.month = (m - ye.month) + 12 * (y - yy) - k
    BY <1>3, <1>4, <1>7, <1>8, SMT
  <2> DEFINE j == m - ye.month
             i == y - yy
  <2>2. j \in Int /\ i \in Int /\ j % k = 0 /\ mm - ye.month = j + 12 * i - k
    BY <1>3, <1>4, <2>1
  <2> HIDE DEF i, j
  <2>3. (j + 12 * i - k) % k = 0
    <3>1. CASE k = 3
      BY <2>2, <3>1, SMT
    <3>2. CASE k = 6
      BY <2>2, <3>2, SMT
    <3>3. CASE k = 12
      BY <2>2, <3>3, SMT
    <3>4. QED
      BY <1>3, <3>1, <3>2, <3>3
  <2>4. QED
    BY <2>2, <2>3
<1> DEFINE e == EndIn(t, yy, mm)
<1>10. e \in EndsInMonth(t, yy, mm)
  BY <1>9, EndsAreSpaced DEF f, k, ye
\* The period starts no later than on the day after the one before ends.
<1>11. /\ Clamped(yy, mm, d) <= e /\ e <= MonthEnd(yy, mm)
       /\ Clamped(yy, mm, d) \in Int /\ e \in Int /\ MonthEnd(yy, mm) \in Int
       /\ Date(yy, mm, 1) <= Clamped(yy, mm, d) /\ Date(yy, mm, 1) \in Int
       /\ \E c \in 1 .. MonthLength(yy, mm) : e = Date(yy, mm, c)
  <2>1. /\ Clamped(yy, mm, d) <= MonthEnd(yy, mm) /\ Date(yy, mm, 1) <= Clamped(yy, mm, d)
        /\ Clamped(yy, mm, d) \in Int /\ MonthEnd(yy, mm) \in Int
        /\ MonthEnd(yy, mm) = Date(yy, mm, MonthLength(yy, mm))
        /\ MonthLength(yy, mm) \in 1 .. MonthLength(yy, mm)
    BY <1>8, ClampedIsDate, Zenon
  <2>2. Date(yy, mm, 1) \in Int
    BY DateInt, SMT
  <2>3. CASE e = MonthEnd(yy, mm)
    <3> HIDE DEF e
    <3>1. QED
      BY <2>1, <2>2, <2>3, SMT
  <2>4. CASE e # MonthEnd(yy, mm)
    <3>1. mm = ye.month /\ e = FiscalYearEnd(yy, ye)
      BY <2>4, Zenon DEF EndIn, ye
    <3>2. ~EndsWithMonth(t)
      BY <2>4, <3>1, EndsAtMonthEnds DEF ye
    <3>3. k = 12
      BY <3>2 DEF k, f, Stride
    <3>4. m = ye.month /\ mm = m /\ yy = y - 1
      BY <1>3, <1>4, <1>7, <1>8, <3>1, <3>3, SMT
    <3>5. q.end = Clamped(y, m, ye.day) /\ e = Clamped(yy, mm, ye.day)
      BY <1>3, <3>1, <3>4 DEF EndIn, FiscalYearEnd, ye
    <3>6. ye.day \in Nat \ {0}
      BY YearEndDays, SMT DEF ye
    <3>7. d <= ye.day
      <4>1. y \in Int
        OBVIOUS
      <4>2. /\ q.end = Date(y, m, DayIn(y, m, ye.day)) /\ DayIn(y, m, ye.day) \in 1 .. MonthLength(y, m)
        BY <3>5, <3>6, <4>1, ClampedIsDate, Zenon
      <4>3. DayOf(q.end) = d
        <5>1. DayOf(Date(y, m, d)) = d
          BY PartsOfDate, Zenon
        <5>2. QED
          BY <1>6, <5>1, Zenon
      <4>4. DayOf(q.end) = DayIn(y, m, ye.day)
        <5>1. DayOf(Date(y, m, DayIn(y, m, ye.day))) = DayIn(y, m, ye.day)
          BY <4>2, PartsOfDate, Zenon
        <5>2. QED
          BY <4>2, <5>1, Zenon
      <4>5. MonthLength(y, m) \in Nat
        BY <4>1, MonthLengths, SMT
      <4>6. QED
        BY <1>8, <3>6, <4>3, <4>4, <4>5, SMT DEF DayIn
    <3>8. /\ Clamped(yy, mm, d) = Date(yy, mm, DayIn(yy, mm, d))
          /\ e = Date(yy, mm, DayIn(yy, mm, ye.day))
          /\ DayIn(yy, mm, ye.day) \in 1 .. MonthLength(yy, mm)
          /\ e <= MonthEnd(yy, mm) /\ e \in Int
      <4>1. Clamped(yy, mm, d) = Date(yy, mm, DayIn(yy, mm, d))
        BY <1>8, ClampedIsDate, Zenon
      <4>2. /\ Clamped(yy, mm, ye.day) = Date(yy, mm, DayIn(yy, mm, ye.day))
            /\ DayIn(yy, mm, ye.day) \in 1 .. MonthLength(yy, mm)
            /\ Clamped(yy, mm, ye.day) <= MonthEnd(yy, mm)
            /\ Clamped(yy, mm, ye.day) \in Int
        BY <3>6, ClampedIsDate, Zenon
      <4> HIDE DEF e
      <4>3. QED
        BY <3>5, <4>1, <4>2, Zenon
    <3>9. MonthLength(yy, mm) \in Nat
      BY MonthLengths, SMT
    <3>10. DayIn(yy, mm, d) \in Int /\ DayIn(yy, mm, ye.day) \in Int
           /\ DayIn(yy, mm, d) <= DayIn(yy, mm, ye.day)
      BY <1>8, <3>6, <3>7, <3>9, SMT DEF DayIn
    <3>11. /\ Date(yy, mm, DayIn(yy, mm, d)) = Date(yy, mm, 1) + DayIn(yy, mm, d) - 1
           /\ Date(yy, mm, DayIn(yy, mm, ye.day)) = Date(yy, mm, 1) + DayIn(yy, mm, ye.day) - 1
      BY <3>10, DateInt, Zenon
    <3> HIDE DEF e
    <3>12. Clamped(yy, mm, d) <= e
      BY <2>2, <3>8, <3>10, <3>11, SMT
    <3>13. QED
      BY <2>1, <2>2, <3>8, <3>12
  <2>5. QED
    BY <2>3, <2>4
<1> HIDE DEF e
<1>12. e < q.end
  <2>1. MonthEnd(yy, mm) < Date(y, m, 1)
    <3>1. 12 * yy + mm < 12 * y + m
      BY <1>3, <1>4, <1>7, <1>8, SMT
    <3>2. y \in Int
      OBVIOUS
    <3>3. QED
      BY <3>1, <3>2, MonthsFollow
  <2>2. Date(y, m, 1) <= q.end /\ Date(y, m, 1) \in Int
    <3>1. Date(y, m, d) = Date(y, m, 1) + d - 1 /\ Date(y, m, 1) \in Int
      <4>1. y \in Int /\ d \in Int /\ 1 \in Int
        BY <1>8
      <4>2. QED
        BY <4>1, DateInt, Zenon
    <3>2. QED
      BY <1>6, <1>8, <3>1, SMT
  <2>3. QED
    BY <1>5, <1>11, <2>1, <2>2, SMT
<1>13. 12 * z + n < 12 * y + m
  <2>1. 12 * z + n <= 12 * y + m
    BY <1>1, <1>2, EndsFollow
  <2>2. y \in Int /\ z \in Int
    OBVIOUS
  <2>3. 12 * z + n # 12 * y + m
    <3>1. 12 * z + n = 12 * y + m => p.end = q.end
      BY <1>3, <2>2, OneMonth
    <3>2. QED
      BY <1>5, <3>1, SMT
  <2>4. QED
    BY <1>4, <2>1, <2>2, <2>3, SMT
\* Ends are so many months apart.
<1>14. 12 * z + n <= 12 * yy + mm
  <2> DEFINE a == n - ye.month
             b == mm - ye.month
             i == yy - z
  <2>1. /\ a \in Int /\ b \in Int /\ i \in Int /\ a % k = 0 /\ b % k = 0
        /\ (12 * z + n <= 12 * yy + mm <=> a <= 12 * i + b)
        /\ a < 12 * i + b + k
    <3>1. a \in Int /\ b \in Int /\ i \in Int /\ k \in Int /\ y \in Int /\ yy \in Int /\ z \in Int
      BY <1>3, <1>4, <1>8
    <3>2. /\ n = a + ye.month /\ mm = b + ye.month /\ yy = i + z
      BY <1>4, <1>8, SMT
    <3>3. a % k = 0 /\ b % k = 0
      BY <1>3, <1>9
    <3> HIDE DEF a, b, i
    <3>4. /\ (12 * z + n <= 12 * yy + mm <=> a <= 12 * i + b)
          /\ a < 12 * i + b + k
      BY <1>4, <1>7, <1>8, <1>13, <3>1, <3>2, SMT
    <3>5. QED
      BY <3>1, <3>3, <3>4
  <2> HIDE DEF a, b, i
  <2>2. a <= 12 * i + b
    <3>1. CASE k = 3
      BY <2>1, <3>1, SMT
    <3>2. CASE k = 6
      BY <2>1, <3>2, SMT
    <3>3. CASE k = 12
      BY <2>1, <3>3, SMT
    <3>4. QED
      BY <1>3, <3>1, <3>2, <3>3
  <2>3. QED
    BY <2>1, <2>2
<1>15. p.end <= e
  <2>1. z \in Int
    OBVIOUS
  <2>2. CASE 12 * z + n = 12 * yy + mm
    <3>1. z = yy /\ n = mm
      BY <2>1, <2>2, OneMonth
    <3>2. QED
      BY <1>3, <1>11, <3>1 DEF e
  <2>3. CASE 12 * z + n < 12 * yy + mm
    <3>1. MonthEnd(z, n) < Date(yy, mm, 1)
      BY <2>1, <2>3, MonthsFollow
    <3>2. p.end <= MonthEnd(z, n) /\ MonthEnd(z, n) \in Int
      <4>1. p.end = Clamped(z, n, ye.day) \/ p.end = MonthEnd(z, n)
        BY <1>3, Zenon DEF EndIn, FiscalYearEnd, ye
      <4>2. ye.day \in Nat \ {0}
        BY YearEndDays, SMT DEF ye
      <4>3. Clamped(z, n, ye.day) <= MonthEnd(z, n) /\ MonthEnd(z, n) \in Int
        BY <2>1, <4>2, ClampedIsDate, Zenon
      <4>4. QED
        BY <4>1, <4>3, SMT
    <3>3. QED
      BY <1>5, <1>11, <3>1, <3>2, SMT
  <2>4. QED
    BY <1>4, <1>8, <1>14, <2>1, <2>2, <2>3, SMT
<1>16. PICK c \in 1 .. MonthLength(yy, mm) : e = Date(yy, mm, c)
  BY <1>11
<1>17. yy \in Nat \ {0}
  <2>1. Date(yy, mm, c) >= 1
    BY <1>5, <1>11, <1>15, <1>16, SMT
  <2>2. QED
    BY <2>1, YearsOfDays
<1>18. FirstDay(t, e) <= s.until
  <2>1. FirstDay(t, e) = PeriodStart(Date(yy, mm, c), f)
    BY <1>16 DEF FirstDay, f
  <2>2. PICK v \in Int, w \in Months :
           12 * v + w = 12 * yy + mm - k /\ FirstDay(t, e) = Clamped(v, w, c) + 1
    BY <1>17, <2>1, StartOfPeriod DEF f, k
  <2>3. MonthEnd(v, w) < Date(yy, mm, 1)
    <3>1. 12 * v + w < 12 * yy + mm
      <4>1. w \in Int
        BY MonthNumbers, SMT
      <4>2. QED
        BY <1>3, <1>8, <2>2, <4>1, SMT
    <3>2. QED
      BY <3>1, MonthsFollow
  <2>4. Clamped(v, w, c) <= MonthEnd(v, w) /\ Clamped(v, w, c) \in Int /\ MonthEnd(v, w) \in Int
    <3>1. c \in Nat \ {0}
      BY MonthLengths, SMT
    <3>2. QED
      BY <3>1, ClampedIsDate, Zenon
  <2>5. QED
    BY <1>5, <1>7, <1>11, <2>2, <2>3, <2>4, SMT
<1>19. from <= e /\ e <= to /\ s.from <= e
  BY <1>5, <1>11, <1>12, <1>15, SMT
<1>20. e \in {r.end : r \in plan}
  BY <1>10, <1>17, <1>18, <1>19, PlanIsComplete
<1>21. PICK r \in plan : r.end = e
  BY <1>20
<1>22. q.start <= e + 1
  BY <1>7, <1>11, SMT
<1>23. QED
  BY <1>12, <1>21, <1>22

\* PeriodsLeaveNoGap: each day between the first and the last end of a plan is in
\* some period of it, when the year ends with a month or has no shorter periods
\* (periods_for).
THEOREM PlansHaveNoGap == Spec => []PeriodsLeaveNoGap
<1>1. TypeInv => PeriodsLeaveNoGap
  <2> SUFFICES ASSUME TypeInv, NEW u \in Users, gen[u] # Idle,
                      EndsWithMonth(gen[u].terms) \/ gen[u].terms.frequency \in {"annual", "monthly"},
                      NEW q \in gen[u].plan
               PROVE  \/ \A p \in gen[u].plan : q.end <= p.end
                      \/ \E p \in gen[u].plan : p.end < q.end /\ q.start <= p.end + 1
    BY DEF PeriodsLeaveNoGap
  <2> DEFINE g == gen[u]
  <2>1. /\ g.terms \in Terms /\ g.service \in Assignments /\ g.from \in Nat \ {0} /\ g.to \in Nat
        /\ g.plan = PlanDeadlines(g.terms, g.service, g.from, g.to)
    BY DEF TypeInv, Planned
  <2> HIDE DEF g
  <2>2. \A p \in g.plan : p.end \in Nat
    BY <2>1, PlanWithinWindow
  <2>3. SUFFICES ASSUME NEW p \in g.plan, p.end < q.end
                 PROVE  \E r \in g.plan : r.end < q.end /\ q.start <= r.end + 1
    BY <2>2 DEF g
  <2>4. q \in g.plan /\ (EndsWithMonth(g.terms) \/ g.terms.frequency \in {"annual", "monthly"})
    BY DEF g
  <2>5. CASE g.terms.frequency = "monthly"
    BY <2>1, <2>3, <2>4, <2>5, MonthlyHasNoGap
  <2>6. CASE g.terms.frequency \in {"annual", "semi_annual", "quarterly"}
    BY <2>1, <2>3, <2>4, <2>6, OthersHaveNoGap
  <2>7. CASE g.terms.frequency = "one_time"
    BY <2>1, <2>4, <2>7 DEF PlanDeadlines, PeriodsFor
  <2>8. g.terms.frequency \in Frequencies
    BY <2>1, DeadlinesAssumption
  <2>9. QED
    BY <2>5, <2>6, <2>7, <2>8 DEF Frequencies
<1>2. QED
  BY <1>1, AlwaysTyped, PTL

----------------------------------------------------------------------------
(***************************************************************************)
(* Filing days.  Every day is a date, and the engine's holidays are those  *)
(* of the calendar.                                                        *)
(***************************************************************************)
LEMMA DateOfDay ==
    ASSUME NEW x \in Nat \ {0}
    PROVE  /\ YearOf(x) \in Nat \ {0} /\ MonthOf(x) \in Months
           /\ DayOf(x) \in 1 .. MonthLength(YearOf(x), MonthOf(x))
           /\ x = Date(YearOf(x), MonthOf(x), DayOf(x))
<1> DEFINE y == YearOf(x)
           n == x - YearStart(y)
<1>1. y \in Nat \ {0} /\ YearStart(y) <= x /\ x < YearStart(y + 1)
  BY YearOfDay, SMT
<1> HIDE DEF y
<1>2. /\ YearStart(y) \in Int
      /\ YearStart(y + 1) = YearStart(y) + IF Leap(y) THEN 366 ELSE 365
  <2>1. y \in Int
    BY <1>1
  <2>2. QED
    BY <2>1, NextYear, YearStartInt, ZenonT(60)
<1>3. n \in Nat /\ n < IF Leap(y) THEN 366 ELSE 365
  BY <1>1, <1>2, SMT
<1> HIDE DEF n
<1>4. \E m \in Months : /\ DaysBeforeMonth(y, m) <= n
                        /\ n < DaysBeforeMonth(y, m) + MonthLength(y, m)
  <2> DEFINE P(m) == /\ DaysBeforeMonth(y, m) <= n
                     /\ n < DaysBeforeMonth(y, m) + MonthLength(y, m)
             L == IF Leap(y) THEN 1 ELSE 0
  <2>1. L \in {0, 1} /\ n < 365 + L
    BY <1>3, SMT
  <2>2. /\ DaysBeforeMonth(y, 1) = 0 /\ MonthLength(y, 1) = 31
        /\ DaysBeforeMonth(y, 2) = 31 /\ MonthLength(y, 2) = 28 + L
        /\ DaysBeforeMonth(y, 3) = 59 + L /\ MonthLength(y, 3) = 31
        /\ DaysBeforeMonth(y, 4) = 90 + L /\ MonthLength(y, 4) = 30
        /\ DaysBeforeMonth(y, 5) = 120 + L /\ MonthLength(y, 5) = 31
        /\ DaysBeforeMonth(y, 6) = 151 + L /\ MonthLength(y, 6) = 30
        /\ DaysBeforeMonth(y, 7) = 181 + L /\ MonthLength(y, 7) = 31
        /\ DaysBeforeMonth(y, 8) = 212 + L /\ MonthLength(y, 8) = 31
        /\ DaysBeforeMonth(y, 9) = 243 + L /\ MonthLength(y, 9) = 30
        /\ DaysBeforeMonth(y, 10) = 273 + L /\ MonthLength(y, 10) = 31
        /\ DaysBeforeMonth(y, 11) = 304 + L /\ MonthLength(y, 11) = 30
        /\ DaysBeforeMonth(y, 12) = 334 + L /\ MonthLength(y, 12) = 31
    BY MonthTable, SMT DEF DaysBeforeMonth, MonthLength
  <2> HIDE DEF L
  <2>3. \/ P(1) \/ P(2) \/ P(3) \/ P(4) \/ P(5) \/ P(6)
        \/ P(7) \/ P(8) \/ P(9) \/ P(10) \/ P(11) \/ P(12)
    BY <1>3, <2>1, <2>2, SMT
  <2> HIDE DEF P
  <2>4. \E m \in Months : P(m)
    BY <2>3 DEF Months
  <2>5. QED
    BY <2>4 DEF P
<1>5. PICK m \in Months : /\ DaysBeforeMonth(y, m) <= n
                          /\ n < DaysBeforeMonth(y, m) + MonthLength(y, m)
  BY <1>4
<1> DEFINE d == n - DaysBeforeMonth(y, m) + 1
<1>6. d \in 1 .. MonthLength(y, m) /\ x = Date(y, m, d)
  <2>1. DaysBeforeMonth(y, m) \in Int /\ MonthLength(y, m) \in Int
    <3>1. y \in Int
      BY <1>1
    <3>2. QED
      BY <3>1, MonthLengths, SMT
  <2>2. x = YearStart(y) + n
    BY <1>1, <1>2, SMT DEF n
  <2>3. QED
    BY <1>2, <1>3, <1>5, <2>1, <2>2, SMT DEF Date
<1> HIDE DEF d
<1>7. MonthOf(x) = m /\ DayOf(x) = d
  BY <1>1, <1>6, PartsOfDate
<1>8. QED
  BY <1>1, <1>6, <1>7 DEF y

LEMMA DateIs ==
    ASSUME NEW x \in Nat \ {0}, NEW m \in Months, NEW d \in 1 .. MonthLength(YearOf(x), m)
    PROVE  x = Date(YearOf(x), m, d) <=> MonthOf(x) = m /\ DayOf(x) = d
<1>1. YearOf(x) \in Nat \ {0} /\ x = Date(YearOf(x), MonthOf(x), DayOf(x))
  BY DateOfDay
<1>2. ASSUME x = Date(YearOf(x), m, d) PROVE MonthOf(x) = m /\ DayOf(x) = d
  <2> DEFINE y == YearOf(x)
  <2>1. MonthOf(Date(y, m, d)) = m /\ DayOf(Date(y, m, d)) = d
    <3>1. y \in Nat \ {0} /\ d \in 1 .. MonthLength(y, m)
      BY <1>1
    <3> HIDE DEF y
    <3>2. QED
      BY <3>1, PartsOfDate
  <2>2. QED
    BY <1>2, <2>1
<1>3. QED
  BY <1>1, <1>2

\* The n-th Monday of a month is the one of its n-th seven days (_nth_weekday).
LEMMA NthMonday ==
    ASSUME NEW x \in Nat \ {0}, NEW m \in Months, NEW n \in 1 .. 4
    PROVE  /\ x = NthWeekday(YearOf(x), m, 0, n)
                <=> Weekday(x) = 0 /\ MonthOf(x) = m /\ DayOf(x) \in 7 * n - 6 .. 7 * n
           /\ NthWeekday(YearOf(x), m, 0, n)
                \in Date(YearOf(x), m, 1) + 7 * n - 7 .. Date(YearOf(x), m, 1) + 7 * n - 1
<1> DEFINE y == YearOf(x)
           first == Date(y, m, 1)
           nth == NthWeekday(y, m, 0, n)
<1>1. y \in Nat \ {0} /\ y \in Int /\ x \in Int
  BY DateOfDay
<1>2. first \in Int /\ MonthLength(y, m) \in 28 .. 31 /\ \A d \in Int : Date(y, m, d) = first + d - 1
  <2> HIDE DEF y
  <2>1. first \in Int
    BY <1>1, DateInt, SMT
  <2>2. MonthLength(y, m) \in 28 .. 31
    BY <1>1, MonthLengths, SMT
  <2>3. \A d \in Int : Date(y, m, d) = first + d - 1
    BY <1>1, DateInt, SMT
  <2>4. QED
    BY <2>1, <2>2, <2>3
<1>3. nth = first + ((0 - Weekday(first)) % 7) + 7 * (n - 1)
  <2> HIDE DEF y
  <2>1. QED
    BY DEF NthWeekday
<1> HIDE DEF first, nth, y
<1>4. /\ nth \in first + 7 * n - 7 .. first + 7 * n - 1
      /\ \A z \in first + 7 * n - 7 .. first + 7 * n - 1 : z = nth <=> Weekday(z) = 0
  BY <1>2, <1>3, SMT DEF Weekday
<1>5. (MonthOf(x) = m /\ DayOf(x) \in 7 * n - 6 .. 7 * n)
        <=> x \in first + 7 * n - 7 .. first + 7 * n - 1
  <2>1. ASSUME MonthOf(x) = m, DayOf(x) \in 7 * n - 6 .. 7 * n
        PROVE  x \in first + 7 * n - 7 .. first + 7 * n - 1
    <3>1. x = Date(y, m, DayOf(x))
      BY <2>1, DateOfDay DEF y
    <3>2. DayOf(x) \in Int
      BY <2>1
    <3>3. QED
      BY <1>2, <2>1, <3>1, <3>2, SMT
  <2>2. ASSUME x \in first + 7 * n - 7 .. first + 7 * n - 1
        PROVE  MonthOf(x) = m /\ DayOf(x) \in 7 * n - 6 .. 7 * n
    <3> DEFINE d == x - first + 1
    <3>1. d \in 7 * n - 6 .. 7 * n /\ d \in Int /\ d \in 1 .. MonthLength(y, m) /\ x = first + d - 1
      BY <1>1, <1>2, <2>2, SMT
    <3> HIDE DEF d
    <3>2. x = Date(y, m, d)
      BY <1>2, <3>1
    <3>3. MonthOf(x) = m /\ DayOf(x) = d
      BY <1>1, <3>1, <3>2, PartsOfDate
    <3>4. QED
      BY <3>1, <3>3
  <2>3. QED
    BY <2>1, <2>2
<1>6. x = nth <=> Weekday(x) = 0 /\ MonthOf(x) = m /\ DayOf(x) \in 7 * n - 6 .. 7 * n
  BY <1>4, <1>5
<1>7. QED
  BY <1>4, <1>6 DEF first, nth, y

\* Victoria Day is the Monday from the 18th to the 24th of May (_victoria_day).
LEMMA VictoriaIsMonday ==
    ASSUME NEW x \in Nat \ {0}
    PROVE  /\ x = VictoriaDay(YearOf(x))
                <=> Weekday(x) = 0 /\ MonthOf(x) = 5 /\ DayOf(x) \in 18 .. 24
           /\ VictoriaDay(YearOf(x)) \in Date(YearOf(x), 5, 1) + 17 .. Date(YearOf(x), 5, 1) + 23
<1> DEFINE y == YearOf(x)
           first == Date(y, 5, 1)
           r == (0 - Weekday(first)) % 7
           mondays == {NthWeekday(y, 5, 0, n) : n \in 1 .. 4}
           S == {d \in mondays : d <= Date(y, 5, 24)}
           v == IF r <= 2 THEN first + r + 21 ELSE first + r + 14
<1>1. y \in Nat \ {0} /\ y \in Int /\ x \in Int /\ 5 \in Months
  BY DateOfDay, MonthNumbers, SMT
<1>2. first \in Int /\ MonthLength(y, 5) \in 28 .. 31 /\ \A d \in Int : Date(y, 5, d) = first + d - 1
  <2> HIDE DEF y
  <2>1. first \in Int
    BY <1>1, DateInt, SMT
  <2>2. MonthLength(y, 5) \in 28 .. 31
    BY <1>1, MonthLengths, SMT
  <2>3. \A d \in Int : Date(y, 5, d) = first + d - 1
    BY <1>1, DateInt, SMT
  <2>4. QED
    BY <2>1, <2>2, <2>3
<1>3. \A n \in 1 .. 4 : NthWeekday(y, 5, 0, n) = first + r + 7 * (n - 1)
  <2> HIDE DEF y
  <2>1. QED
    BY DEF NthWeekday
<1>4. VictoriaDay(y) = Max(S)
  <2> HIDE DEF y
  <2>1. QED
    BY DEF VictoriaDay
<1>5. r \in 0 .. 6
  <2> HIDE DEF first
  <2>1. QED
    BY <1>2, SMT DEF Weekday
<1>6. mondays = {first + r, first + r + 7, first + r + 14, first + r + 21}
  <2>1. 1 .. 4 = {1, 2, 3, 4}
    OBVIOUS
  <2> HIDE DEF first, y, r
  <2>2. QED
    BY <1>2, <1>3, <1>5, <2>1, SMT
<1> HIDE DEF mondays
<1>7. v \in S /\ (\A d \in S : v >= d) /\ \A z \in S : (\A d \in S : z >= d) => z = v
  <2>1. Date(y, 5, 24) = first + 23
    <3>1. 24 \in Int
      OBVIOUS
    <3>2. Date(y, 5, 24) = first + 24 - 1
      BY <1>2, <3>1
    <3>3. QED
      BY <1>2, <3>2, SMT
  <2> HIDE DEF first, y, r
  <2>2. QED
    BY <1>2, <1>5, <1>6, <2>1, SMT
<1>8. VictoriaDay(y) = v
  <2> HIDE DEF S, v, y
  <2>1. Max(S) = v
    BY <1>7, Zenon DEF Max
  <2>2. QED
    BY <1>4, <2>1
<1>9. /\ v \in first + 17 .. first + 23
      /\ \A z \in first + 17 .. first + 23 : z = v <=> Weekday(z) = 0
  <2> HIDE DEF first
  <2>1. QED
    BY <1>2, <1>5, SMT DEF Weekday
<1> HIDE DEF v, first, y
<1>10. (MonthOf(x) = 5 /\ DayOf(x) \in 18 .. 24) <=> x \in first + 17 .. first + 23
  <2>1. ASSUME MonthOf(x) = 5, DayOf(x) \in 18 .. 24
        PROVE  x \in first + 17 .. first + 23
    <3>1. x = Date(y, 5, DayOf(x))
      BY <2>1, DateOfDay DEF y
    <3>2. DayOf(x) \in Int
      BY <2>1
    <3>3. QED
      BY <1>2, <2>1, <3>1, <3>2, SMT
  <2>2. ASSUME x \in first + 17 .. first + 23
        PROVE  MonthOf(x) = 5 /\ DayOf(x) \in 18 .. 24
    <3> DEFINE d == x - first + 1
    <3>1. d \in 18 .. 24 /\ d \in Int /\ d \in 1 .. MonthLength(y, 5) /\ x = first + d - 1
      BY <1>1, <1>2, <2>2, SMT
    <3> HIDE DEF d
    <3>2. x = Date(y, 5, d)
      BY <1>2, <3>1
    <3>3. MonthOf(x) = 5 /\ DayOf(x) = d
      BY <1>1, <3>1, <3>2, PartsOfDate
    <3>4. QED
      BY <3>1, <3>3
  <2>3. QED
    BY <2>1, <2>2
<1>11. x = VictoriaDay(y) <=> Weekday(x) = 0 /\ MonthOf(x) = 5 /\ DayOf(x) \in 18 .. 24
  BY <1>8, <1>9, <1>10
<1>12. QED
  BY <1>8, <1>9, <1>11 DEF first, y

----------------------------------------------------------------------------
(***************************************************************************)
(* Easter (_easter): the anonymous algorithm's Sunday is the one after the *)
(* full moon of the table, in the centuries of the table.                  *)
(***************************************************************************)
EasterH(y) == (19 * (y % 19) + y \div 100 - (y \div 100) \div 4
                 - (y \div 100 - (y \div 100 + 8) \div 25 + 1) \div 3 + 15) % 30
EasterL(y) == (32 + 2 * ((y \div 100) % 4) + 2 * ((y % 100) \div 4) - EasterH(y)
                 - ((y % 100) % 4)) % 7
EasterM(y) == ((y % 19) + 11 * EasterH(y) + 22 * EasterL(y)) \div 451

LEMMA EasterParts ==
    ASSUME NEW y \in Nat
    PROVE  /\ EasterH(y) \in 0 .. 29 /\ EasterL(y) \in 0 .. 6 /\ EasterM(y) \in 0 .. 1
           /\ y % 19 \in 0 .. 18
           /\ EasterH(y) + EasterL(y) - 7 * EasterM(y) \in 0 .. 35
<1>1. y % 19 \in 0 .. 18 /\ y % 100 \in 0 .. 99 /\ y \div 100 \in Nat /\ (y \div 100) % 4 \in 0 .. 3
  BY SMT
<1> DEFINE a == y % 19
           b == y \div 100
           c == y % 100
<1>2. EasterH(y) \in 0 .. 29
  <2> DEFINE arg == 19 * a + b - b \div 4 - (b - (b + 8) \div 25 + 1) \div 3 + 15
  <2>1. arg \in Int
    <3> HIDE DEF a, b
    <3>1. a \in Int /\ b \in Int
      BY <1>1 DEF a, b
    <3>2. QED
      BY <3>1, SMT
  <2>2. EasterH(y) = arg % 30
    BY DEF EasterH
  <2> HIDE DEF arg
  <2>3. QED
    BY <2>1, <2>2, SMT
<1>3. EasterL(y) \in 0 .. 6
  <2> DEFINE arg == 32 + 2 * (b % 4) + 2 * (c \div 4) - EasterH(y) - (c % 4)
  <2>1. arg \in Int
    <3> HIDE DEF b, c
    <3>1. b \in Int /\ c \in Int
      BY <1>1 DEF b, c
    <3>2. QED
      BY <1>2, <3>1, SMT
  <2>2. EasterL(y) = arg % 7
    BY DEF EasterL
  <2> HIDE DEF arg
  <2>3. QED
    BY <2>1, <2>2, SMT
<1>4. EasterM(y) = (a + 11 * EasterH(y) + 22 * EasterL(y)) \div 451 /\ a \in 0 .. 18
  BY <1>1 DEF EasterM
<1> HIDE DEF a, b, c
<1>5. EasterM(y) \in 0 .. 1 /\ EasterH(y) + EasterL(y) - 7 * EasterM(y) \in 0 .. 35
  BY <1>2, <1>3, <1>4, SMT
<1>6. QED
  BY <1>1, <1>2, <1>3, <1>5

\* The first of March, after the year's leap day.
LEMMA FirstOfMarch ==
    ASSUME NEW y \in Nat
    PROVE  Date(y, 3, 1) = 365 * (y - 1) + y \div 4 - y \div 100 + y \div 400 + 60
<1>1. DaysBeforeMonth(y, 3) = 59 + IF Leap(y) THEN 1 ELSE 0
  BY MonthTable, SMT DEF DaysBeforeMonth
<1>2. /\ (y - 1) \div 4 + (IF y % 4 = 0 THEN 1 ELSE 0) = y \div 4
      /\ (y - 1) \div 100 + (IF y % 100 = 0 THEN 1 ELSE 0) = y \div 100
      /\ (y - 1) \div 400 + (IF y % 400 = 0 THEN 1 ELSE 0) = y \div 400
  BY SMT
<1>3. (y % 400 = 0 => y % 100 = 0) /\ (y % 100 = 0 => y % 4 = 0)
  BY SMT
<1>4. (IF Leap(y) THEN 1 ELSE 0) = (IF y % 4 = 0 THEN 1 ELSE 0) - (IF y % 100 = 0 THEN 1 ELSE 0)
                                     + (IF y % 400 = 0 THEN 1 ELSE 0)
  BY <1>3 DEF Leap
<1> DEFINE a == (y - 1) \div 4
           b == (y - 1) \div 100
           c == (y - 1) \div 400
           i == IF y % 4 = 0 THEN 1 ELSE 0
           j == IF y % 100 = 0 THEN 1 ELSE 0
           k == IF y % 400 = 0 THEN 1 ELSE 0
<1>5. a \in Int /\ b \in Int /\ c \in Int /\ i \in Int /\ j \in Int /\ k \in Int
  OBVIOUS
<1>6. YearStart(y) = 365 * (y - 1) + a - b + c + 1
  BY DEF YearStart
<1>7. Date(y, 3, 1) = YearStart(y) + (59 + (i - j + k)) + 1 - 1
  BY <1>1, <1>4, SMT DEF Date
<1>8. a + i = y \div 4 /\ b + j = y \div 100 /\ c + k = y \div 400
  BY <1>2
<1> HIDE DEF a, b, c, i, j, k
<1>9. QED
  BY <1>5, <1>6, <1>7, <1>8, SMT

LEMMA EasterIsSunday ==
    ASSUME NEW y \in Nat \ {0}
    PROVE  /\ Easter(y) = Date(y, 3, 1) + 21 + EasterH(y) + EasterL(y) - 7 * EasterM(y)
           /\ Date(y, 3, 1) \in Int
           /\ Weekday(Easter(y)) = 6
<1> DEFINE n == EasterH(y) + EasterL(y) - 7 * EasterM(y) + 114
           h == EasterH(y)
           l == EasterL(y)
           w == EasterM(y)
           mar == Date(y, 3, 1)
<1>1. /\ h \in 0 .. 29 /\ l \in 0 .. 6 /\ w \in 0 .. 1 /\ n \in 114 .. 149
      /\ n = h + l - 7 * w + 114
  BY EasterParts, SMT
<1>2. Easter(y) = Date(y, n \div 31, (n % 31) + 1)
  BY SMT DEF Easter, EasterH, EasterL, EasterM
<1>3. /\ mar \in Int /\ \A d \in Int : Date(y, 3, d) = mar + d - 1
      /\ \A d \in Int : Date(y, 4, d) = mar + 31 + d - 1
  <2>1. YearStart(y) \in Int
    BY YearStartInt, SMT
  <2>2. DaysBeforeMonth(y, 3) \in Int /\ DaysBeforeMonth(y, 4) = DaysBeforeMonth(y, 3) + 31
    BY MonthTable, SMT DEF DaysBeforeMonth
  <2>3. QED
    BY <2>1, <2>2, SMT DEF Date
<1>4. Easter(y) = mar + n - 93
  <2> HIDE DEF mar, n
  <2>1. CASE n <= 123
    <3>1. n \div 31 = 3 /\ n % 31 = n - 93 /\ n - 93 + 1 \in Int
      BY <1>1, <2>1, SMT
    <3>2. Easter(y) = Date(y, 3, n - 93 + 1)
      BY <1>2, <3>1
    <3>3. QED
      BY <1>1, <1>3, <3>1, <3>2, SMT
  <2>2. CASE n >= 124
    <3>1. n \div 31 = 4 /\ n % 31 = n - 124 /\ n - 124 + 1 \in Int
      BY <1>1, <2>2, SMT
    <3>2. Easter(y) = Date(y, 4, n - 124 + 1)
      BY <1>2, <3>1
    <3>3. QED
      BY <1>1, <1>3, <3>1, <3>2, SMT
  <2>3. QED
    BY <1>1, <2>1, <2>2, SMT
<1>5. Weekday(Easter(y)) = 6
  <2> DEFINE b == y \div 100
             c == y % 100
             q == b \div 4
             e == b % 4
             i == c \div 4
             k == c % 4
             arg == 32 + 2 * e + 2 * i - h - k
             v == arg \div 7
  <2>1. b \in Int /\ c \in Int /\ y = 100 * b + c /\ 0 <= c /\ c < 100
    BY SMT
  <2>2. q \in Int /\ e \in Int /\ b = 4 * q + e /\ i \in Int /\ k \in Int /\ c = 4 * i + k
        /\ 0 <= k /\ k <= 3 /\ 0 <= e /\ e <= 3
    <3> HIDE DEF b, c
    <3>1. QED
      BY <2>1, SMT
  <2>3. l = arg % 7
    BY DEF EasterL
  <2> HIDE DEF h
  <2>4. arg \in Int /\ v \in Int /\ l = arg - 7 * v
    <3>1. arg \in Int
      <4> HIDE DEF e, i, k
      <4>1. QED
        BY <1>1, <2>2, SMT
    <3> HIDE DEF arg, l
    <3>2. QED
      BY <2>3, <3>1, SMT
  <2>5. y \div 4 = 25 * b + i /\ y \div 400 = q
    <3> HIDE DEF b, c, q, e, i, k
    <3>1. y = 4 * (25 * b + i) + k /\ y = 400 * q + 100 * e + c
      BY <2>1, <2>2, SMT
    <3>2. QED
      BY <2>1, <2>2, <3>1, SMT
  <2>6. mar = 365 * (y - 1) + (25 * b + i) - b + q + 60
    <3>1. y \in Nat
      OBVIOUS
    <3>2. Date(y, 3, 1) = 365 * (y - 1) + y \div 4 - y \div 100 + y \div 400 + 60
      BY <3>1, FirstOfMarch, ZenonT(60)
    <3>3. QED
      BY <2>5, <3>2
  <2>7. arg = 32 + 2 * e + 2 * i - h - k
    OBVIOUS
  <2> HIDE DEF b, c, q, e, i, k, v, arg, mar, l, w, n
  <2>8. Easter(y) = 7 * (20871 * q + 5218 * e + 209 * i + 52 * k - 36 - v - w)
    BY <1>1, <1>3, <1>4, <2>1, <2>2, <2>4, <2>6, <2>7, SMT
  <2> DEFINE s == 20871 * q + 5218 * e + 209 * i + 52 * k - 36 - v - w
  <2>9. s \in Int /\ Easter(y) = 7 * s
    BY <1>1, <2>2, <2>4, <2>8, SMT
  <2> HIDE DEF s
  <2>10. QED
    BY <2>9, SMT DEF Weekday
<1>6. QED
  <2>1. Easter(y) = mar + 21 + h + l - 7 * w
    <3> HIDE DEF mar, h, l, w, n
    <3>1. QED
      BY <1>1, <1>3, <1>4, SMT
  <2>2. QED
    BY <1>3, <1>5, <2>1

\* In the table's centuries Easter is the Sunday of the week after its full moon.
TableYears == 1900 .. 2199

LEMMA EasterAfterMoon ==
    ASSUME NEW y \in TableYears
    PROVE  /\ PaschalMoon[(y % 19) + 1] \in 22 .. 49
           /\ Easter(y) \in Date(y, 3, 1) + PaschalMoon[(y % 19) + 1]
                          .. Date(y, 3, 1) + PaschalMoon[(y % 19) + 1] + 6
<1> DEFINE a == y % 19
           b == y \div 100
           h == EasterH(y)
           l == EasterL(y)
           w == EasterM(y)
<1>1. y \in Nat \ {0} /\ b \in {19, 20, 21} /\ a \in 0 .. 18
  BY SMT DEF TableYears
<1>2. h = (19 * a + 24) % 30
  <2>1. h = (19 * a + b - b \div 4 - (b - (b + 8) \div 25 + 1) \div 3 + 15) % 30
    BY DEF EasterH
  <2> HIDE DEF a, b, h
  <2>2. CASE b = 19
    BY <1>1, <2>1, <2>2, SMT
  <2>3. CASE b = 20
    BY <1>1, <2>1, <2>3, SMT
  <2>4. CASE b = 21
    BY <1>1, <2>1, <2>4, SMT
  <2>5. QED
    BY <1>1, <2>2, <2>3, <2>4
<1>3. w = (a + 11 * h + 22 * l) \div 451 /\ l \in 0 .. 6
  BY <1>1, EasterParts, SMT DEF EasterM
<1> DEFINE moon == PaschalMoon[a + 1]
<1>4. moon \in 22 .. 49 /\ 21 + h + l - 7 * w \in moon .. moon + 6
  <2> HIDE DEF a, b, h, l, w
  <2>1. /\ PaschalMoon[1] = 45 /\ PaschalMoon[2] = 34 /\ PaschalMoon[3] = 23
        /\ PaschalMoon[4] = 42 /\ PaschalMoon[5] = 31 /\ PaschalMoon[6] = 49
        /\ PaschalMoon[7] = 39 /\ PaschalMoon[8] = 28 /\ PaschalMoon[9] = 47
        /\ PaschalMoon[10] = 36 /\ PaschalMoon[11] = 25 /\ PaschalMoon[12] = 44
        /\ PaschalMoon[13] = 33 /\ PaschalMoon[14] = 22 /\ PaschalMoon[15] = 41
        /\ PaschalMoon[16] = 30 /\ PaschalMoon[17] = 48 /\ PaschalMoon[18] = 38
        /\ PaschalMoon[19] = 27
    BY DEF PaschalMoon
  <2>2. a \in {0, 1, 2, 3, 4, 5, 6, 7, 8, 9, 10, 11, 12, 13, 14, 15, 16, 17, 18}
    BY <1>1, SMT
  <2>h. /\ (a = 0 => h = 24) /\ (a = 1 => h = 13) /\ (a = 2 => h = 2) /\ (a = 3 => h = 21)
        /\ (a = 4 => h = 10) /\ (a = 5 => h = 29) /\ (a = 6 => h = 18) /\ (a = 7 => h = 7)
        /\ (a = 8 => h = 26) /\ (a = 9 => h = 15) /\ (a = 10 => h = 4) /\ (a = 11 => h = 23)
        /\ (a = 12 => h = 12) /\ (a = 13 => h = 1) /\ (a = 14 => h = 20) /\ (a = 15 => h = 9)
        /\ (a = 16 => h = 28) /\ (a = 17 => h = 17) /\ (a = 18 => h = 6)
    BY <1>2, SMT
  <2>3. /\ (a = 0 => moon = 45) /\ (a = 1 => moon = 34) /\ (a = 2 => moon = 23) /\ (a = 3 => moon = 42)
        /\ (a = 4 => moon = 31) /\ (a = 5 => moon = 49) /\ (a = 6 => moon = 39) /\ (a = 7 => moon = 28)
        /\ (a = 8 => moon = 47) /\ (a = 9 => moon = 36) /\ (a = 10 => moon = 25) /\ (a = 11 => moon = 44)
        /\ (a = 12 => moon = 33) /\ (a = 13 => moon = 22) /\ (a = 14 => moon = 41) /\ (a = 15 => moon = 30)
        /\ (a = 16 => moon = 48) /\ (a = 17 => moon = 38) /\ (a = 18 => moon = 27)
    BY <2>1, SMT
  <2> HIDE DEF moon
  \* The algorithm moves the two latest moons a day back.
  <2>4. \/ moon = 21 + h /\ h \in 1 .. 26
        \/ moon = 48 /\ h = 28 /\ a = 16
        \/ moon = 49 /\ h = 29 /\ a = 5
    BY <2>2, <2>h, <2>3, SMT
  <2>5. CASE moon = 21 + h /\ h \in 1 .. 26
    BY <1>1, <1>3, <2>5, SMT
  <2>6. CASE moon = 48 /\ h = 28 /\ a = 16
    BY <1>3, <2>6, SMT
  <2>7. CASE moon = 49 /\ h = 29 /\ a = 5
    BY <1>3, <2>7, SMT
  <2>8. QED
    BY <2>4, <2>5, <2>6, <2>7
<1>5. Easter(y) = Date(y, 3, 1) + (21 + h + l - 7 * w) /\ Date(y, 3, 1) \in Int
  <2>1. h \in Int /\ l \in Int /\ w \in Int
    BY <1>1, EasterParts, SMT
  <2>2. Easter(y) = Date(y, 3, 1) + 21 + h + l - 7 * w /\ Date(y, 3, 1) \in Int
    BY <1>1, EasterIsSunday
  <2> HIDE DEF h, l, w
  <2>3. QED
    BY <2>1, <2>2, SMT
<1>6. QED
  <2> DEFINE day == 21 + h + l - 7 * w
             mar == Date(y, 3, 1)
  <2>1. day \in moon .. moon + 6 /\ moon \in 22 .. 49 /\ Easter(y) = mar + day /\ mar \in Int
    BY <1>4, <1>5
  <2> HIDE DEF day, mar, moon
  <2>2. Easter(y) \in mar + moon .. mar + moon + 6
    BY <2>1, SMT
  <2>3. QED
    BY <2>1, <2>2 DEF mar, moon

LEMMA GoodFriday ==
    ASSUME NEW x \in Nat \ {0}, YearOf(x) \in TableYears
    PROVE  IsGoodFriday(x) <=> x = Easter(YearOf(x)) - 2
<1> DEFINE y == YearOf(x)
           mar == Date(y, 3, 1)
           day == PaschalMoon[(y % 19) + 1]
           sunday == Easter(y)
<1>1. y \in Nat \ {0} /\ y \in TableYears /\ x \in Int
  BY DateOfDay
<1>2. day \in 22 .. 49 /\ sunday \in mar + day .. mar + day + 6 /\ mar \in Int /\ Weekday(sunday) = 6
  <2> HIDE DEF y
  <2>1. day \in 22 .. 49 /\ sunday \in mar + day .. mar + day + 6
    BY <1>1, EasterAfterMoon, Zenon
  <2>2. mar \in Int /\ Weekday(sunday) = 6
    BY <1>1, EasterIsSunday, SMT
  <2>3. QED
    BY <2>1, <2>2
<1>3. IsGoodFriday(x) <=> /\ Weekday(x) = 4
                          /\ x + 2 \in mar + day - 1 + 1 .. mar + day - 1 + 7
  BY DEF IsGoodFriday
<1> HIDE DEF y, mar, day, sunday
<1>4. sunday \in Int
  BY <1>2, SMT
<1>5. IsGoodFriday(x) <=> x = sunday - 2
  BY <1>1, <1>2, <1>3, <1>4, SMT DEF Weekday
<1>6. QED
  BY <1>5 DEF sunday, y

\* IsHoliday says of a day what the year's set of holidays does.
LEMMA HolidaysAgree ==
    ASSUME NEW x \in Nat \ {0}, YearOf(x) \in TableYears
    PROVE  IsHoliday(x) <=> x \in StatutoryHolidays(YearOf(x))
<1> DEFINE y == YearOf(x)
<1>1. /\ y \in Nat \ {0} /\ y \in Int
      /\ 1 \in Months /\ 7 \in Months /\ 9 \in Months /\ 10 \in Months /\ 11 \in Months /\ 12 \in Months
  <2>1. y \in Nat \ {0} /\ y \in Int
    BY DateOfDay
  <2>2. QED
    BY <2>1, MonthNumbers, SMT
<1> HIDE DEF y
<1>2. /\ MonthLength(y, 1) = 31 /\ MonthLength(y, 7) = 31 /\ MonthLength(y, 9) = 30
      /\ MonthLength(y, 11) = 30 /\ MonthLength(y, 12) = 31
  BY DEF MonthLength
<1>3. /\ x = Date(y, 1, 1) <=> MonthOf(x) = 1 /\ DayOf(x) = 1
      /\ x = Date(y, 7, 1) <=> MonthOf(x) = 7 /\ DayOf(x) = 1
      /\ x = Date(y, 9, 30) <=> MonthOf(x) = 9 /\ DayOf(x) = 30
      /\ x = Date(y, 11, 11) <=> MonthOf(x) = 11 /\ DayOf(x) = 11
      /\ x = Date(y, 12, 25) <=> MonthOf(x) = 12 /\ DayOf(x) = 25
      /\ x = Date(y, 12, 26) <=> MonthOf(x) = 12 /\ DayOf(x) = 26
  <2>1. 1 \in 1 .. 31 /\ 30 \in 1 .. 30 /\ 11 \in 1 .. 30 /\ 25 \in 1 .. 31 /\ 26 \in 1 .. 31
    OBVIOUS
  <2>2. QED
    BY <1>1, <1>2, <2>1, DateIs DEF y
<1>4. x = VictoriaDay(y) <=> Weekday(x) = 0 /\ MonthOf(x) = 5 /\ DayOf(x) \in 18 .. 24
  BY VictoriaIsMonday DEF y
<1>5. x = NthWeekday(y, 9, 0, 1) <=> Weekday(x) = 0 /\ MonthOf(x) = 9 /\ DayOf(x) \in 1 .. 7
  <2>1. 7 * 1 - 6 = 1 /\ 7 * 1 = 7 /\ 1 \in 1 .. 4
    OBVIOUS
  <2>2. x = NthWeekday(y, 9, 0, 1)
          <=> Weekday(x) = 0 /\ MonthOf(x) = 9 /\ DayOf(x) \in 7 * 1 - 6 .. 7 * 1
    BY <1>1, <2>1, NthMonday DEF y
  <2>3. QED
    BY <2>1, <2>2
<1>6. x = NthWeekday(y, 10, 0, 2) <=> Weekday(x) = 0 /\ MonthOf(x) = 10 /\ DayOf(x) \in 8 .. 14
  <2>1. 7 * 2 - 6 = 8 /\ 7 * 2 = 14 /\ 2 \in 1 .. 4
    OBVIOUS
  <2>2. x = NthWeekday(y, 10, 0, 2)
          <=> Weekday(x) = 0 /\ MonthOf(x) = 10 /\ DayOf(x) \in 7 * 2 - 6 .. 7 * 2
    BY <1>1, <2>1, NthMonday DEF y
  <2>3. QED
    BY <2>1, <2>2
<1>7. x = Easter(y) - 2 <=> IsGoodFriday(x)
  BY GoodFriday DEF y
<1>8. x \in StatutoryHolidays(y) <=>
        \/ x = Date(y, 1, 1) \/ x = Easter(y) - 2 \/ x = VictoriaDay(y) \/ x = Date(y, 7, 1)
        \/ x = NthWeekday(y, 9, 0, 1) \/ x = Date(y, 9, 30) \/ x = NthWeekday(y, 10, 0, 2)
        \/ x = Date(y, 11, 11) \/ x = Date(y, 12, 25) \/ x = Date(y, 12, 26)
  BY DEF StatutoryHolidays
<1>9. IsHoliday(x) <=>
        \/ MonthOf(x) = 1 /\ DayOf(x) = 1
        \/ MonthOf(x) = 7 /\ DayOf(x) = 1
        \/ MonthOf(x) = 9 /\ DayOf(x) = 30
        \/ MonthOf(x) = 11 /\ DayOf(x) = 11
        \/ MonthOf(x) = 12 /\ DayOf(x) = 25
        \/ MonthOf(x) = 12 /\ DayOf(x) = 26
        \/ Weekday(x) = 0 /\ MonthOf(x) = 5 /\ DayOf(x) \in 18 .. 24
        \/ Weekday(x) = 0 /\ MonthOf(x) = 9 /\ DayOf(x) \in 1 .. 7
        \/ Weekday(x) = 0 /\ MonthOf(x) = 10 /\ DayOf(x) \in 8 .. 14
        \/ IsGoodFriday(x)
  BY DEF IsHoliday
<1>10. IsHoliday(x) <=> x \in StatutoryHolidays(y)
  BY <1>3, <1>4, <1>5, <1>6, <1>7, <1>8, <1>9, PTL
<1>11. QED
  BY <1>10 DEF y

\* The fixed holidays, by the day of the year; the others fall on Mondays and Fridays.
LEMMA HolidaysInYear ==
    ASSUME NEW y \in Nat \ {0}, NEW x \in StatutoryHolidays(y)
    PROVE  /\ x \in Int /\ YearStart(y) <= x /\ x < YearStart(y + 1)
           /\ \/ Weekday(x) \in {0, 4}
              \/ \E L \in {0, 1} :
                    /\ YearStart(y + 1) = YearStart(y) + 365 + L
                    /\ x - YearStart(y) \in {0, 181 + L, 272 + L, 314 + L, 358 + L, 359 + L}
<1> DEFINE L == IF Leap(y) THEN 1 ELSE 0
           s == YearStart(y)
           new == Date(y, 1, 1)
<1>1. y \in Int /\ L \in {0, 1} /\ s \in Int /\ s >= 1 /\ YearStart(y + 1) = s + 365 + L
  <2>1. y \in Int
    OBVIOUS
  <2>2. s \in Int /\ s >= 1 /\ YearStart(y + 1) = s + IF Leap(y) THEN 366 ELSE 365
    BY <2>1, YearLength, SMT
  <2>3. QED
    BY <2>1, <2>2, SMT
<1>2. /\ DaysBeforeMonth(y, 1) = 0 /\ DaysBeforeMonth(y, 3) = 59 + L
      /\ DaysBeforeMonth(y, 5) = 120 + L /\ DaysBeforeMonth(y, 7) = 181 + L
      /\ DaysBeforeMonth(y, 9) = 243 + L /\ DaysBeforeMonth(y, 10) = 273 + L
      /\ DaysBeforeMonth(y, 11) = 304 + L /\ DaysBeforeMonth(y, 12) = 334 + L
  BY MonthTable, SMT DEF DaysBeforeMonth
<1> HIDE DEF L, s
<1>3. /\ new = s /\ Date(y, 7, 1) = s + 181 + L /\ Date(y, 9, 30) = s + 272 + L
      /\ Date(y, 11, 11) = s + 314 + L /\ Date(y, 12, 25) = s + 358 + L
      /\ Date(y, 12, 26) = s + 359 + L
      /\ Date(y, 3, 1) = s + 59 + L /\ Date(y, 5, 1) = s + 120 + L
      /\ Date(y, 9, 1) = s + 243 + L /\ Date(y, 10, 1) = s + 273 + L
  BY <1>1, <1>2, SMT DEF Date, s
<1>4. new \in Nat \ {0} /\ YearOf(new) = y /\ 9 \in Months /\ 10 \in Months
  <2>1. 1 \in Months /\ 9 \in Months /\ 10 \in Months /\ 1 \in 1 .. MonthLength(y, 1)
    BY MonthNumbers, SMT DEF MonthLength
  <2>2. QED
    BY <2>1, PartsOfDate
<1>5. ASSUME x \in s .. s + 364, Weekday(x) \in {0, 4}
      PROVE  /\ x \in Int /\ YearStart(y) <= x /\ x < YearStart(y + 1)
             /\ Weekday(x) \in {0, 4}
  BY <1>1, <1>5, SMT DEF s
<1>6. CASE x = Easter(y) - 2
  <2>1. /\ Easter(y) = Date(y, 3, 1) + 21 + EasterH(y) + EasterL(y) - 7 * EasterM(y)
        /\ Weekday(Easter(y)) = 6
    BY EasterIsSunday
  <2>2. /\ EasterH(y) \in 0 .. 29 /\ EasterL(y) \in 0 .. 6 /\ EasterM(y) \in 0 .. 1
        /\ EasterH(y) + EasterL(y) - 7 * EasterM(y) \in 0 .. 35
    BY EasterParts, SMT
  <2>3. Easter(y) \in s + 80 .. s + 116
    BY <1>1, <1>3, <2>1, <2>2, SMT
  <2>4. x \in s .. s + 364 /\ Weekday(x) = 4
    BY <1>1, <1>6, <2>1, <2>3, SMT DEF Weekday
  <2>5. QED
    BY <1>5, <2>4
<1>7. CASE x = VictoriaDay(y)
  <2>1. VictoriaDay(y) \in Date(y, 5, 1) + 17 .. Date(y, 5, 1) + 23
    BY <1>4, VictoriaIsMonday
  <2>2. x \in s .. s + 364 /\ x \in Nat \ {0}
    BY <1>1, <1>3, <1>7, <2>1, SMT
  <2>3. YearOf(x) = y
    BY <1>1, <2>2, YearOfRight, SMT DEF s
  <2>4. Weekday(x) = 0
    BY <1>7, <2>2, <2>3, VictoriaIsMonday
  <2>5. QED
    BY <1>5, <2>2, <2>4
<1>8. CASE x = NthWeekday(y, 9, 0, 1)
  <2>1. x \in Date(y, 9, 1) + 7 * 1 - 7 .. Date(y, 9, 1) + 7 * 1 - 1
    <3>1. 1 \in 1 .. 4
      OBVIOUS
    <3>2. QED
      BY <1>4, <1>8, <3>1, NthMonday, Zenon
  <2>2. x \in s .. s + 364 /\ x \in Nat \ {0}
    BY <1>1, <1>3, <2>1, SMT
  <2>3. YearOf(x) = y
    BY <1>1, <2>2, YearOfRight, SMT DEF s
  <2>4. Weekday(x) = 0
    <3>1. 1 \in 1 .. 4
      OBVIOUS
    <3>2. QED
      BY <1>4, <1>8, <2>2, <2>3, <3>1, NthMonday, Zenon
  <2>5. QED
    BY <1>5, <2>2, <2>4
<1>9. CASE x = NthWeekday(y, 10, 0, 2)
  <2>1. x \in Date(y, 10, 1) + 7 * 2 - 7 .. Date(y, 10, 1) + 7 * 2 - 1
    <3>1. 2 \in 1 .. 4
      OBVIOUS
    <3>2. QED
      BY <1>4, <1>9, <3>1, NthMonday, Zenon
  <2>2. x \in s .. s + 364 /\ x \in Nat \ {0}
    BY <1>1, <1>3, <2>1, SMT
  <2>3. YearOf(x) = y
    BY <1>1, <2>2, YearOfRight, SMT DEF s
  <2>4. Weekday(x) = 0
    <3>1. 2 \in 1 .. 4
      OBVIOUS
    <3>2. QED
      BY <1>4, <1>9, <2>2, <2>3, <3>1, NthMonday, Zenon
  <2>5. QED
    BY <1>5, <2>2, <2>4
<1>10. CASE x \in {new, Date(y, 7, 1), Date(y, 9, 30), Date(y, 11, 11), Date(y, 12, 25), Date(y, 12, 26)}
  <2>1. x - s \in {0, 181 + L, 272 + L, 314 + L, 358 + L, 359 + L} /\ x \in Int
    BY <1>1, <1>3, <1>10, SMT
  <2>2. s <= x /\ x < s + 365 + L
    BY <1>1, <2>1, SMT
  <2>3. QED
    BY <1>1, <2>1, <2>2 DEF s
<1>11. QED
  BY <1>6, <1>7, <1>8, <1>9, <1>10 DEF StatutoryHolidays

\* A day's holidays are those of its year.
LEMMA HolidaysOfWindow ==
    ASSUME NEW v \in Nat \ {0}, NEW x \in v .. v + 14
    PROVE  /\ x \in Nat \ {0}
           /\ YearOf(x) \in {YearOf(v), YearOf(v) + 1}
           /\ x \in HolidaysFrom(v) <=> x \in StatutoryHolidays(YearOf(x))
<1> DEFINE y == YearOf(v)
           z == YearOf(x)
<1>1. x \in Nat \ {0} /\ v <= x /\ x <= v + 14
  BY SMT
<1>2. /\ y \in Nat \ {0} /\ YearStart(y) <= v /\ v < YearStart(y + 1)
      /\ z \in Nat \ {0} /\ YearStart(z) <= x /\ x < YearStart(z + 1)
  BY <1>1, YearOfDay, SMT
<1> HIDE DEF y, z
<1>3. y \in Int /\ z \in Int /\ y + 1 \in Int /\ z + 1 \in Int /\ y + 1 \in Nat \ {0} /\ y + 1 + 1 \in Int
  BY <1>2
<1>4. /\ YearStart(y) \in Int /\ YearStart(y + 1) \in Int /\ YearStart(z) \in Int
      /\ YearStart(z + 1) \in Int /\ YearStart(y + 1 + 1) \in Int
  BY <1>3, YearStartInt, Zenon
<1>5. YearStart(y + 1 + 1) >= YearStart(y + 1) + 365
  <2>1. YearStart(y + 1 + 1) = YearStart(y + 1) + IF Leap(y + 1) THEN 366 ELSE 365
    BY <1>3, NextYear, Zenon
  <2>2. QED
    BY <1>4, <2>1, SMT
<1>6. z \in {y, y + 1}
  <2>1. CASE x < YearStart(y + 1)
    <3>1. z = y
      BY <1>1, <1>2, <1>4, <2>1, OneYear, SMT
    <3>2. QED
      BY <3>1
  <2>2. CASE x >= YearStart(y + 1)
    <3>1. x < YearStart(y + 1 + 1)
      BY <1>1, <1>2, <1>4, <1>5, SMT
    <3>2. z = y + 1
      BY <1>1, <1>2, <1>3, <1>4, <2>2, <3>1, OneYear, SMT
    <3>3. QED
      BY <3>2
  <2>3. QED
    BY <1>1, <1>4, <2>1, <2>2, SMT
<1>7. \A w \in {y, y + 1} : x \in StatutoryHolidays(w) => w = z
  <2> SUFFICES ASSUME NEW w \in {y, y + 1}, x \in StatutoryHolidays(w) PROVE w = z
    OBVIOUS
  <2>1. w \in Nat \ {0}
    BY <1>2, <1>3
  <2>2. YearStart(w) <= x /\ x < YearStart(w + 1)
    BY <2>1, HolidaysInYear
  <2>3. QED
    BY <1>1, <1>2, <2>1, <2>2, OneYear, SMT
<1>8. x \in HolidaysFrom(v) <=> x \in StatutoryHolidays(y) \/ x \in StatutoryHolidays(y + 1)
  BY DEF HolidaysFrom, y
<1>9. x \in HolidaysFrom(v) <=> x \in StatutoryHolidays(z)
  BY <1>6, <1>7, <1>8
<1>10. QED
  BY <1>1, <1>6, <1>9 DEF y, z

\* Of a Wednesday, the Thursday after it and the Thursday of the next week one is
\* no holiday.
LEMMA SomeBusinessDay ==
    ASSUME NEW v \in Nat \ {0}
    PROVE  \E x \in v .. v + 14 : Weekday(x) < 5 /\ x \notin HolidaysFrom(v)
<1> DEFINE y == YearOf(v)
           w == v + ((2 - Weekday(v)) % 7)
           s == YearStart(y)
           new == YearStart(y + 1)
<1>1. y \in Nat \ {0} /\ y + 1 \in Nat \ {0}
  BY YearOfDay, SMT
<1>2. s \in Int /\ new \in Int /\ YearStart(y + 1 + 1) \in Int
  <2> HIDE DEF y
  <2>1. y \in Int /\ y + 1 \in Int /\ y + 1 + 1 \in Int
    BY <1>1
  <2>2. QED
    BY <2>1, YearStartInt, Zenon
<1>3. /\ w \in v .. v + 6 /\ w \in Int /\ Weekday(w) = 2
      /\ Weekday(w + 1) = 3 /\ Weekday(w + 8) = 3
  BY SMT DEF Weekday
<1> DEFINE fixed(day) ==
              \/ \E L \in {0, 1} : /\ new = s + 365 + L
                                   /\ day - s \in {0, 181 + L, 272 + L, 314 + L, 358 + L, 359 + L}
              \/ \E K \in {0, 1} : day - new \in {0, 181 + K, 272 + K, 314 + K, 358 + K, 359 + K}
<1>4. ASSUME NEW day \in {w, w + 1, w + 8}, day \in HolidaysFrom(v)
      PROVE  fixed(day)
  <2>1. Weekday(day) \in {2, 3}
    <3> HIDE DEF w
    <3>1. QED
      BY <1>3
  <2> HIDE DEF w
  <2>2. CASE day \in StatutoryHolidays(y)
    <3> HIDE DEF y
    <3>1. \E L \in {0, 1} :
             /\ YearStart(y + 1) = YearStart(y) + 365 + L
             /\ day - YearStart(y) \in {0, 181 + L, 272 + L, 314 + L, 358 + L, 359 + L}
      BY <1>1, <2>1, <2>2, HolidaysInYear
    <3>2. QED
      BY <3>1
  <2>3. CASE day \in StatutoryHolidays(y + 1)
    <3> HIDE DEF y
    <3>1. \E L \in {0, 1} :
             /\ YearStart(y + 1 + 1) = YearStart(y + 1) + 365 + L
             /\ day - YearStart(y + 1) \in {0, 181 + L, 272 + L, 314 + L, 358 + L, 359 + L}
      BY <1>1, <2>1, <2>3, HolidaysInYear
    <3>2. QED
      BY <3>1
  <2>4. QED
    BY <1>4, <2>2, <2>3 DEF HolidaysFrom
<1>5. \E L \in {0, 1} : new = s + 365 + L
  <2> HIDE DEF y
  <2>1. y \in Int
    BY <1>1
  <2>2. new = s + IF Leap(y) THEN 366 ELSE 365
    BY <2>1, NextYear, Zenon
  <2>3. QED
    BY <1>2, <2>2, SMT
<1> HIDE DEF w, s, new, y
<1>6. ~(fixed(w) /\ fixed(w + 1) /\ fixed(w + 8))
  BY <1>2, <1>3, <1>5, SMT
<1>7. PICK day \in {w, w + 1, w + 8} : day \notin HolidaysFrom(v)
  BY <1>4, <1>6
<1>8. day \in v .. v + 14 /\ Weekday(day) < 5
  BY <1>3, <1>7, SMT
<1>9. QED
  BY <1>7, <1>8

\* next_business_day returns the first one.
LEMMA NextBusinessDayIsFirst ==
    ASSUME NEW v \in Nat \ {0}
    PROVE  /\ NextBusinessDay(v) \in v .. v + 14
           /\ Weekday(NextBusinessDay(v)) < 5 /\ NextBusinessDay(v) \notin HolidaysFrom(v)
           /\ \A x \in v .. NextBusinessDay(v) - 1 : Weekday(x) >= 5 \/ x \in HolidaysFrom(v)
<1> DEFINE S == {x \in v .. v + 14 : Weekday(x) < 5 /\ x \notin HolidaysFrom(v)}
<1>1. S \subseteq Nat /\ S # {}
  BY SomeBusinessDay, SMT
<1>2. NextBusinessDay(v) = Min(S)
  BY Zenon DEF NextBusinessDay
<1>3. PICK r \in S : \A x \in S : r <= x
  <2> HIDE DEF S
  <2>1. PICK r \in S : \A x \in S : <<x, r>> \notin OpToRel(<, Nat)
    BY <1>1, NatLessThanWellFounded, WFMin
  <2>2. \A x \in S : ~(x < r)
    BY <1>1, <2>1 DEF OpToRel
  <2>3. QED
    BY <1>1, <2>2
<1>4. \A z \in S : (\A x \in S : z <= x) => z = r
  <2> HIDE DEF S
  <2>1. QED
    BY <1>1, <1>3, SMT
<1>5. Min(S) = r
  <2> HIDE DEF S
  <2>1. QED
    BY <1>3, <1>4, Zenon DEF Min
<1>6. r \in v .. v + 14 /\ Weekday(r) < 5 /\ r \notin HolidaysFrom(v)
  BY <1>3
<1>7. \A x \in v .. r - 1 : Weekday(x) >= 5 \/ x \in HolidaysFrom(v)
  <2> SUFFICES ASSUME NEW x \in v .. r - 1, ~(Weekday(x) >= 5), x \notin HolidaysFrom(v) PROVE FALSE
    OBVIOUS
  <2>1. x \in v .. v + 14 /\ Weekday(x) < 5
    BY <1>6, SMT DEF Weekday
  <2>2. x \in S
    BY <2>1
  <2>3. r <= x
    BY <1>3, <2>2
  <2>4. QED
    BY <1>6, <2>3, SMT
<1>8. QED
  BY <1>2, <1>5, <1>6, <1>7

\* For the years whose moons are tabulated the engine's holidays are the calendar's,
\* and so the day it finds is the first business day.
LEMMA FirstBusinessDay ==
    ASSUME NEW v \in Date(1900, 1, 1) .. Date(2198, 12, 31)
    PROVE  /\ v <= NextBusinessDay(v) /\ BusinessDay(NextBusinessDay(v))
           /\ \A d \in v .. NextBusinessDay(v) - 1 : ~BusinessDay(d)
<1> DEFINE r == NextBusinessDay(v)
           first == Date(1900, 1, 1)
           last == Date(2198, 12, 31)
<1>1. /\ first \in Nat \ {0} /\ last \in Nat \ {0}
      /\ YearOf(first) = 1900 /\ YearOf(last) = 2198
  <2>1. 1 \in Months /\ 12 \in Months
    BY MonthNumbers, SMT
  <2>2. /\ 1 \in 1 .. MonthLength(1900, 1) /\ 31 \in 1 .. MonthLength(2198, 12)
        /\ 1900 \in Nat \ {0} /\ 2198 \in Nat \ {0}
    BY SMT DEF MonthLength
  <2>3. QED
    BY <2>1, <2>2, PartsOfDate, SMT
<1>2. v \in first .. last
  OBVIOUS
<1> HIDE DEF first, last
<1>3. v \in Nat \ {0} /\ v \in Nat /\ first <= v /\ v <= last
  BY <1>1, <1>2, SMT
<1>4. YearOf(v) \in Nat /\ 1900 <= YearOf(v) /\ YearOf(v) <= 2198
  <2>1. YearOf(v) \in Nat
    BY <1>3, DateOfDay
  <2>2. YearOf(first) <= YearOf(v)
    BY <1>1, <1>3, YearsFollowDays
  <2>3. YearOf(v) <= YearOf(last)
    BY <1>1, <1>3, YearsFollowDays
  <2>4. QED
    BY <1>1, <2>1, <2>2, <2>3, SMT
<1>5. ASSUME NEW d \in v .. v + 14
      PROVE  BusinessDay(d) <=> Weekday(d) < 5 /\ d \notin HolidaysFrom(v)
  <2>1. /\ d \in Nat \ {0}
        /\ YearOf(d) \in {YearOf(v), YearOf(v) + 1}
        /\ d \in HolidaysFrom(v) <=> d \in StatutoryHolidays(YearOf(d))
    BY <1>3, HolidaysOfWindow
  <2>2. YearOf(d) \in TableYears
    BY <1>4, <2>1, SMT DEF TableYears
  <2>3. IsHoliday(d) <=> d \in HolidaysFrom(v)
    BY <2>1, <2>2, HolidaysAgree
  <2>4. Weekday(d) \notin {5, 6} <=> Weekday(d) < 5
    BY <2>1, SMT DEF Weekday
  <2>5. QED
    BY <2>3, <2>4 DEF BusinessDay
<1>6. /\ r \in v .. v + 14 /\ Weekday(r) < 5 /\ r \notin HolidaysFrom(v)
      /\ \A d \in v .. r - 1 : Weekday(d) >= 5 \/ d \in HolidaysFrom(v)
  BY <1>3, NextBusinessDayIsFirst
<1> HIDE DEF r
<1>7. ASSUME NEW d \in v .. r - 1 PROVE ~BusinessDay(d)
  <2>1. d \in v .. v + 14
    BY <1>3, <1>6, SMT
  <2>2. Weekday(d) >= 5 => ~(Weekday(d) < 5)
    BY <1>3, <2>1, SMT DEF Weekday
  <2>3. QED
    BY <1>5, <1>6, <2>1, <2>2
<1>8. v <= r /\ BusinessDay(r)
  BY <1>3, <1>5, <1>6, SMT
<1>9. QED
  BY <1>7, <1>8 DEF r

\* A plan's deadlines that observe business days fall on the first business day that
\* is not before their nominal date (next_business_day and statutory_holidays).
THEOREM DeadlinesFallOnBusinessDays == Spec => []FilingDaysAreRight
<1>1. TypeInv => FilingDaysAreRight
  <2> SUFFICES ASSUME TypeInv, NEW u \in Users, gen[u] # Idle, NEW p \in gen[u].plan,
                      gen[u].terms.rule.observe_business_days,
                      NominalDue(p.end, gen[u].terms.rule) \in Date(1900, 1, 1) .. Date(2198, 12, 31)
               PROVE  LET nominal == NominalDue(p.end, gen[u].terms.rule)
                      IN  /\ nominal <= p.due /\ BusinessDay(p.due)
                          /\ \A d \in nominal .. p.due - 1 : ~BusinessDay(d)
    BY DEF FilingDaysAreRight
  <2> DEFINE rule == gen[u].terms.rule
             v == NominalDue(p.end, rule)
  <2>1. p.due = DueDate(p.end, rule)
    <3>1. gen[u].plan = PlanDeadlines(gen[u].terms, gen[u].service, gen[u].from, gen[u].to)
      BY DEF TypeInv, Planned
    <3>2. QED
      BY <3>1 DEF PlanDeadlines
  <2>2. p.due = NextBusinessDay(v)
    BY <2>1 DEF DueDate
  <2>3. v \in Date(1900, 1, 1) .. Date(2198, 12, 31)
    OBVIOUS
  <2> HIDE DEF v
  <2>4. /\ v <= p.due /\ BusinessDay(p.due)
        /\ \A d \in v .. p.due - 1 : ~BusinessDay(d)
    BY <2>2, <2>3, FirstBusinessDay
  <2>5. QED
    BY <2>4 DEF v
<1>2. QED
  BY <1>1, AlwaysTyped, PTL
============================================================================
