----------------------------- MODULE TaxCalendar -----------------------------
(***************************************************************************)
(* The compliance calendar engine (services/deadlines.py): from a client's *)
(* fiscal year end and a service's frequency and due rule to its reporting *)
(* periods and their filing days.  A date is the number of its day, as     *)
(* date.toordinal counts them.                                             *)
(*                                                                         *)
(* Left out: labels and titles, and the loops' order.  A rule has all the  *)
(* fields its kind reads, with the defaults filled in.                     *)
(***************************************************************************)
EXTENDS Integers, FiniteSets, FiniteSetsExt

----------------------------------------------------------------------------
(* The dates of Python's library.                                          *)

Leap(y) == y % 4 = 0 /\ (y % 100 # 0 \/ y % 400 = 0)

MonthLength(y, m) ==
    CASE m = 2 -> IF Leap(y) THEN 29 ELSE 28
      [] m \in {4, 6, 9, 11} -> 30
      [] OTHER -> 31

YearStart(y) == 365 * (y - 1) + (y - 1) \div 4 - (y - 1) \div 100 + (y - 1) \div 400 + 1

\* The days of a common year before each month.
DaysBefore == <<0, 31, 59, 90, 120, 151, 181, 212, 243, 273, 304, 334>>

DaysBeforeMonth(y, m) == DaysBefore[m] + IF m > 2 /\ Leap(y) THEN 1 ELSE 0

Date(y, m, d) == YearStart(y) + DaysBeforeMonth(y, m) + d - 1

\* The first of three years of which one has the day.
NearYear(x) == (400 * x) \div 146097

YearOf(x)  == CHOOSE y \in NearYear(x) .. NearYear(x) + 2 :
                  YearStart(y) <= x /\ x < YearStart(y + 1)
MonthOf(x) == LET y == YearOf(x)
                  n == x - YearStart(y)
              IN  CHOOSE m \in 1 .. 12 :
                     n \in DaysBeforeMonth(y, m) .. DaysBeforeMonth(y, m) + MonthLength(y, m) - 1
DayOf(x)   == x - Date(YearOf(x), MonthOf(x), 1) + 1

\* Monday is 0.
Weekday(x) == (x + 6) % 7

----------------------------------------------------------------------------
(* Days and holidays.                                                      *)

MonthEnd(y, m) == Date(y, m, MonthLength(y, m))

\* A day of a month, or the month's last day if it is shorter.
Clamped(y, m, d) == IF d < MonthLength(y, m) THEN Date(y, m, d) ELSE MonthEnd(y, m)

AddMonths(anchor, months) ==
    LET total == MonthOf(anchor) - 1 + months
    IN  Clamped(YearOf(anchor) + total \div 12, (total % 12) + 1, DayOf(anchor))

\* The anonymous Gregorian algorithm.
Easter(y) ==
    LET a == y % 19
        b == y \div 100
        c == y % 100
        g == (b - (b + 8) \div 25 + 1) \div 3
        h == (19 * a + b - b \div 4 - g + 15) % 30
        l == (32 + 2 * (b % 4) + 2 * (c \div 4) - h - (c % 4)) % 7
        n == h + l - 7 * ((a + 11 * h + 22 * l) \div 451) + 114
    IN  Date(y, n \div 31, (n % 31) + 1)

NthWeekday(y, m, weekday, nth) ==
    LET first == Date(y, m, 1)
    IN  first + ((weekday - Weekday(first)) % 7) + 7 * (nth - 1)

VictoriaDay(y) == Max({d \in {NthWeekday(y, 5, 0, n) : n \in 1 .. 4} : d <= Date(y, 5, 24)})

StatutoryHolidays(y) ==
    {Date(y, 1, 1), Easter(y) - 2, VictoriaDay(y), Date(y, 7, 1),
     NthWeekday(y, 9, 0, 1), Date(y, 9, 30), NthWeekday(y, 10, 0, 2),
     Date(y, 11, 11), Date(y, 12, 25), Date(y, 12, 26)}

\* Fault: the first day of the next year is no holiday.
HolidaysOfTheYear(value) == StatutoryHolidays(YearOf(value))
HolidaysFrom(value) == StatutoryHolidays(YearOf(value)) \cup StatutoryHolidays(YearOf(value) + 1)

\* The loop's first day that it does not leave; 15 days are never all off.
NextBusinessDay(value) ==
    LET holidays == HolidaysFrom(value)
    IN  Min({d \in value .. value + 14 : Weekday(d) < 5 /\ d \notin holidays})

----------------------------------------------------------------------------
(* Periods: a year end is a month and a day of it.                         *)

FiscalYearEnd(y, yearEnd) == Clamped(y, yearEnd.month, yearEnd.day)

Frequencies == {"monthly", "quarterly", "semi_annual", "annual", "one_time"}

\* The months from a year's end back to the ends of its periods.
Shifts(frequency) ==
    CASE frequency = "annual" -> {0}
      [] frequency = "semi_annual" -> {0, -6}
      [] frequency = "quarterly" -> {-9, -6, -3, 0}

Stride(frequency) ==
    CASE frequency = "annual" -> 12
      [] frequency = "semi_annual" -> 6
      [] frequency = "quarterly" -> 3

ShiftedMonthEnd(y, m, delta) ==
    LET total == y * 12 + m - 1 + delta
    IN  MonthEnd(total \div 12, (total % 12) + 1)

PeriodEnd(y, shift, yearEnd) ==
    IF shift = 0 THEN FiscalYearEnd(y, yearEnd) ELSE ShiftedMonthEnd(y, yearEnd.month, shift)

\* Fault: the start is taken from the first of the month, a period too short.
PeriodStartLate(end, frequency) == AddMonths(end, 1 - Stride(frequency)) + 1
PeriodStart(end, frequency) == AddMonths(end, -Stride(frequency)) + 1

\* Fault: a fiscal year that ends after the window has no periods in it.
YearsUpTo(from, to) == YearOf(from) - 1 .. YearOf(to)
YearsAround(from, to) == YearOf(from) - 1 .. YearOf(to) + 1

PeriodsFor(frequency, yearEnd, from, to) ==
    LET years   == YearsAround(from, to)
        ends    == {PeriodEnd(y, shift, yearEnd) : y \in years, shift \in Shifts(frequency)}
        periods ==
            CASE frequency = "one_time" -> {}
              [] frequency = "monthly" ->
                    {[start |-> Date(y, m, 1), end |-> MonthEnd(y, m)] : y \in years, m \in 1 .. 12}
              [] OTHER -> {[start |-> PeriodStart(end, frequency), end |-> end] : end \in ends}
    IN  {p \in periods : from <= p.end /\ p.end <= to}

----------------------------------------------------------------------------
(* Due dates and the plan.                                                 *)

NominalDue(end, rule) ==
    IF rule.type = "fixed_date" THEN
        LET y == YearOf(end) + rule.year_offset
        IN  IF rule.day < 0 THEN MonthEnd(y, rule.month) ELSE Clamped(y, rule.month, rule.day)
    ELSE IF rule.months = 0 /\ rule.days = 0 THEN AddMonths(end, 6)
    ELSE AddMonths(end, rule.months) + rule.days

DueDate(end, rule) ==
    IF rule.observe_business_days THEN NextBusinessDay(NominalDue(end, rule))
                                  ELSE NominalDue(end, rule)

\* What a service owes within a window, from its first day to its last.
PlanDeadlines(terms, service, from, to) ==
    LET yearEnd == IF terms.rule.period_basis = "calendar" THEN [month |-> 12, day |-> 31]
                                                           ELSE terms.yearEnd
    IN  {[start |-> p.start, end |-> p.end, due |-> DueDate(p.end, terms.rule)] :
            p \in {q \in PeriodsFor(terms.frequency, yearEnd, from, to) :
                      q.end >= service.from /\ q.start <= service.until}}
============================================================================
