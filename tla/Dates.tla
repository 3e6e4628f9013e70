--------------------------------- MODULE Dates ---------------------------------
(***************************************************************************)
(* Jalali dates (ikiku_base/models/jalali.py) and the buttons a person picks    *)
(* a span of days with (ikiku_portal/controllers/common.py).                   *)
(*                                                                         *)
(* A day is its number (Python's ordinal); a Gregorian or a Jalali date is         *)
(* <<year, month, day>>.  A form is [start, end], each the key of a button or a     *)
(* Jalali date chosen by hand, where 0 is a field that was not a number.           *)
(***************************************************************************)
EXTENDS Integers, Sequences

CONSTANT None

G_DAYS_IN_MONTH == <<0, 31, 59, 90, 120, 151, 181, 212, 243, 273, 304, 334>>

\* Python's dates: leap years, the days before a month, the number of a date and the date of a number.
Leap(gy) == (gy % 4 = 0 /\ gy % 100 # 0) \/ gy % 400 = 0
BeforeMonth(gy, gm) == G_DAYS_IN_MONTH[gm] + (IF gm > 2 /\ Leap(gy) THEN 1 ELSE 0)
BeforeYear(gy) == 365 * (gy - 1) + (gy - 1) \div 4 - (gy - 1) \div 100 + (gy - 1) \div 400
Number(g) == BeforeYear(g[1]) + BeforeMonth(g[1], g[2]) + g[3]
Within(gy, days) ==
    LET gm == CHOOSE m \in 1..12 : BeforeMonth(gy, m) < days /\ (m < 12 => days <= BeforeMonth(gy, m + 1))
    IN <<gy, gm, days - BeforeMonth(gy, gm)>>
InYear(gy, day) == Within(gy, day - BeforeYear(gy))
Gregorian(day) ==
    InYear(CHOOSE y \in (day \div 366)..(day \div 365 + 1) : BeforeYear(y) < day /\ day <= BeforeYear(y + 1), day)

-----------------------------------------------------------------------------
\* Days count from 0: in the 33 years of the Jalali cycle, in four years of it, in a year.
JalaliInYear(jy, days) ==
    IF days < 186 THEN <<jy, 1 + (days \div 31), 1 + (days % 31)>>
                  ELSE <<jy, 7 + ((days - 186) \div 30), 1 + ((days - 186) % 30)>>
JalaliInFour(jy, days) ==
    IF days > 365 THEN JalaliInYear(jy + (days - 1) \div 365, (days - 1) % 365) ELSE JalaliInYear(jy, days)
JalaliIn33(jy, days) == JalaliInFour(jy + 4 * (days \div 1461), days % 1461)
JalaliSince(jy, days) == JalaliIn33(jy + 33 * (days \div 12053), days % 12053)
Leaps(gy) == (gy + 3) \div 4 - (gy + 99) \div 100 + (gy + 399) \div 400
DaysSince(gy, gm, gd) ==
    365 * gy + Leaps(IF gm > 2 THEN gy + 1 ELSE gy) - 80 + gd + G_DAYS_IN_MONTH[gm]
gregorian_to_jalali(g) ==
    IF g[1] > 1600 THEN JalaliSince(979, DaysSince(g[1] - 1600, g[2], g[3]))
                   ELSE JalaliSince(0, DaysSince(g[1] - 621, g[2], g[3]))

\* The same in the 400, 100 and four years of the Gregorian cycle.
GregorianInFour(gy, days) ==
    IF days > 365 THEN Within(gy + (days - 1) \div 365, 1 + ((days - 1) % 365)) ELSE Within(gy, days + 1)
GregorianIn100(gy, days) == GregorianInFour(gy + 4 * (days \div 1461), days % 1461)
GregorianPast100(gy, days) == GregorianIn100(gy, IF days >= 365 THEN days + 1 ELSE days)
GregorianIn400(gy, days) ==
    IF days > 36524 THEN GregorianPast100(gy + 100 * ((days - 1) \div 36524), (days - 1) % 36524)
                    ELSE GregorianIn100(gy, days)
GregorianSince(gy, days) == GregorianIn400(gy + 400 * (days \div 146097), days % 146097)
JalaliDays(jy, jm, jd) ==
    365 * jy + (jy \div 33) * 8 + ((jy % 33) + 3) \div 4 + 78 + jd
    + (IF jm < 7 THEN (jm - 1) * 31 ELSE (jm - 7) * 30 + 186)
jalali_to_gregorian(j) ==
    IF j[1] > 979 THEN GregorianSince(1600, JalaliDays(j[1] - 979, j[2], j[3]))
                  ELSE GregorianSince(621, JalaliDays(j[1], j[2], j[3]))

is_jalali_leap(jy) == ((jy + 12) % 33) % 4 = 1
jalali_month_days(jy, jm) ==
    IF jm <= 6 THEN 31 ELSE IF jm <= 11 \/ is_jalali_leap(jy) THEN 30 ELSE 29

\* jalali_date: what is wrong with a date, and its number when nothing is.
Wrong(j) ==
    IF j[1] \notin 1300..1500 THEN "year" ELSE IF j[2] \notin 1..12 THEN "month"
    ELSE IF j[3] \notin 1..jalali_month_days(j[1], j[2]) THEN "day" ELSE None
jalali_date(j) == Number(jalali_to_gregorian(j))

-----------------------------------------------------------------------------
Jalali(day) == gregorian_to_jalali(Gregorian(day))
Smaller(a, b) == IF a < b THEN a ELSE b
Later(a, b) == IF a < b THEN b ELSE a

MonthAfter(j, months) == <<j[1] + (j[2] - 1 + months) \div 12, ((j[2] - 1 + months) % 12) + 1>>
Clipped(jy, jm, jd) == jalali_date(<<jy, jm, Smaller(jd, jalali_month_days(jy, jm))>>)
AddMonths(j, months) == Clipped(MonthAfter(j, months)[1], MonthAfter(j, months)[2], j[3])
add_months(day, months) == AddMonths(Jalali(day), months)
NextMonth(j) == jalali_date(IF j[2] = 12 THEN <<j[1] + 1, 1, 1>> ELSE <<j[1], j[2] + 1, 1>>)
first_of_next_month(day) == NextMonth(Jalali(day))
LastOfYear(jy) == jalali_date(<<jy, 12, jalali_month_days(jy, 12)>>)
end_of_year(day) == LastOfYear(Jalali(day)[1])
weekday(day) == (day + 6) % 7
next_saturday(day) == day + (IF weekday(day) = 5 THEN 7 ELSE (5 - weekday(day)) % 7)

\* A choice is <<key>> of a button, or <<"custom", date>>.
START_KEYS == {"today", "week", "month"}
MONTHS == [m1 |-> 1, m3 |-> 3, m6 |-> 6]
END_KEYS == {"none", "d1", "w1", "year"} \cup DOMAIN MONTHS

\* What is wrong with a choice: of a date by hand, _custom says which field.
Error(choice, keys) ==
    LET j == choice[2]
    IN IF choice[1] \in keys THEN None
       ELSE IF choice[1] # "custom" THEN "missing"
       ELSE IF 0 \in {j[1], j[2], j[3]} THEN "bad"
       ELSE IF Wrong(j) \in {None, "day"} THEN Wrong(j) ELSE "bad"

\* dates_values: a form that shows a span again.
Shown(today, from, end) ==
    [start |-> IF from = today THEN <<"today">> ELSE <<"custom", Jalali(from)>>,
     end |-> IF end = None THEN <<"none">> ELSE <<"custom", Jalali(Later(end, from))>>]
dates_values(today, start, end) == Shown(today, Later(start, today), end)

\* read_dates: the span a form says, or what is wrong with it.
StartOf(today, choice) ==
    CASE choice[1] = "today" -> today
      [] choice[1] = "week" -> next_saturday(today)
      [] choice[1] = "month" -> first_of_next_month(today)
      [] OTHER -> jalali_date(choice[2])
EndOf(start, choice) ==
    CASE choice[1] = "none" -> None
      [] choice[1] = "d1" -> start
      [] choice[1] = "w1" -> start + 6
      [] choice[1] \in DOMAIN MONTHS -> add_months(start, MONTHS[choice[1]]) - 1
      [] choice[1] = "year" -> end_of_year(start)
      [] OTHER -> jalali_date(choice[2])
Refused(error) == [start |-> None, end |-> None, error |-> error]
Span(start, end) ==
    IF end # None /\ end < start THEN Refused(<<"order">>) ELSE [start |-> start, end |-> end, error |-> None]
SpanFrom(today, start, choice) ==
    IF start < today THEN Refused(<<"start", "past">>)
    ELSE IF Error(choice, END_KEYS) # None THEN Refused(<<"end", Error(choice, END_KEYS)>>)
    ELSE Span(start, EndOf(start, choice))
read_dates(today, form) ==
    IF Error(form.start, START_KEYS) # None THEN Refused(<<"start", Error(form.start, START_KEYS)>>)
    ELSE SpanFrom(today, StartOf(today, form.start), form.end)

-----------------------------------------------------------------------------
\* jalali.py: the days of a month are days there are, follow one another by its own count of them and
\* by the Gregorian calendar's, and read as they were written; the next month begins the day after.
DayHolds(first, j, g) == Gregorian(first + j[3] - 1) = g /\ gregorian_to_jalali(g) = j
MonthHolds(jy, jm, first) ==
    /\ \A jd \in 1..jalali_month_days(jy, jm) :
          DayHolds(first, <<jy, jm, jd>>, jalali_to_gregorian(<<jy, jm, jd>>))
    /\ first_of_next_month(first) = first + jalali_month_days(jy, jm)

\* common.py: a date somebody typed is that day or is refused, never the day it would roll on to
\* ("refuses 31 Mehr instead of rolling it").
TakenOrNoDay(j, first, read) ==
    IF read.error = None THEN Jalali(read.start) = j
                         ELSE \A day \in (first - 40)..(first + 40) : Jalali(day) # j
NeverRolls(j, first) ==
    TakenOrNoDay(j, first, read_dates(first - 40, [start |-> <<"custom", j>>, end |-> <<"none">>]))

\* common.py: every pair of buttons is a span that begins when it says and has a day; the longer button
\* ends later; and months end before as many have passed, or with the month from its first on.
Pressed(today, start, end) == read_dates(today, [start |-> <<start>>, end |-> <<end>>])
ByLength == <<"d1", "w1", "m1", "m3", "m6">>
MonthsPass(from, to, months) ==
    12 * to[1] + to[2] = 12 * from[1] + from[2] + months /\ (from[3] = 1 => to[3] = 1)
GoodSpan(today, start, end, span) ==
    /\ span.error = None
    /\ IF start = "today" THEN span.start = today ELSE span.start > today
    /\ end # "none" => span.end >= span.start
    /\ end \in DOMAIN MONTHS => MonthsPass(Jalali(span.start), Jalali(span.end + 1), MONTHS[end])
ButtonsHold(today) ==
    \A start \in START_KEYS :
        /\ \A end \in END_KEYS : GoodSpan(today, start, end, Pressed(today, start, end))
        /\ \A i \in 1..(Len(ByLength) - 1) :
              Pressed(today, start, ByLength[i]).end < Pressed(today, start, ByLength[i + 1]).end
\* common.py: what a form shows again of a span is the span, from today where it began before.
ShownAgain(today, start, end) ==
    read_dates(today, dates_values(today, start, end)) =
        [start |-> Later(start, today), error |-> None,
         end |-> IF end = None THEN None ELSE Later(end, Later(start, today))]
===============================================================================
