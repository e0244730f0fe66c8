------------------------------ MODULE Calendar ------------------------------
(***************************************************************************)
(* datetime.c: dates counted in days since 1900, minutes added to a date   *)
(* and time, the order of two of them, and wildcards.                      *)
(***************************************************************************)
LOCAL INSTANCE Integers
LOCAL INSTANCE Sequences
LOCAL INSTANCE SequencesExt
LOCAL INSTANCE FiniteSetsExt

CONSTANTS Years, Days, Times,   \* the dates and times somebody sets
          Spans,                \* the minutes somebody adds
          MaxAdditions          \* bound: how often to one date and time

VARIABLES datetime,     \* a date and time
          before,       \* what it was before minutes were added
          span,         \* how many were added
          additions     \* how often since it was set

calendarVars == << datetime, before, span, additions >>

Epoch == 1900
Minutes == 24 * 60
Wild == 255
Ever == "nothing added"

-----------------------------------------------------------------------------
\* (mutant: every fourth year)
is_fourth_year(year) == year % 4 = 0
is_leap_year(year) == year % 4 = 0 /\ (year % 100 # 0 \/ year % 400 = 0)

month_days(year, month) ==
    CASE month = 2 -> IF is_leap_year(year) THEN 29 ELSE 28
      [] month \in {4, 6, 9, 11} -> 30
      [] month \in {1, 3, 5, 7, 8, 10, 12} -> 31
      [] OTHER -> 0

YearDays(year) == IF is_leap_year(year) THEN 366 ELSE 365

days_since_epoch(year, month, day) ==
    IF year < Epoch \/ day \notin 1 .. month_days(year, month) THEN 0
    ELSE MapThenSumSet(YearDays, Epoch .. year - 1)
         + MapThenSumSet(LAMBDA m : month_days(year, m), 1 .. month - 1)
         + day - 1

\* days_since_epoch_into_ymd: whole years are taken off, then whole months
RECURSIVE WholeYears(_, _), WholeMonths(_, _, _)
WholeYears(days, year) ==
    IF days < 365 \/ (is_leap_year(year) /\ days = 365) THEN << days, year >>
    ELSE WholeYears(days - YearDays(year), year + 1)
WholeMonths(days, year, month) ==
    IF days < month_days(year, month) THEN [year |-> year, month |-> month, day |-> days + 1]
    ELSE WholeMonths(days - month_days(year, month), year, month + 1)

days_since_epoch_into_ymd(days) ==
    LET y == WholeYears(days, Epoch) IN WholeMonths(y[1], y[2], 1)

day_of_week(year, month, day) == (days_since_epoch(year, month, day) % 7) + 1

\* Negative, zero or positive, by the first of the fields that differ.
Difference(a, b, fields) ==
    LET differ == {i \in DOMAIN fields : a[fields[i]] # b[fields[i]]}
    IN  IF differ = {} THEN 0
        ELSE LET f == fields[Min(differ)] IN a[f] - b[f]

datetime_compare_date(a, b) == Difference(a, b, << "year", "month", "day" >>)
datetime_compare_time(a, b) == Difference(a, b, << "hour", "min", "sec", "hundredths" >>)
datetime_compare(a, b) ==
    IF datetime_compare_date(a.date, b.date) # 0 THEN datetime_compare_date(a.date, b.date)
    ELSE datetime_compare_time(a.time, b.time)

DateOf(ymd) ==
    [year |-> ymd.year, month |-> ymd.month, day |-> ymd.day,
     wday |-> day_of_week(ymd.year, ymd.month, ymd.day)]

seconds_since_midnight(t) == 3600 * t.hour + 60 * t.min + t.sec
\* each field is an octet, and what is left is what the octet does not account for
seconds_since_midnight_into_hms(s) ==
    LET hour == (s \div 3600) % 256
        min  == ((s - 3600 * hour) \div 60) % 256
    IN  [hour |-> hour, min |-> min, sec |-> (s - 3600 * hour - 60 * min) % 256]

\* The days that the minutes of the day make are counted into the date and stay
\* in the hours: half past midnight, reached from the day before, is 24:30, and
\* its 24 hours are counted into the date again by the next addition.
MinutesAdded(dt, minutes) ==
    LET whole == minutes \div Minutes
        rest  == seconds_since_midnight(dt.time) \div 60 + (minutes - whole * Minutes)
        days  == days_since_epoch(dt.date.year, dt.date.month, dt.date.day)
                 + whole + rest \div Minutes
        hms   == seconds_since_midnight_into_hms(rest * 60)
    IN  [date |-> DateOf(days_since_epoch_into_ymd(days)),
         time |-> [hour |-> hms.hour, min |-> hms.min, sec |-> hms.sec,
                   hundredths |-> dt.time.hundredths]]

datetime_wildcard_present(dt) ==
    \/ dt.date.year = Epoch + Wild \/ dt.date.month > 12 \/ dt.date.day > 31
    \/ \E f \in {"hour", "min", "sec", "hundredths"} : dt.time[f] = Wild

datetime_wildcard(dt) ==
    /\ dt.date = [year |-> Epoch + Wild, month |-> Wild, day |-> Wild, wday |-> Wild]
    /\ dt.time = [hour |-> Wild, min |-> Wild, sec |-> Wild, hundredths |-> Wild]

-----------------------------------------------------------------------------
Settable == {<< y, m, d >> \in Years \X (1 .. 12) \X Days : d <= month_days(y, m)}
Values(s, t) ==
    [date |-> DateOf([year |-> s[1], month |-> s[2], day |-> s[3]]),
     time |-> [hour |-> t[1], min |-> t[2], sec |-> t[3], hundredths |-> 0]]

CalendarInit ==
    /\ \E s \in Settable, t \in Times : datetime = Values(s, t)      \* datetime_set_values
    /\ before = datetime /\ span = 0 /\ additions = 0

datetime_add_minutes(n) ==
    /\ additions < MaxAdditions
    /\ datetime' = MinutesAdded(datetime, n)
    /\ before' = datetime
    /\ span' = n
    /\ additions' = additions + 1

datetime_wildcard_set ==
    /\ datetime' = [date |-> [year |-> Epoch + Wild, month |-> Wild, day |-> Wild, wday |-> Wild],
                    time |-> [hour |-> Wild, min |-> Wild, sec |-> Wild, hundredths |-> Wild]]
    /\ before' = datetime'
    /\ span' = 0 /\ additions' = 0

CalendarNext == (\E n \in Spans : datetime_add_minutes(n)) \/ datetime_wildcard_set

-----------------------------------------------------------------------------
\* The Gregorian calendar by its closed form, counted from the same day.
Leaps(years) == years \div 4 - years \div 100 + years \div 400
DaysBefore(month) == << 0, 31, 59, 90, 120, 151, 181, 212, 243, 273, 304, 334 >>[month]
Ordinal(d) ==
    365 * (d.year - Epoch) + Leaps(d.year - 1) - Leaps(Epoch - 1)
    + DaysBefore(d.month) + (IF d.month > 2 /\ Leaps(d.year) # Leaps(d.year - 1) THEN 1 ELSE 0)
    + d.day - 1
Clock(dt) == Minutes * Ordinal(dt.date) + 60 * (dt.time.hour % 24) + dt.time.min

\* No wildcard, a day there is, a minute and a second of a clock, and room for
\* another day's hours below the octet that stands for any hour.
Ordinary(dt) ==
    /\ ~datetime_wildcard_present(dt)
    /\ dt.date.day \in 1 .. month_days(dt.date.year, dt.date.month)
    /\ dt.time.hour + 24 < Wild /\ dt.time.min < 60 /\ dt.time.sec < 60

\* Minutes added over the ends of days, months, leap years and centuries, once or
\* again and again, reach the date and the place on the clock's face that the
\* calendar has there, with the weekday that belongs to it (1 January 1900 was a
\* Monday); the result is no wildcard and compares as later
\* (datetime_add_minutes, datetime_compare).  Only, whole days that the hours
\* carry from an earlier addition are counted once more by each.
CalendarAdvances ==
    span > 0 /\ Ordinary(before) =>
        /\ Clock(datetime) = Clock(before) + span + Minutes * (before.time.hour \div 24)
        /\ datetime.date.wday = (Ordinal(datetime.date) % 7) + 1
        /\ ~datetime_wildcard_present(datetime)
        /\ datetime_compare(datetime, before) > 0 /\ datetime_compare(before, datetime) < 0
=============================================================================
