------------------------------ MODULE Calendar ------------------------------
(***************************************************************************)
(* Calendar arithmetic of billing periods: domain/billing.py.              *)
(*                                                                         *)
(* A date is a month, counted from the January of a leap year, and a day.  *)
(* The time of day is left out: every date computed from another one keeps *)
(* it.  Every fourth year is a leap year, which is so from 1901 to 2099.   *)
(***************************************************************************)
EXTENDS Integers

\* SUPPORTED_BILLING_MONTHS: what validate_billing_months lets through.
SupportedBillingMonths == {1, 2, 3, 6, 12}

\* The number of days of month m.
DaysIn(m) ==
    CASE m % 12 \in {3, 5, 8, 10} -> 30
      [] m % 12 = 1               -> IF m % 48 = 1 THEN 29 ELSE 28
      [] OTHER                    -> 31

Date == {x \in [month : Nat, day : 1..31] : x.day <= DaysIn(x.month)}

\* x is not later than y.
NotAfter(x, y) ==
    x.month < y.month \/ (x.month = y.month /\ x.day <= y.day)

Later(x, y) == IF NotAfter(x, y) THEN y ELSE x

NextDay(x) ==
    IF x.day < DaysIn(x.month) THEN [x EXCEPT !.day = @ + 1]
    ELSE [month |-> x.month + 1, day |-> 1]

\* The last day of a month when it has no day d.
Clamp(d, m) == IF d <= DaysIn(m) THEN d ELSE DaysIn(m)

\* Faulty variant: the days that the month lacks are counted in the next one.
AddMonthsOverflowing(x, n) ==
    IF x.day <= DaysIn(x.month + n) THEN [month |-> x.month + n, day |-> x.day]
    ELSE [month |-> x.month + n + 1, day |-> x.day - DaysIn(x.month + n)]

\* add_billing_months: the same day n months later, or the last one of its month.
AddMonths(x, n) ==
    [month |-> x.month + n, day |-> Clamp(x.day, x.month + n)]

\* How many days x is after y, when it is; for dates of one month or of two
\* that follow each other.
DaysAfter(x, y) ==
    IF NotAfter(x, y) THEN 0
    ELSE IF x.month = y.month THEN x.day - y.day
    ELSE DaysIn(y.month) - y.day + x.day

\* At least n days have passed from y to x; n is less than four weeks.
AtLeastDaysAfter(x, y, n) ==
    \/ x.month > y.month + 1
    \/ x.month \in {y.month, y.month + 1} /\ DaysAfter(x, y) >= n

=============================================================================
