--------------------------- MODULE AllowancePeriods ---------------------------
(***************************************************************************)
(* The window an allowance is counted in and the day it resets               *)
(* (catalog/allowance_period.py).  A date is <<year, month, day>>.  The      *)
(* period and the anniversary are drawn at the start; days pass one by one.  *)
(***************************************************************************)
EXTENDS Integers

CONSTANTS
  FirstYear, LastYear,  \* bounds of the days that pass
  Anniversaries         \* <<month, day>> a card was opened on

ASSUME YearsAreYears == FirstYear \in Nat \ {0} /\ LastYear \in Nat /\ FirstYear <= LastYear
ASSUME AnniversariesAreDays == Anniversaries \subseteq (1 .. 12) \X (1 .. 31)

VARIABLES period, anniversary, date

periodVars == <<period, anniversary, date>>

\* calendar.monthrange.
Leap(y) == y % 4 = 0 /\ (y % 100 # 0 \/ y % 400 = 0)
MonthLength(y, m) ==
  CASE m = 2 -> IF Leap(y) THEN 29 ELSE 28
    [] m \in {4, 6, 9, 11} -> 30
    [] OTHER -> 31

DayAfter(d) ==
  IF d[3] < MonthLength(d[1], d[2]) THEN <<d[1], d[2], d[3] + 1>>
  ELSE IF d[2] < 12 THEN <<d[1], d[2] + 1, 1>> ELSE <<d[1] + 1, 1, 1>>
DayBefore(d) ==
  IF d[3] > 1 THEN <<d[1], d[2], d[3] - 1>>
  ELSE IF d[2] > 1 THEN <<d[1], d[2] - 1, MonthLength(d[1], d[2] - 1)>>
       ELSE <<d[1] - 1, 12, 31>>

NotAfter(a, b) ==
  \/ a[1] < b[1]
  \/ a[1] = b[1] /\ a[2] < b[2]
  \/ a[1] = b[1] /\ a[2] = b[2] /\ a[3] <= b[3]

\* Variant: a 29th of February is not clamped in other years.
ClampedToMonth(y, m, day) == <<y, m, IF day > 30 THEN MonthLength(y, m) ELSE day>>

\* _clamped_date.
Clamped(y, m, day) == <<y, m, IF day <= MonthLength(y, m) THEN day ELSE MonthLength(y, m)>>

MonthsFrom(y, first, last) ==
  LET end == <<y, last, MonthLength(y, last)>>
  IN [start |-> <<y, first, 1>>, end |-> end, resets |-> DayAfter(end)]

AnniversaryYear(d, a) ==
  LET thisYear == Clamped(d[1], a[1], a[2])
      start    == IF NotAfter(thisYear, d) THEN thisYear ELSE Clamped(d[1] - 1, a[1], a[2])
      resets   == IF NotAfter(thisYear, d) THEN Clamped(d[1] + 1, a[1], a[2]) ELSE thisYear
  IN [start |-> start, end |-> DayBefore(resets), resets |-> resets]

PeriodBounds(p, a, d) ==
  LET quarter == 3 * ((d[2] - 1) \div 3) + 1
  IN CASE p = "monthly"       -> MonthsFrom(d[1], d[2], d[2])
       [] p = "quarterly"     -> MonthsFrom(d[1], quarter, quarter + 2)
       [] p = "calendar_year" -> MonthsFrom(d[1], 1, 12)
       [] p = "anniversary"   -> AnniversaryYear(d, a)

PeriodInit ==
  /\ period \in {"monthly", "quarterly", "calendar_year", "anniversary"}
  /\ anniversary \in Anniversaries
  /\ date = <<FirstYear, 1, 1>>

PeriodNext ==
  /\ date # <<LastYear, 12, 31>>
  /\ date' = DayAfter(date)
  /\ UNCHANGED <<period, anniversary>>

PeriodSpec == PeriodInit /\ [][PeriodNext]_periodVars

PeriodTypeOK ==
  /\ anniversary \in Anniversaries
  /\ date[1] \in FirstYear .. LastYear /\ date[2] \in 1 .. 12
  /\ date[3] \in 1 .. MonthLength(date[1], date[2])

\* Every day is in one window, every day of a window gives that window, and the
\* day a counter resets opens the next: no day is counted twice or not at all.
PeriodsTile ==
  LET here == PeriodBounds(period, anniversary, date)
  IN /\ NotAfter(here.start, date) /\ NotAfter(date, here.end)
     /\ DayAfter(here.end) = here.resets
     /\ PeriodBounds(period, anniversary, here.start) = here
     /\ PeriodBounds(period, anniversary, here.end) = here
     /\ PeriodBounds(period, anniversary, here.resets).start = here.resets

=============================================================================
