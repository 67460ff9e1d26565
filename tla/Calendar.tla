------------------------------- MODULE Calendar -------------------------------
(***************************************************************************)
(* Dates and periods of the Regulation (cra_evidence/applicability.py;     *)
(* add_months in vuln.py).  No text names the time zone of a date, so each *)
(* is read twice: at 00:00 UTC and at 00:00 Europe/Brussels.  An instant   *)
(* is a number of hours since the first of January 2026, 00:00 UTC; the    *)
(* tolerated clock skew of five minutes is below that grain.               *)
(***************************************************************************)
EXTENDS Integers, FiniteSets

\* bound: instants of the years 2026 to 2040
FirstYear == 2026
LastYear == 2040

READINGS == {"utc", "europe_brussels"}

-----------------------------------------------------------------------------
(* The datetime library: dates and day numbers, 0 for the first day.       *)

Leap(y) == y % 4 = 0 /\ (y % 100 # 0 \/ y % 400 = 0)

MonthLength(y, m) ==
  <<31, IF Leap(y) THEN 29 ELSE 28, 31, 30, 31, 30, 31, 31, 30, 31, 30, 31>>[m]

NewYear == [y \in FirstYear..LastYear + 1 |->
              365 * (y - FirstYear) + Cardinality({z \in FirstYear..y - 1 : Leap(z)})]

FirstOfMonth(y, m) ==
  NewYear[y] + <<0, 31, 59, 90, 120, 151, 181, 212, 243, 273, 304, 334>>[m]
             + (IF m > 2 /\ Leap(y) THEN 1 ELSE 0)

DayNumber(date) == FirstOfMonth(date.y, date.m) + date.d - 1

YearOf(n) == CHOOSE y \in FirstYear..LastYear : NewYear[y] <= n /\ n < NewYear[y + 1]

Date(n) ==
  LET y == YearOf(n)
      m == CHOOSE m \in 1..12 : /\ FirstOfMonth(y, m) <= n
                                /\ n < FirstOfMonth(y, m) + MonthLength(y, m)
  IN  [y |-> y, m |-> m, d |-> n - FirstOfMonth(y, m) + 1]

\* 0 is a Monday; the first day was a Thursday
Weekday(n) == (n + 3) % 7

-----------------------------------------------------------------------------

\* add_months: the day is clamped to the length of the month
AddMonths(t, months) ==
  LET date == Date(t \div 24)
      y == date.y + ((date.m - 1 + months) \div 12)
      m == ((date.m - 1 + months) % 12) + 1
      last == MonthLength(y, m)
  IN  24 * DayNumber([y |-> y, m |-> m, d |-> IF date.d < last THEN date.d ELSE last])
        + (t % 24)

LastSunday(y, m) ==
  LET last == DayNumber([y |-> y, m |-> m, d |-> MonthLength(y, m)])
  IN  last - ((Weekday(last) + 1) % 7)

\* from 01:00 UTC of the last Sunday of March to that of October
SummerTime == [y \in FirstYear..LastYear |->
                 24 * LastSunday(y, 3) + 1 .. 24 * LastSunday(y, 10)]

BrusselsOffset(t) == IF t \in SummerTime[YearOf(t \div 24)] THEN 2 ELSE 1

\* faulty: midnight by the winter's offset
DayStartOfWinter(date, reading) ==
  24 * DayNumber(date) - (IF reading = "utc" THEN 0 ELSE 1)

\* 00:00 of a day under a reading
DayStart(date, reading) ==
  LET local == 24 * DayNumber(date)
  IN  IF reading = "utc" THEN local
      ELSE IF BrusselsOffset(local - 2) = 2 THEN local - 2 ELSE local - 1

LocalDate(t, reading) ==
  Date((IF reading = "utc" THEN t ELSE t + BrusselsOffset(t)) \div 24)

\* the end of a period of years: the day of the event is excluded, the last
\* day, clamped, is over
YearsAfter(event, years, reading) ==
  LET day == 24 * DayNumber(LocalDate(event, reading))
  IN  DayStart(Date((AddMonths(day, 12 * years) \div 24) + 1), reading)

-----------------------------------------------------------------------------
(* What the dates decide.                                                  *)

ART14_DATE == [y |-> 2026, m |-> 9, d |-> 11]
FULL_APPLICATION_DATE == [y |-> 2027, m |-> 12, d |-> 11]
ROLES == {"manufacturer", "open_source_steward"}

\* one answer when the readings agree, none when they do not
Net(per) == IF per["utc"] = per["europe_brussels"] THEN {per["utc"]} ELSE {}

\* art14_obligation: from when the reporting obligation of a role holds
ObligationFrom(role, reading) ==
  DayStart(IF role = "manufacturer" THEN ART14_DATE ELSE FULL_APPLICATION_DATE, reading)

\* reporting_in_force
InForce(role, at) == Net([r \in READINGS |-> at >= ObligationFrom(role, r)])

\* faulty: a modification counts whenever it was made
AnyModification(placed, mod, reading) ==
  placed >= DayStart(FULL_APPLICATION_DATE, reading) \/ mod # {}

\* legacy_product_scope under a reading: placed, or substantially modified, from
\* 11 December 2027
RequirementsApply(placed, mod, reading) ==
  \E t \in {placed} \cup mod : t >= DayStart(FULL_APPLICATION_DATE, reading)

\* support_period under a reading
SupportReading(placed, end, reason, reading) ==
  IF end >= YearsAfter(placed, 5, reading) THEN "meets_minimum"
  ELSE IF reason THEN "shorter_declared" ELSE "below_minimum"

\* support_period: what is below five years needs a reason; "refused" is the
\* ValueError
SupportStatus(placed, end, reason) ==
  LET per == [r \in READINGS |-> SupportReading(placed, end, reason, r)]
  IN  IF end <= placed \/ (Net(per) = {"meets_minimum"} /\ reason) THEN "refused"
      ELSE IF Net(per) = {} THEN "depends_on_time_zone_reading"
      ELSE per["utc"]

\* the exit status of `obligations`: a finding needs a reading in which the
\* requirements reach the product and its support period is below the minimum
ObligationsCode(placed, mod, end, reason) ==
  IF SupportStatus(placed, end, reason) = "refused" \/ \E t \in mod : t < placed THEN 2
  ELSE IF \E r \in READINGS : /\ RequirementsApply(placed, mod, r)
                              /\ SupportReading(placed, end, reason, r) = "below_minimum"
       THEN 1 ELSE 0

\* retention_until and update_available_until: ten years, or the end of the
\* support period if that is later, for each reading; the later of the two
Until(start, end, reading) ==
  LET ten == YearsAfter(start, 10, reading)
  IN  CHOOSE t \in {ten} \cup end : \A u \in {ten} \cup end : u <= t

LatestUntil(start, end) ==
  LET per == [r \in READINGS |-> Until(start, end, r)]
  IN  IF per["utc"] > per["europe_brussels"] THEN per["utc"] ELSE per["europe_brussels"]
=============================================================================
