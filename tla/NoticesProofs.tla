---------------------------- MODULE NoticesProofs -----------------------------
(***************************************************************************)
(* The ledger of vulnerability records and notices, for any number of      *)
(* users, of products, of records and of notices: what a notice carries,   *)
(* what it is bound to, and what overdue answers of the records before and *)
(* after it.  The calendar comes first: its dates, its days under both     *)
(* readings and its periods of years, for every instant of 2026 to 2029.   *)
(***************************************************************************)
EXTENDS Notices, FiniteSetTheorems, WellFoundedInduction, SequenceTheorems, TLAPS

-----------------------------------------------------------------------------
(* The calendar of the years 2026 to 2040.                                 *)

LEMMA LeapYears ==
  ASSUME NEW y \in 2026..2041
  PROVE  Leap(y) <=> y \in {2028, 2032, 2036, 2040}
BY DEF Leap

LeapsBefore(y) ==
  IF y <= 2028 THEN 0 ELSE IF y <= 2032 THEN 1 ELSE IF y <= 2036 THEN 2
  ELSE IF y <= 2040 THEN 3 ELSE 4

LEMMA NewYearIs ==
  ASSUME NEW y \in 2026..2041
  PROVE  NewYear[y] = 365*(y - 2026) + LeapsBefore(y)
<1> DEFINE S == {z \in FirstYear..y - 1 : Leap(z)}
<1>1. NewYear[y] = 365*(y - 2026) + Cardinality(S)
  BY DEF NewYear, FirstYear, LastYear
<1>2. S = {z \in 2026..y - 1 : z \in {2028, 2032, 2036, 2040}}
  <2>1. \A z \in 2026..y - 1 : z \in 2026..2041
    OBVIOUS
  <2> QED BY <2>1, LeapYears DEF FirstYear
<1> HIDE DEF S
<1>3. /\ Cardinality({}) = 0
      /\ Cardinality({2028}) = 1 /\ IsFiniteSet({2028})
  <2>1. Cardinality({}) = 0
    BY FS_EmptySet
  <2>2. Cardinality({2028}) = 1 /\ IsFiniteSet({2028})
    <3>1. {2028} = {} \cup {2028} /\ 2028 \notin {}
      OBVIOUS
    <3> QED BY <2>1, <3>1, FS_EmptySet, FS_AddElement
  <2> QED BY <2>1, <2>2
<1>4. Cardinality({2028, 2032}) = 2 /\ IsFiniteSet({2028, 2032})
  <2>1. {2028, 2032} = {2028} \cup {2032} /\ 2032 \notin {2028}
    OBVIOUS
  <2> QED BY <1>3, <2>1, FS_AddElement
<1>5. Cardinality({2028, 2032, 2036}) = 3 /\ IsFiniteSet({2028, 2032, 2036})
  <2>1. {2028, 2032, 2036} = {2028, 2032} \cup {2036} /\ 2036 \notin {2028, 2032}
    OBVIOUS
  <2> QED BY <1>4, <2>1, FS_AddElement
<1>6. Cardinality({2028, 2032, 2036, 2040}) = 4
  <2>1. {2028, 2032, 2036, 2040} = {2028, 2032, 2036} \cup {2040} /\ 2040 \notin {2028, 2032, 2036}
    OBVIOUS
  <2> QED BY <1>5, <2>1, FS_AddElement
<1>7. CASE y <= 2028
  <2>1. S = {}
    BY <1>2, <1>7
  <2> QED BY <1>1, <1>3, <1>7, <2>1 DEF LeapsBefore
<1>8. CASE 2028 < y /\ y <= 2032
  <2>1. S = {2028}
    BY <1>2, <1>8
  <2> QED BY <1>1, <1>3, <1>8, <2>1 DEF LeapsBefore
<1>9. CASE 2032 < y /\ y <= 2036
  <2>1. S = {2028, 2032}
    BY <1>2, <1>9
  <2> QED BY <1>1, <1>4, <1>9, <2>1 DEF LeapsBefore
<1>10. CASE 2036 < y /\ y <= 2040
  <2>1. S = {2028, 2032, 2036}
    BY <1>2, <1>10
  <2> QED BY <1>1, <1>5, <1>10, <2>1 DEF LeapsBefore
<1>11. CASE 2040 < y
  <2>1. S = {2028, 2032, 2036, 2040}
    BY <1>2, <1>11
  <2> QED BY <1>1, <1>6, <1>11, <2>1 DEF LeapsBefore
<1> QED BY <1>7, <1>8, <1>9, <1>10, <1>11

\* the days of the calendar
Days == 0..5478
CalendarYears == 2026..2040

LEMMA YearLength ==
  ASSUME NEW y \in CalendarYears
  PROVE  /\ NewYear[y] \in Nat /\ NewYear[y + 1] \in Nat
         /\ NewYear[y + 1] = NewYear[y] + (IF Leap(y) THEN 366 ELSE 365)
<1>1. y \in 2026..2041 /\ y + 1 \in 2026..2041
  BY DEF CalendarYears
<1>2. LeapsBefore(y + 1) = LeapsBefore(y) + (IF Leap(y) THEN 1 ELSE 0)
  BY <1>1, LeapYears DEF LeapsBefore, CalendarYears
<1>3. LeapsBefore(y) \in Nat
  BY <1>1 DEF LeapsBefore
<1> QED BY <1>1, <1>2, <1>3, NewYearIs

LEMMA YearsInOrder ==
  ASSUME NEW y \in CalendarYears, NEW z \in CalendarYears, y < z
  PROVE  NewYear[y] + 365*(z - y) <= NewYear[z]
<1>1. y \in 2026..2041 /\ z \in 2026..2041
  BY DEF CalendarYears
<1>2. LeapsBefore(y) <= LeapsBefore(z) /\ LeapsBefore(y) \in Nat /\ LeapsBefore(z) \in Nat
  BY <1>1 DEF LeapsBefore
<1> QED BY <1>1, <1>2, NewYearIs

\* what begins not after n and ends after it: one of the steps between does
LEMMA Between ==
  ASSUME NEW f, NEW a \in Nat, NEW b \in Nat, NEW n \in Int,
         \A i \in a..b : f[i] \in Int, f[a] <= n, n < f[b], a < b
  PROVE  \E i \in a..b - 1 : f[i] <= n /\ n < f[i + 1]
<1> DEFINE T == {i \in a..b : n < f[i]}
           R == OpToRel(<, Nat)
<1>1. IsWellFoundedOn(R, Nat)
  BY NatLessThanWellFounded
<1>2. \A x, y \in Nat : x < y => <<x, y>> \in R
  BY DEF OpToRel
<1> HIDE DEF R
<1>3. T \subseteq Nat /\ b \in T
  OBVIOUS
<1>4. PICK m \in T : \A y \in T : ~(<<y, m>> \in R)
  BY <1>1, <1>3, WFMin
<1>5. m \in a + 1..b
  OBVIOUS
<1>6. m - 1 \notin T
  <2>1. m - 1 \in Nat /\ m - 1 < m /\ m \in Nat
    BY <1>5
  <2> QED BY <1>2, <1>4, <2>1
<1>7. m - 1 \in a..b - 1 /\ f[m - 1] <= n /\ (m - 1) + 1 = m
  BY <1>5, <1>6
<1> QED BY <1>4, <1>7

LEMMA YearOfIs ==
  ASSUME NEW n \in Days
  PROVE  YearOf(n) \in CalendarYears /\ NewYear[YearOf(n)] <= n /\ n < NewYear[YearOf(n) + 1]
<1>1. NewYear[2026] = 0 /\ NewYear[2041] = 5479
  BY NewYearIs DEF LeapsBefore
<1>2. \A y \in 2026..2041 : NewYear[y] \in Int
  BY NewYearIs DEF LeapsBefore
<1>3. \E y \in 2026..2041 - 1 : NewYear[y] <= n /\ n < NewYear[y + 1]
  <2>1. PICK a \in Nat, b \in Nat : a = 2026 /\ b = 2041
    OBVIOUS
  <2>2. a < b /\ n \in Int /\ NewYear[a] <= n /\ n < NewYear[b]
    <3>1. \A y \in Int : (y = 2026 => NewYear[y] = 0) /\ (y = 2041 => NewYear[y] = 5479)
      BY <1>1
    <3>2. NewYear[a] = 0 /\ NewYear[b] = 5479
      BY <2>1, <3>1
    <3> QED BY <2>1, <3>2 DEF Days
  <2>3. \A i \in a..b : NewYear[i] \in Int
    BY <1>2, <2>1
  <2>4. \E y \in a..b - 1 : NewYear[y] <= n /\ n < NewYear[y + 1]
    BY <2>2, <2>3, Between, Zenon
  <2> QED BY <2>1, <2>4
<1> QED BY <1>3 DEF YearOf, CalendarYears, FirstYear, LastYear

\* the months of a year follow one another
MonthStart(y) == [m \in 1..13 |-> IF m = 13 THEN NewYear[y + 1] ELSE FirstOfMonth(y, m)]

LEMMA MonthsAre ==
  ASSUME NEW y \in CalendarYears, NEW m \in 1..12
  PROVE  /\ MonthLength(y, m) \in 28..31
         /\ MonthStart(y)[m] \in Nat /\ MonthStart(y)[m + 1] \in Nat
         /\ MonthStart(y)[m] = FirstOfMonth(y, m)
         /\ MonthStart(y)[m + 1] = FirstOfMonth(y, m) + MonthLength(y, m)
         /\ NewYear[y] <= FirstOfMonth(y, m)
<1> DEFINE leap == IF Leap(y) THEN 1 ELSE 0
           off == <<0, 31, 59, 90, 120, 151, 181, 212, 243, 273, 304, 334>>
           len == <<31, 28 + leap, 31, 30, 31, 30, 31, 31, 30, 31, 30, 31>>
<1>1. NewYear[y] \in Nat /\ NewYear[y + 1] = NewYear[y] + 365 + leap /\ leap \in {0, 1}
  BY YearLength
<1>2. MonthLength(y, m) = len[m]
  BY DEF MonthLength
<1> DEFINE x == IF m > 2 THEN leap ELSE 0
           z == IF m + 1 > 2 THEN leap ELSE 0
<1>3. FirstOfMonth(y, m) = NewYear[y] + off[m] + x
  BY DEF FirstOfMonth
<1>4. m < 12 => FirstOfMonth(y, m + 1) = NewYear[y] + off[m + 1] + z
  BY DEF FirstOfMonth
<1> HIDE DEF leap
<1>5. m < 12 => off[m + 1] + z = off[m] + x + len[m]
  BY <1>1
<1>13. x \in Nat /\ z \in Nat
  BY <1>1
<1>14. m = 12 => x = leap
  BY DEF x
<1> HIDE DEF x, z
<1>6. off[m] \in Nat /\ len[m] \in 28..31
  BY <1>1
<1>7. m = 12 => off[m] = 334 /\ len[m] = 31
  OBVIOUS
<1>8. m < 12 => off[m + 1] \in Nat
  OBVIOUS
<1> HIDE DEF off, len
<1>9. MonthStart(y)[m] = FirstOfMonth(y, m)
  BY DEF MonthStart
<1>10. MonthStart(y)[m + 1] = IF m = 12 THEN NewYear[y + 1] ELSE FirstOfMonth(y, m + 1)
  BY DEF MonthStart
<1>11. FirstOfMonth(y, m) \in Nat /\ NewYear[y] <= FirstOfMonth(y, m)
  BY <1>1, <1>3, <1>6, <1>13
<1>12. MonthStart(y)[m + 1] = FirstOfMonth(y, m) + MonthLength(y, m)
  <2>1. CASE m = 12
    BY <1>1, <1>2, <1>3, <1>7, <1>10, <1>14, <2>1
  <2>2. CASE m < 12
    <3>1. MonthStart(y)[m + 1] = NewYear[y] + off[m + 1] + z
      BY <1>4, <1>10, <2>2
    <3>2. NewYear[y] + (off[m + 1] + z) = NewYear[y] + off[m] + x + len[m]
      BY <1>1, <1>5, <1>6, <1>13, <2>2
    <3>3. NewYear[y] + (off[m + 1] + z) = NewYear[y] + off[m + 1] + z
      BY <1>1, <1>8, <1>13, <2>2
    <3> QED BY <1>2, <1>3, <3>1, <3>2, <3>3
  <2> QED BY <2>1, <2>2
<1> QED BY <1>2, <1>6, <1>9, <1>11, <1>12

\* a date of the calendar
IsDate(date) ==
  /\ date = [y |-> date.y, m |-> date.m, d |-> date.d]
  /\ date.y \in CalendarYears /\ date.m \in 1..12
  /\ date.d \in 1..MonthLength(date.y, date.m)

LEMMA DateIs ==
  ASSUME NEW n \in Days
  PROVE  IsDate(Date(n)) /\ DayNumber(Date(n)) = n /\ Date(n).y = YearOf(n)
<1> DEFINE y == YearOf(n)
           InMonth(m) == FirstOfMonth(y, m) <= n /\ n < FirstOfMonth(y, m) + MonthLength(y, m)
           m0 == CHOOSE m \in 1..12 : InMonth(m)
<1>1. y \in CalendarYears /\ NewYear[y] <= n /\ n < NewYear[y + 1]
  BY YearOfIs
<1> HIDE DEF y
<1>2. \E m \in 1..12 : InMonth(m)
  <2> DEFINE f == MonthStart(y)
  <2>1. \A m \in 1..12 : f[m] \in Int /\ f[m + 1] \in Int /\ f[m] = FirstOfMonth(y, m)
                         /\ f[m + 1] = FirstOfMonth(y, m) + MonthLength(y, m)
    BY <1>1, MonthsAre
  <2>2. f[1] = NewYear[y]
    <3>1. FirstOfMonth(y, 1) = NewYear[y] + 0 + 0 /\ NewYear[y] \in Nat
      BY <1>1, YearLength DEF FirstOfMonth
    <3> QED BY <2>1, <3>1
  <2>3. f[13] = NewYear[y + 1] /\ NewYear[y + 1] \in Int
    BY <1>1, YearLength DEF MonthStart
  <2> HIDE DEF f
  <2>4. \A i \in 1..13 : f[i] \in Int
    BY <2>1, <2>3
  <2>5. \E i \in 1..13 - 1 : f[i] <= n /\ n < f[i + 1]
    <3>1. 1 \in Nat /\ 13 \in Nat /\ 1 < 13 /\ n \in Int /\ f[1] <= n /\ n < f[13]
      BY <1>1, <2>2, <2>3 DEF Days
    <3> QED BY <2>4, <3>1, Between, Zenon
  <2> QED BY <2>1, <2>5
<1>3. m0 \in 1..12 /\ InMonth(m0)
  BY <1>2
<1>4. Date(n) = [y |-> y, m |-> m0, d |-> n - FirstOfMonth(y, m0) + 1]
  BY DEF Date, y
<1> HIDE DEF m0
<1>5. FirstOfMonth(y, m0) \in Nat /\ MonthLength(y, m0) \in Nat /\ n \in Nat
  <2>1. MonthStart(y)[m0] \in Nat /\ MonthStart(y)[m0] = FirstOfMonth(y, m0) /\ MonthLength(y, m0) \in 28..31
    BY <1>1, <1>3, MonthsAre
  <2> QED BY <2>1 DEF Days
<1> QED BY <1>1, <1>3, <1>4, <1>5 DEF IsDate, DayNumber, y

\* a month ends before a later one begins
LEMMA MonthsInOrder ==
  ASSUME NEW y \in CalendarYears, NEW m \in 1..12, NEW k \in 1..12, m < k
  PROVE  FirstOfMonth(y, m) + MonthLength(y, m) <= FirstOfMonth(y, k)
<1> DEFINE leap == IF Leap(y) THEN 1 ELSE 0
           off == <<0, 31, 59, 90, 120, 151, 181, 212, 243, 273, 304, 334>>
           len == <<31, 28 + leap, 31, 30, 31, 30, 31, 31, 30, 31, 30, 31>>
           x == IF m > 2 THEN leap ELSE 0
           z == IF k > 2 THEN leap ELSE 0
<1>1. NewYear[y] \in Nat /\ leap \in {0, 1}
  BY YearLength
<1>2. /\ MonthLength(y, m) = len[m] /\ FirstOfMonth(y, m) = NewYear[y] + off[m] + x
      /\ FirstOfMonth(y, k) = NewYear[y] + off[k] + z
  BY DEF MonthLength, FirstOfMonth
<1> HIDE DEF leap
<1>3. off[m] \in Nat /\ off[k] \in Nat /\ len[m] \in Nat /\ x \in Nat /\ z \in Nat
  BY <1>1
<1>4. off[m] + x + len[m] <= off[k] + z
  <2>1. off[m + 1] <= off[k] /\ off[m + 1] + (IF m + 1 > 2 THEN leap ELSE 0) = off[m] + x + len[m]
    BY <1>1
  <2>2. (IF m + 1 > 2 THEN leap ELSE 0) <= z /\ off[m + 1] \in Nat
    BY <1>1
  <2> QED BY <1>1, <1>3, <2>1, <2>2
<1> HIDE DEF off, len, x, z
<1> QED BY <1>1, <1>2, <1>3, <1>4

\* no day of a date is outside its year
LEMMA DateInYear ==
  ASSUME NEW date, IsDate(date)
  PROVE  /\ DayNumber(date) \in Days
         /\ NewYear[date.y] <= DayNumber(date) /\ DayNumber(date) < NewYear[date.y + 1]
         /\ NewYear[date.y] \in Nat /\ NewYear[date.y + 1] \in Nat
         /\ FirstOfMonth(date.y, date.m) \in Nat /\ MonthLength(date.y, date.m) \in 28..31
<1>1. PICK y \in CalendarYears, m \in 1..12 : y = date.y /\ m = date.m
  BY DEF IsDate
<1>2. NewYear[y] \in Nat /\ NewYear[y + 1] \in Nat
  BY YearLength
<1>3. /\ FirstOfMonth(y, m) \in Nat /\ MonthLength(y, m) \in 28..31
      /\ NewYear[y] <= FirstOfMonth(y, m)
  BY MonthsAre
<1>4. FirstOfMonth(y, m) + MonthLength(y, m) <= NewYear[y + 1]
  <2>1. CASE m = 12
    <3>1. MonthStart(y)[12 + 1] = NewYear[y + 1]
      BY DEF MonthStart
    <3>2. MonthStart(y)[m + 1] = FirstOfMonth(y, m) + MonthLength(y, m)
      BY MonthsAre
    <3> QED BY <1>2, <1>3, <2>1, <3>1, <3>2
  <2>2. CASE m < 12
    <3>1. FirstOfMonth(y, m) + MonthLength(y, m) <= FirstOfMonth(y, 12)
      BY <2>2, MonthsInOrder
    <3>2. MonthStart(y)[12 + 1] = NewYear[y + 1]
      BY DEF MonthStart
    <3>3. /\ FirstOfMonth(y, 12) \in Nat /\ MonthLength(y, 12) \in 28..31
          /\ MonthStart(y)[12 + 1] = FirstOfMonth(y, 12) + MonthLength(y, 12)
      BY MonthsAre
    <3> QED BY <1>2, <1>3, <3>1, <3>2, <3>3
  <2> QED BY <2>1, <2>2
<1>5. NewYear[y + 1] <= 5479
  BY NewYearIs DEF CalendarYears, LeapsBefore
<1>6. date.d \in 1..MonthLength(y, m)
  BY <1>1 DEF IsDate
<1>7. DayNumber(date) = FirstOfMonth(y, m) + date.d - 1
  BY <1>1 DEF DayNumber
<1>8. /\ NewYear[y] <= DayNumber(date) /\ DayNumber(date) < NewYear[y + 1]
      /\ DayNumber(date) \in Nat
  BY <1>2, <1>3, <1>4, <1>6, <1>7
<1>9. DayNumber(date) \in Days
  <2>1. PICK n, e : n = DayNumber(date) /\ e = NewYear[y + 1]
    OBVIOUS
  <2>2. n \in Nat /\ e \in Nat /\ n < e /\ e <= 5479
    BY <1>2, <1>5, <1>8, <2>1
  <2>3. n \in Days
    BY <2>2 DEF Days
  <2> QED BY <2>1, <2>3
<1> QED BY <1>1, <1>2, <1>3, <1>8, <1>9, Zenon

LEMMA NumberIsNat ==
  ASSUME NEW date, IsDate(date)
  PROVE  DayNumber(date) \in Nat
<1>1. \A n \in Days : n \in Nat
  BY DEF Days
<1> QED BY <1>1, DateInYear, Zenon

\* two dates with one number are one date
LEMMA DateOfNumber ==
  ASSUME NEW a, NEW b, IsDate(a), IsDate(b), DayNumber(a) = DayNumber(b)
  PROVE  a = b
<1>1. /\ a.y \in CalendarYears /\ b.y \in CalendarYears /\ a.m \in 1..12 /\ b.m \in 1..12
      /\ a.d \in 1..MonthLength(a.y, a.m) /\ b.d \in 1..MonthLength(b.y, b.m)
      /\ a = [y |-> a.y, m |-> a.m, d |-> a.d] /\ b = [y |-> b.y, m |-> b.m, d |-> b.d]
  BY DEF IsDate
<1>2. ASSUME NEW c, NEW e, IsDate(c), IsDate(e), DayNumber(c) = DayNumber(e), c.y < e.y
      PROVE  FALSE
  <2>1. c.y \in CalendarYears /\ e.y \in CalendarYears
    BY <1>2 DEF IsDate
  <2>2. NewYear[c.y + 1] <= NewYear[e.y]
    <3>1. CASE c.y + 1 = e.y
      BY <1>2, <3>1, DateInYear
    <3>2. CASE c.y + 1 < e.y
      <4>1. c.y + 1 \in CalendarYears
        BY <2>1, <3>2 DEF CalendarYears
      <4>2. NewYear[c.y + 1] + 365*(e.y - (c.y + 1)) <= NewYear[e.y]
        BY <2>1, <3>2, <4>1, YearsInOrder
      <4>3. 365*(e.y - (c.y + 1)) \in Nat
        BY <2>1, <3>2 DEF CalendarYears
      <4>4. NewYear[c.y + 1] \in Nat /\ NewYear[e.y] \in Nat
        BY <1>2, DateInYear
      <4> QED BY <4>2, <4>3, <4>4
    <3> QED BY <1>2, <2>1, <3>1, <3>2 DEF CalendarYears
  <2>3. /\ DayNumber(c) < NewYear[c.y + 1] /\ NewYear[e.y] <= DayNumber(e)
        /\ NewYear[c.y + 1] \in Nat /\ NewYear[e.y] \in Nat /\ DayNumber(c) \in Nat
    <3>1. DayNumber(c) < NewYear[c.y + 1] /\ NewYear[c.y + 1] \in Nat /\ DayNumber(c) \in Days
      BY <1>2, DateInYear, Zenon
    <3>2. NewYear[e.y] <= DayNumber(e) /\ NewYear[e.y] \in Nat
      BY <1>2, DateInYear, Zenon
    <3>3. \A n \in Days : n \in Nat
      BY DEF Days
    <3> QED BY <3>1, <3>2, <3>3, Zenon
  <2> QED BY <1>2, <2>2, <2>3
<1>3. a.y = b.y
  <2>1. ~(a.y < b.y) /\ ~(b.y < a.y)
    BY <1>2
  <2> QED BY <1>1, <2>1 DEF CalendarYears
<1>4. ASSUME NEW c, NEW e, IsDate(c), IsDate(e), DayNumber(c) = DayNumber(e), c.y = e.y, c.m < e.m
      PROVE  FALSE
  <2>1. c.y \in CalendarYears /\ c.m \in 1..12 /\ e.m \in 1..12
        /\ c.d \in 1..MonthLength(c.y, c.m) /\ e.d \in 1..MonthLength(c.y, e.m)
    BY <1>4 DEF IsDate
  <2>2. FirstOfMonth(c.y, c.m) + MonthLength(c.y, c.m) <= FirstOfMonth(c.y, e.m)
    BY <1>4, <2>1, MonthsInOrder
  <2>3. FirstOfMonth(c.y, c.m) \in Nat /\ MonthLength(c.y, c.m) \in 28..31
        /\ FirstOfMonth(c.y, e.m) \in Nat
    BY <1>4, DateInYear
  <2>4. DayNumber(c) = FirstOfMonth(c.y, c.m) + c.d - 1 /\ DayNumber(e) = FirstOfMonth(c.y, e.m) + e.d - 1
    BY <1>4 DEF DayNumber
  <2>5. c.d \in Nat /\ c.d <= MonthLength(c.y, c.m) /\ e.d \in Nat /\ 1 <= e.d
    BY <2>1, <2>3
  <2>6. PICK f, l, g, p, q : /\ f = FirstOfMonth(c.y, c.m) /\ l = MonthLength(c.y, c.m)
                             /\ g = FirstOfMonth(c.y, e.m) /\ p = c.d /\ q = e.d
    OBVIOUS
  <2>7. f + p - 1 = g + q - 1
    BY <1>4, <2>4, <2>6
  <2>8. f \in Nat /\ l \in Nat /\ g \in Nat /\ p \in Nat /\ q \in Nat /\ f + l <= g /\ p <= l /\ 1 <= q
    BY <2>2, <2>3, <2>5, <2>6
  <2> QED BY <2>7, <2>8
<1>5. a.m = b.m
  <2>1. ~(a.m < b.m) /\ ~(b.m < a.m)
    BY <1>3, <1>4
  <2> QED BY <1>1, <2>1
<1>6. a.d = b.d
  <2>1. FirstOfMonth(a.y, a.m) \in Nat /\ MonthLength(a.y, a.m) \in 28..31
    BY DateInYear
  <2>2. a.d \in Nat /\ b.d \in Nat
    BY <1>1, <1>3, <1>5, <2>1
  <2>3. FirstOfMonth(a.y, a.m) + a.d - 1 = FirstOfMonth(a.y, a.m) + b.d - 1
    BY <1>3, <1>5 DEF DayNumber
  <2> QED BY <2>1, <2>2, <2>3
<1> QED BY <1>1, <1>3, <1>5, <1>6

LEMMA NumberOfDate ==
  ASSUME NEW date, IsDate(date)
  PROVE  Date(DayNumber(date)) = date
<1>1. DayNumber(date) \in Days
  BY DateInYear
<1> QED BY <1>1, DateIs, DateOfNumber

-----------------------------------------------------------------------------
(* Days under a reading, and periods of years.                             *)

LocalDay(t, reading) == (IF reading = "utc" THEN t ELSE t + BrusselsOffset(t)) \div 24

LaterDays == 1..5478

LEMMA OffsetIs ==
  ASSUME NEW t
  PROVE  BrusselsOffset(t) = 1 \/ BrusselsOffset(t) = 2
BY DEF BrusselsOffset

\* a day starts at an hour whose day it is, and the hour before is of the day before
LEMMA StartOfDay ==
  ASSUME NEW n \in LaterDays, NEW r \in READINGS, NEW s, s = DayStart(Date(n), r)
  PROVE  /\ s \in 24*n - 2..24*n /\ (r = "utc" => s = 24*n)
         /\ LocalDay(s, r) = n /\ LocalDay(s - 1, r) = n - 1
<1>1. DayNumber(Date(n)) = n
  <2>1. n \in Days
    BY DEF Days, LaterDays
  <2> QED BY <2>1, DateIs, Zenon
<1>2. CASE r = "utc"
  <2>1. s = 24*n
    BY <1>1, <1>2 DEF DayStart
  <2>2. (24*n) \div 24 = n /\ (24*n - 1) \div 24 = n - 1
    BY DEF LaterDays
  <2> QED BY <1>2, <2>1, <2>2 DEF LocalDay, LaterDays
<1>3. CASE r # "utc"
  <2>1. PICK a, b, c : /\ a = BrusselsOffset(24*n - 2) /\ b = BrusselsOffset(24*n - 1)
                       /\ c = BrusselsOffset(24*n - 3)
    OBVIOUS
  <2>2. (a = 1 \/ a = 2) /\ (b = 1 \/ b = 2) /\ (c = 1 \/ c = 2)
    BY <2>1, OffsetIs
  <2>3. s = IF a = 2 THEN 24*n - 2 ELSE 24*n - 1
    BY <1>1, <1>3, <2>1 DEF DayStart
  <2>4. CASE a = 2
    <3>1. s = 24*n - 2 /\ s - 1 = 24*n - 3
      BY <2>3, <2>4 DEF LaterDays
    <3>2. LocalDay(s, r) = (24*n - 2 + 2) \div 24 /\ LocalDay(s - 1, r) = (24*n - 3 + c) \div 24
      BY <1>3, <2>1, <2>4, <3>1 DEF LocalDay
    <3> QED BY <1>3, <2>2, <3>1, <3>2 DEF LaterDays
  <2>5. CASE a = 1
    <3>1. s = 24*n - 1 /\ s - 1 = 24*n - 2
      BY <2>3, <2>5 DEF LaterDays
    <3>2. LocalDay(s, r) = (24*n - 1 + b) \div 24 /\ LocalDay(s - 1, r) = (24*n - 2 + 1) \div 24
      BY <1>3, <2>1, <2>5, <3>1 DEF LocalDay
    <3> QED BY <1>3, <2>2, <3>1, <3>2 DEF LaterDays
  <2> QED BY <2>2, <2>4, <2>5
<1> QED BY <1>2, <1>3

\* ... and the day of an hour has started
LEMMA DayHasStarted ==
  ASSUME NEW u \in Nat, NEW r \in READINGS, NEW n \in LaterDays, n = LocalDay(u, r)
  PROVE  DayStart(Date(n), r) <= u
<1>1. DayNumber(Date(n)) = n
  <2>1. n \in Days
    BY DEF Days, LaterDays
  <2> QED BY <2>1, DateIs, Zenon
<1>2. CASE r = "utc"
  <2>1. DayStart(Date(n), r) = 24*n
    BY <1>1, <1>2 DEF DayStart
  <2> QED BY <1>2, <2>1 DEF LocalDay, LaterDays
<1>3. CASE r # "utc"
  <2>1. PICK a, b : a = BrusselsOffset(24*n - 2) /\ b = BrusselsOffset(u)
    OBVIOUS
  <2>2. (a = 1 \/ a = 2) /\ (b = 1 \/ b = 2)
    BY <2>1, OffsetIs
  <2>3. DayStart(Date(n), r) = IF a = 2 THEN 24*n - 2 ELSE 24*n - 1
    BY <1>1, <1>3, <2>1 DEF DayStart
  <2>4. n = (u + b) \div 24
    BY <1>3, <2>1 DEF LocalDay
  <2>5. 24*n <= u + b
    BY <2>2, <2>4 DEF LaterDays
  <2>6. CASE u = 24*n - 2
    <3>1. a = b
      BY <2>1, <2>6
    <3> QED BY <2>2, <2>3, <2>5, <2>6, <3>1 DEF LaterDays
  <2>7. CASE u # 24*n - 2
    <3>1. PICK s : s = DayStart(Date(n), r)
      OBVIOUS
    <3>2. s = IF a = 2 THEN 24*n - 2 ELSE 24*n - 1
      BY <2>3, <3>1
    <3>3. 24*n - 1 <= u
      BY <2>2, <2>5, <2>7 DEF LaterDays
    <3>4. s <= 24*n - 1
      BY <3>2 DEF LaterDays
    <3>5. s \in Int /\ n \in Int
      BY <3>2 DEF LaterDays
    <3> QED BY <3>1, <3>3, <3>4, <3>5
  <2> QED BY <2>6, <2>7
<1> QED BY <1>2, <1>3

\* only February's length depends on the year
LEMMA LengthOfMonth ==
  ASSUME NEW y \in CalendarYears, NEW z \in CalendarYears, NEW m \in 1..12
  PROVE  /\ MonthLength(y, m) \in 28..31
         /\ m # 2 => MonthLength(y, m) = MonthLength(z, m)
         /\ m = 2 => MonthLength(y, m) = IF Leap(y) THEN 29 ELSE 28
BY MonthsAre DEF MonthLength

EarlyYears == 2026..2029

LEMMA AnniversaryIs ==
  ASSUME NEW date, IsDate(date), NEW k \in {5, 10}, date.y \in EarlyYears
  PROVE  /\ IsDate(Anniversary(date, k)) /\ Anniversary(date, k).y = date.y + k
         /\ AddMonths(24*DayNumber(date), 12*k) \div 24 = DayNumber(Anniversary(date, k))
<1> DEFINE a == Anniversary(date, k)
           last == MonthLength(date.y + k, date.m)
<1>1. /\ date.y \in CalendarYears /\ date.m \in 1..12 /\ date.y + k \in CalendarYears
      /\ date.d \in 1..MonthLength(date.y, date.m)
  BY DEF IsDate, CalendarYears, EarlyYears
<1>2. PICK l0 \in Nat, l \in Nat :
        /\ l0 \in 28..31 /\ l \in 28..31
        /\ l0 = MonthLength(date.y, date.m) /\ l = last
        /\ date.m # 2 => l0 = l
        /\ date.m = 2 => l0 <= 29 /\ l = IF Leap(date.y + k) THEN 29 ELSE 28
  <2>1. /\ MonthLength(date.y, date.m) \in 28..31 /\ last \in 28..31
        /\ date.m # 2 => MonthLength(date.y, date.m) = last
        /\ date.m = 2 => last = IF Leap(date.y + k) THEN 29 ELSE 28
        /\ date.m = 2 => MonthLength(date.y, date.m) = IF Leap(date.y) THEN 29 ELSE 28
    BY <1>1, LengthOfMonth
  <2> QED BY <2>1
<1>3. PICK d \in 1..l0 : d = date.d
  BY <1>1, <1>2
<1>4. a.d = IF d < l THEN d ELSE l
  <2>1. a.d = IF date.m = 2 /\ d = 29 /\ ~ Leap(date.y + k) THEN 28 ELSE d
    BY <1>3 DEF Anniversary
  <2>2. CASE date.m = 2
    <3>1. d \in Nat /\ d <= 29 /\ l = IF Leap(date.y + k) THEN 29 ELSE 28
      BY <1>2, <2>2
    <3> QED BY <2>1, <2>2, <3>1
  <2>3. CASE date.m # 2
    <3>1. d <= l /\ a.d = d
      BY <1>2, <2>1, <2>3
    <3> QED BY <3>1
  <2> QED BY <2>2, <2>3
<1>5. /\ a.y = date.y + k /\ a.m = date.m /\ a = [y |-> a.y, m |-> a.m, d |-> a.d]
  BY DEF Anniversary
<1>6. IsDate(a)
  <2>1. a.d \in 1..l
    BY <1>2, <1>3, <1>4
  <2> QED BY <1>1, <1>2, <1>5, <2>1 DEF IsDate
<1>7. AddMonths(24*DayNumber(date), 12*k) \div 24 = DayNumber(a)
  <2>12. DayNumber(date) \in Nat
    BY NumberIsNat, Zenon
  <2>1. PICK n \in Nat : n = DayNumber(date)
    BY <2>12
  <2>2. (24*n) \div 24 = n /\ (24*n) % 24 = 0
    OBVIOUS
  <2>3. Date(n) = date
    BY <2>1, NumberOfDate
  <2>4. PICK m \in 1..12 : m = date.m
    BY <1>1
  <2>5. (m - 1 + 12*k) \div 12 = k /\ ((m - 1 + 12*k) % 12) + 1 = m
    OBVIOUS
  <2>6. AddMonths(24*n, 12*k)
          = 24 * DayNumber([y |-> date.y + k, m |-> date.m,
                            d |-> IF date.d < last THEN date.d ELSE last]) + 0
    <3> DEFINE At(c, y, x, t) ==
                 24 * DayNumber([y |-> y, m |-> x,
                   d |-> IF c.d < MonthLength(y, x) THEN c.d ELSE MonthLength(y, x)]) + (t % 24)
               Of(c, t) == At(c, c.y + ((c.m - 1 + 12*k) \div 12), ((c.m - 1 + 12*k) % 12) + 1, t)
    <3>1. AddMonths(24*n, 12*k) = Of(Date((24*n) \div 24), 24*n)
      BY DEF AddMonths
    <3> HIDE DEF At
    <3>2. Of(Date((24*n) \div 24), 24*n) = Of(date, 24*n)
      BY <2>2, <2>3
    <3>3. Of(date, 24*n) = At(date, date.y + k, date.m, 24*n)
      BY <2>4, <2>5
    <3> QED BY <2>2, <3>1, <3>2, <3>3 DEF At
  <2>7. a = [y |-> date.y + k, m |-> date.m, d |-> IF date.d < last THEN date.d ELSE last]
    BY <1>2, <1>3, <1>4, <1>5
  <2> HIDE DEF a
  <2>11. DayNumber(a) \in Nat
    BY <1>6, NumberIsNat, Zenon
  <2>8. PICK e \in Nat : e = DayNumber(a)
    BY <2>11
  <2>9. AddMonths(24*n, 12*k) = 24*e + 0
    BY <2>6, <2>7, <2>8
  <2>10. (24*e + 0) \div 24 = e
    OBVIOUS
  <2> QED BY <2>1, <2>8, <2>9, <2>10
<1> QED BY <1>5, <1>6, <1>7

\* instants with ten years of the calendar after them
Events == {t \in Nat : 24 <= t /\ t < 24*1460}

LEMMA InstantsAreEvents == Instants \cup PeriodStarts \subseteq Events
<1>1. LastYear - 10 = 2030 /\ NewYear[2030] = 1461
  BY NewYearIs DEF LastYear, LeapsBefore
<1> QED BY <1>1, NoticesAssumption DEF Events

LEMMA EventDay ==
  ASSUME NEW t \in Events, NEW r \in READINGS
  PROVE  /\ LocalDay(t, r) \in LaterDays /\ LocalDay(t, r) <= 1460
         /\ IsDate(LocalDate(t, r)) /\ LocalDate(t, r).y \in EarlyYears
         /\ DayNumber(LocalDate(t, r)) = LocalDay(t, r)
<1>1. LocalDay(t, r) \in LaterDays /\ LocalDay(t, r) <= 1460
  <2>1. PICK b : b = BrusselsOffset(t)
    OBVIOUS
  <2>2. b = 1 \/ b = 2
    BY <2>1, OffsetIs
  <2>3. PICK x : x = IF r = "utc" THEN t ELSE t + b
    OBVIOUS
  <2>4. x \in Nat /\ 24 <= x /\ x < 24*1461
    BY <2>2, <2>3 DEF Events
  <2>5. PICK n : n = x \div 24
    OBVIOUS
  <2>6. n \in LaterDays /\ n <= 1460
    BY <2>4, <2>5 DEF LaterDays
  <2>7. LocalDay(t, r) = n
    BY <2>1, <2>3, <2>5 DEF LocalDay
  <2> QED BY <2>6, <2>7
<1>2. PICK n \in LaterDays : n = LocalDay(t, r) /\ n <= 1460
  BY <1>1
<1>3. LocalDate(t, r) = Date(n)
  BY <1>2 DEF LocalDate, LocalDay
<1>4. n \in Days
  BY DEF Days, LaterDays
<1>5. IsDate(Date(n)) /\ DayNumber(Date(n)) = n /\ Date(n).y = YearOf(n)
  BY <1>4, DateIs
<1>6. YearOf(n) \in EarlyYears
  <2>1. YearOf(n) \in CalendarYears /\ NewYear[YearOf(n)] <= n
    BY <1>4, YearOfIs
  <2>2. NewYear[2030] = 1461
    BY NewYearIs DEF LeapsBefore
  <2>3. PICK y \in CalendarYears : y = YearOf(n)
    BY <2>1
  <2>4. NewYear[y] \in Nat /\ NewYear[y] <= 1460
    BY <1>2, <2>1, <2>3, YearLength DEF LaterDays
  <2>5. ASSUME 2030 <= y PROVE FALSE
    <3>1. CASE y = 2030
      BY <2>2, <2>4, <3>1
    <3>2. CASE 2030 < y
      <4>1. 2030 \in CalendarYears
        BY DEF CalendarYears
      <4>2. NewYear[2030] + 365*(y - 2030) <= NewYear[y]
        BY <3>2, <4>1, YearsInOrder
      <4> QED BY <2>2, <2>4, <3>2, <4>2 DEF CalendarYears
    <3> QED BY <2>5, <3>1, <3>2 DEF CalendarYears
  <2>6. y \in EarlyYears
    BY <2>5 DEF CalendarYears, EarlyYears
  <2> QED BY <2>3, <2>6
<1> QED BY <1>1, <1>2, <1>3, <1>5, <1>6

\* a period ends where the day after the anniversary starts
LEMMA YearsAfterIs ==
  ASSUME NEW t \in Events, NEW r \in READINGS, NEW k \in {5, 10}
  PROVE  \E n \in LaterDays :
           /\ YearsAfter(t, k, r) = DayStart(Date(n), r)
           /\ Date(n - 1) = Anniversary(LocalDate(t, r), k)
           /\ n - 1 = DayNumber(Anniversary(LocalDate(t, r), k))
           /\ LocalDay(t, r) + 1000 <= n
<1> DEFINE date == LocalDate(t, r)
           a == Anniversary(date, k)
<1>1. IsDate(date) /\ date.y \in EarlyYears /\ DayNumber(date) = LocalDay(t, r)
  BY EventDay
<1>2. /\ IsDate(a) /\ a.y = date.y + k
      /\ AddMonths(24*DayNumber(date), 12*k) \div 24 = DayNumber(a)
  BY <1>1, AnniversaryIs
<1>3. YearsAfter(t, k, r) = DayStart(Date(DayNumber(a) + 1), r)
  BY <1>2 DEF YearsAfter
<1> HIDE DEF date, a
<1>4. Date(DayNumber(a)) = a
  BY <1>2, NumberOfDate
<1>5. PICK y \in EarlyYears : y = date.y
  BY <1>1
<1>6. /\ y \in CalendarYears /\ y + 1 \in CalendarYears /\ y + k \in CalendarYears
      /\ y + k + 1 \in 2026..2040 /\ y \in Int
  BY DEF EarlyYears, CalendarYears
<1>7. PICK e : e = DayNumber(a)
  OBVIOUS
<1>8. e \in Nat /\ NewYear[y + k] <= e /\ e < NewYear[y + k + 1]
  <2>1. DayNumber(a) \in Nat
    BY <1>2, NumberIsNat, Zenon
  <2>2. NewYear[a.y] <= DayNumber(a) /\ DayNumber(a) < NewYear[a.y + 1]
    BY <1>2, DateInYear, Zenon
  <2> QED BY <1>2, <1>5, <1>7, <2>1, <2>2
<1>9. PICK d : d = LocalDay(t, r)
  OBVIOUS
<1>10. d \in Nat /\ d < NewYear[y + 1]
  <2>1. DayNumber(date) \in Nat
    BY <1>1, NumberIsNat, Zenon
  <2>2. DayNumber(date) < NewYear[date.y + 1]
    BY <1>1, DateInYear, Zenon
  <2> QED BY <1>1, <1>5, <1>9, <2>1, <2>2
<1>11. /\ NewYear[y + 1] \in Nat /\ NewYear[y + k] \in Nat /\ NewYear[y + k + 1] \in Nat
       /\ NewYear[y + 1] + 365*4 <= NewYear[y + k]
  <2>1. NewYear[y + 1] \in Nat /\ NewYear[y + k] \in Nat /\ NewYear[y + k + 1] \in Nat
    BY <1>6, YearLength
  <2>2. NewYear[y + 1] + 365*((y + k) - (y + 1)) <= NewYear[y + k]
    <3>1. y + 1 < y + k
      BY <1>6
    <3> QED BY <1>6, <3>1, YearsInOrder
  <2>3. 365*4 <= 365*((y + k) - (y + 1)) /\ 365*((y + k) - (y + 1)) \in Nat
    BY <1>6
  <2> QED BY <2>1, <2>2, <2>3
<1>12. NewYear[y + k + 1] <= 5113
  <2>1. PICK z \in 2026..2040 : z = y + k + 1
    BY <1>6
  <2>2. NewYear[z] = 365*(z - 2026) + LeapsBefore(z)
    BY NewYearIs
  <2>3. NewYear[z] <= 5113
    BY <2>2 DEF LeapsBefore
  <2> QED BY <2>1, <2>3
<1>13. e + 1 \in LaterDays /\ d + 1000 <= e + 1 /\ (e + 1) - 1 = e
  <2>1. PICK a0 \in Nat, b0 \in Nat, c0 \in Nat :
          a0 = NewYear[y + 1] /\ b0 = NewYear[y + k] /\ c0 = NewYear[y + k + 1]
    BY <1>11
  <2>2. b0 <= e /\ e < c0 /\ d < a0 /\ a0 + 365*4 <= b0 /\ c0 <= 5113 /\ e \in Nat /\ d \in Nat
    BY <1>8, <1>10, <1>11, <1>12, <2>1
  <2> QED BY <2>2 DEF LaterDays
<1>14. /\ YearsAfter(t, k, r) = DayStart(Date(e + 1), r) /\ Date((e + 1) - 1) = a
       /\ (e + 1) - 1 = DayNumber(a) /\ LocalDay(t, r) + 1000 <= e + 1
  BY <1>3, <1>4, <1>7, <1>9, <1>13
<1> QED BY <1>13, <1>14 DEF a, date

LEMMA DatesDiffer ==
  ASSUME NEW n \in LaterDays
  PROVE  Date(n - 1) # Date(n)
<1>1. n \in Days /\ n - 1 \in Days /\ n - 1 # n
  BY DEF Days, LaterDays
<1>2. DayNumber(Date(n)) = n /\ DayNumber(Date(n - 1)) = n - 1
  BY <1>1, DateIs
<1> QED BY <1>1, <1>2

LEMMA MidnightsAre ==
  ASSUME NEW t \in Events
  PROVE  MidnightsFrom(t)
<1> SUFFICES ASSUME NEW u \in t..t + 24*60, NEW r \in READINGS
             PROVE  LET start == DayStart(LocalDate(u, r), r)
                    IN  start <= u /\ LocalDate(start - 1, r) # LocalDate(u, r)
  BY DEF MidnightsFrom
<1>1. PICK b : b = BrusselsOffset(u)
  OBVIOUS
<1>2. PICK x : x = IF r = "utc" THEN u ELSE u + b
  OBVIOUS
<1>3. u \in Nat /\ x \in Nat /\ 24 <= x /\ x < 24*5479
  BY <1>1, <1>2, OffsetIs DEF Events
<1>4. PICK n : n = x \div 24
  OBVIOUS
<1>5. n \in LaterDays
  BY <1>3, <1>4 DEF LaterDays
<1>6. LocalDay(u, r) = n
  BY <1>1, <1>2, <1>4 DEF LocalDay
<1>7. LocalDate(u, r) = Date(n)
  BY <1>6 DEF LocalDate, LocalDay
<1>8. PICK s : s = DayStart(Date(n), r)
  OBVIOUS
<1>9. s <= u
  BY <1>3, <1>5, <1>6, <1>8, DayHasStarted
<1>10. LocalDay(s - 1, r) = n - 1
  BY <1>5, <1>8, StartOfDay
<1>11. LocalDate(s - 1, r) = Date(n - 1)
  BY <1>10 DEF LocalDate, LocalDay
<1> QED BY <1>5, <1>7, <1>8, <1>9, <1>11, DatesDiffer

\* the ends of the two periods the Regulation counts
LEMMA PeriodEnds ==
  ASSUME NEW t \in Events, NEW r \in READINGS
  PROVE  LET five == YearsAfter(t, 5, r)
             ten == YearsAfter(t, 10, r)
         IN  /\ five \in Nat /\ ten \in Nat /\ t + 1 < five /\ five < ten
             /\ LocalDate(five - 1, r) = Anniversary(LocalDate(t, r), 5)
             /\ LocalDate(ten - 1, r) = Anniversary(LocalDate(t, r), 10)
             /\ LocalDate(ten, r) # LocalDate(ten - 1, r)
<1> DEFINE a5 == Anniversary(LocalDate(t, r), 5)
           a10 == Anniversary(LocalDate(t, r), 10)
<1>1. PICK n \in LaterDays :
        /\ YearsAfter(t, 5, r) = DayStart(Date(n), r) /\ Date(n - 1) = a5
        /\ n - 1 = DayNumber(a5) /\ LocalDay(t, r) + 1000 <= n
  BY YearsAfterIs
<1>2. PICK m \in LaterDays :
        /\ YearsAfter(t, 10, r) = DayStart(Date(m), r) /\ Date(m - 1) = a10
        /\ m - 1 = DayNumber(a10) /\ LocalDay(t, r) + 1000 <= m
  BY YearsAfterIs
<1>3. PICK five : five = DayStart(Date(n), r)
  OBVIOUS
<1>4. PICK ten : ten = DayStart(Date(m), r)
  OBVIOUS
<1>5. five \in 24*n - 2..24*n /\ LocalDay(five - 1, r) = n - 1
  BY <1>3, StartOfDay
<1>6. ten \in 24*m - 2..24*m /\ LocalDay(ten - 1, r) = m - 1 /\ LocalDay(ten, r) = m
  BY <1>4, StartOfDay
<1>7. PICK d \in LaterDays : d = LocalDay(t, r)
  BY EventDay
<1>8. t + 1 < 24*(d + 2)
  <2>1. PICK b : b = BrusselsOffset(t)
    OBVIOUS
  <2>2. PICK x : x = IF r = "utc" THEN t ELSE t + b
    OBVIOUS
  <2>3. t \in Nat /\ x \in Nat /\ t <= x /\ d = x \div 24
    BY <1>7, <2>1, <2>2, OffsetIs DEF Events, LocalDay
  <2>4. x < 24*(d + 1)
    BY <2>3
  <2> QED BY <2>3, <2>4 DEF LaterDays
<1>9. d + 1000 <= n /\ d + 1000 <= m
  BY <1>1, <1>2, <1>7
<1>10. n < m
  <2> DEFINE date == LocalDate(t, r)
  <2>1. IsDate(date) /\ date.y \in EarlyYears
    BY EventDay
  <2>2. IsDate(a5) /\ a5.y = date.y + 5 /\ IsDate(a10) /\ a10.y = date.y + 10
    BY <2>1, AnniversaryIs
  <2> HIDE DEF date, a5, a10
  <2>3. DayNumber(a5) < NewYear[a5.y + 1] /\ NewYear[a10.y] <= DayNumber(a10)
    BY <2>2, DateInYear, Zenon
  <2>4. PICK y \in EarlyYears : y = date.y
    BY <2>1
  <2>5. y + 6 \in CalendarYears /\ y + 10 \in CalendarYears /\ y + 6 < y + 10 /\ y + 5 + 1 = y + 6
    BY DEF EarlyYears, CalendarYears
  <2>6. NewYear[y + 6] + 365*((y + 10) - (y + 6)) <= NewYear[y + 10]
    BY <2>5, YearsInOrder
  <2>7. NewYear[y + 6] \in Nat /\ NewYear[y + 10] \in Nat
    BY <2>5, YearLength
  <2>8. (y + 10) - (y + 6) = 4
    BY DEF EarlyYears
  <2>9. n - 1 < NewYear[y + 6] /\ NewYear[y + 10] <= m - 1
    BY <1>1, <1>2, <2>2, <2>3, <2>4, <2>5
  <2> QED BY <2>6, <2>7, <2>8, <2>9 DEF LaterDays
<1>11. /\ five \in Nat /\ ten \in Nat /\ t + 1 < five /\ five < ten
  BY <1>5, <1>6, <1>8, <1>9, <1>10 DEF LaterDays, Events
<1>12. /\ LocalDate(five - 1, r) = a5 /\ LocalDate(ten - 1, r) = a10
       /\ LocalDate(ten, r) = Date(m)
  BY <1>1, <1>2, <1>5, <1>6 DEF LocalDate, LocalDay
<1>13. Date(m) # a10
  BY <1>2, DatesDiffer
<1> QED BY <1>1, <1>2, <1>3, <1>4, <1>11, <1>12, <1>13

-----------------------------------------------------------------------------
(* What is decided by the ends of the periods.                             *)

\* both readings of a support period
LEMMA StatusIs ==
  ASSUME NEW t \in Int, NEW end \in Int, t < end
  PROVE  \A r \in READINGS :
           /\ end >= YearsAfter(t, 5, r) => SupportStatus(t, end, FALSE) # "below_minimum"
           /\ ~(end >= YearsAfter(t, 5, r)) => SupportStatus(t, end, FALSE) # "meets_minimum"
<1> DEFINE per == [r \in READINGS |-> SupportReading(t, end, FALSE, r)]
<1>1. SupportStatus(t, end, FALSE) =
        IF Net(per) = {} THEN "depends_on_time_zone_reading" ELSE per["utc"]
  <2>1. ~(end <= t)
    OBVIOUS
  <2> QED BY <2>1 DEF SupportStatus
<1>2. \A r \in READINGS :
        per[r] = IF end >= YearsAfter(t, 5, r) THEN "meets_minimum" ELSE "below_minimum"
  BY DEF SupportReading
<1> HIDE DEF per
<1>3. Net(per) # {} => \A r \in READINGS : per["utc"] = per[r]
  BY DEF Net, READINGS
<1> QED BY <1>1, <1>2, <1>3

LEMMA MeetsUnderBoth ==
  ASSUME NEW t \in Int, NEW end \in Int, t < end, \A r \in READINGS : end >= YearsAfter(t, 5, r)
  PROVE  SupportStatus(t, end, FALSE) = "meets_minimum"
<1> DEFINE per == [r \in READINGS |-> SupportReading(t, end, FALSE, r)]
<1>1. SupportStatus(t, end, FALSE) =
        IF Net(per) = {} THEN "depends_on_time_zone_reading" ELSE per["utc"]
  <2>1. ~(end <= t)
    OBVIOUS
  <2> QED BY <2>1 DEF SupportStatus
<1>2. \A r \in READINGS : per[r] = "meets_minimum"
  BY DEF SupportReading
<1> QED BY <1>1, <1>2 DEF Net, READINGS

\* the later of ten years and of the end of the support period, under a reading
LEMMA UntilIs ==
  ASSUME NEW t, NEW r, NEW ten \in Nat, ten = YearsAfter(t, 10, r), NEW ends,
         ends = {} \/ \E e \in Nat : ends = {e}
  PROVE  Until(t, ends, r) \in Nat /\ \A u \in {ten} \cup ends : u <= Until(t, ends, r)
<1>1. \E m \in {ten} \cup ends : \A u \in {ten} \cup ends : u <= m
  <2>1. CASE ends = {}
    BY <2>1
  <2>2. ASSUME NEW e \in Nat, ends = {e}
        PROVE  \E m \in {ten} \cup ends : \A u \in {ten} \cup ends : u <= m
    <3>1. CASE ten <= e
      BY <2>2, <3>1
    <3>2. CASE e <= ten
      BY <2>2, <3>2
    <3> QED BY <2>2, <3>1, <3>2
  <2> QED BY <2>1, <2>2
<1>2. PICK m : m = Until(t, ends, r)
  OBVIOUS
<1>3. m = CHOOSE u \in {ten} \cup ends : \A v \in {ten} \cup ends : v <= u
  BY <1>2 DEF Until
<1>4. m \in {ten} \cup ends /\ \A u \in {ten} \cup ends : u <= m
  BY <1>1, <1>3
<1> QED BY <1>2, <1>4

LEMMA LatestIs ==
  ASSUME NEW t \in Events, NEW ends, ends = {} \/ \E e \in Nat : ends = {e}
  PROVE  /\ LatestUntil(t, ends) \in Nat
         /\ \A r \in READINGS : \A u \in {YearsAfter(t, 10, r)} \cup ends : u <= LatestUntil(t, ends)
<1> DEFINE per == [r \in READINGS |-> Until(t, ends, r)]
<1>1. LatestUntil(t, ends) =
        IF per["utc"] > per["europe_brussels"] THEN per["utc"] ELSE per["europe_brussels"]
  BY DEF LatestUntil
<1>2. ASSUME NEW r \in READINGS
      PROVE  /\ per[r] \in Nat
             /\ \A u \in {YearsAfter(t, 10, r)} \cup ends : u \in Nat /\ u <= per[r]
  <2>1. PICK ten \in Nat : ten = YearsAfter(t, 10, r)
    BY PeriodEnds
  <2>2. Until(t, ends, r) \in Nat /\ \A u \in {ten} \cup ends : u <= Until(t, ends, r)
    BY <2>1, UntilIs
  <2>3. \A u \in {ten} \cup ends : u \in Nat
    OBVIOUS
  <2> QED BY <2>1, <2>2, <2>3
<1> HIDE DEF per
<1>3. PICK a \in Nat, b \in Nat : a = per["utc"] /\ b = per["europe_brussels"]
  BY <1>2 DEF READINGS
<1>4. PICK m \in Nat : m = LatestUntil(t, ends) /\ a <= m /\ b <= m
  BY <1>1, <1>3
<1>5. ASSUME NEW r \in READINGS, NEW u \in {YearsAfter(t, 10, r)} \cup ends
      PROVE  u <= m
  BY <1>2, <1>3, <1>4 DEF READINGS
<1> QED BY <1>4, <1>5

LEMMA PeriodsAre ==
  ASSUME NEW t \in Events
  PROVE  PeriodsFrom(t)
<1> SUFFICES ASSUME NEW r \in READINGS, NEW five, NEW ten,
                    five = YearsAfter(t, 5, r), ten = YearsAfter(t, 10, r)
             PROVE  /\ LocalDate(five - 1, r) = Anniversary(LocalDate(t, r), 5)
                    /\ LocalDate(ten - 1, r) = Anniversary(LocalDate(t, r), 10)
                    /\ LocalDate(ten, r) # LocalDate(ten - 1, r)
                    /\ SupportStatus(t, five, FALSE) # "below_minimum"
                    /\ SupportStatus(t, five - 1, FALSE) # "meets_minimum"
                    /\ SupportStatus(t, LatestUntil(t, {}), FALSE) = "meets_minimum"
                    /\ \A end \in {five, ten, ten + 1} :
                         LatestUntil(t, {end}) >= ten /\ LatestUntil(t, {end}) >= end
  BY DEF PeriodsFrom
<1>1. t \in Nat
  BY DEF Events
<1>2. /\ five \in Nat /\ ten \in Nat /\ t + 1 < five /\ five < ten
      /\ LocalDate(five - 1, r) = Anniversary(LocalDate(t, r), 5)
      /\ LocalDate(ten - 1, r) = Anniversary(LocalDate(t, r), 10)
      /\ LocalDate(ten, r) # LocalDate(ten - 1, r)
  BY PeriodEnds
<1>3. SupportStatus(t, five, FALSE) # "below_minimum"
  <2>1. t \in Int /\ five \in Int /\ t < five /\ five >= YearsAfter(t, 5, r)
    BY <1>1, <1>2
  <2> QED BY <2>1, StatusIs
<1>4. SupportStatus(t, five - 1, FALSE) # "meets_minimum"
  <2>1. PICK e : e = five - 1
    OBVIOUS
  <2>2. t \in Int /\ e \in Int /\ t < e /\ ~(e >= YearsAfter(t, 5, r))
    BY <1>1, <1>2, <2>1
  <2>3. SupportStatus(t, e, FALSE) # "meets_minimum"
    BY <2>2, StatusIs
  <2> QED BY <2>1, <2>3
<1>5. SupportStatus(t, LatestUntil(t, {}), FALSE) = "meets_minimum"
  <2>1. PICK m \in Nat : m = LatestUntil(t, {}) /\ \A x \in READINGS : YearsAfter(t, 10, x) <= m
    BY LatestIs
  <2>2. ASSUME NEW x \in READINGS
        PROVE  m >= YearsAfter(t, 5, x) /\ t < m
    <3>1. PICK f \in Nat, g \in Nat : /\ f = YearsAfter(t, 5, x) /\ g = YearsAfter(t, 10, x)
                                      /\ t + 1 < f /\ f < g
      BY PeriodEnds
    <3> QED BY <1>1, <2>1, <3>1
  <2>3. t \in Int /\ m \in Int /\ t < m
    BY <1>1, <2>2
  <2>4. SupportStatus(t, m, FALSE) = "meets_minimum"
    BY <2>2, <2>3, MeetsUnderBoth
  <2> QED BY <2>1, <2>4
<1>6. ASSUME NEW end \in {five, ten, ten + 1}
      PROVE  LatestUntil(t, {end}) >= ten /\ LatestUntil(t, {end}) >= end
  <2>1. end \in Nat
    BY <1>2
  <2>2. {end} = {} \/ \E e \in Nat : {end} = {e}
    BY <2>1
  <2>3. PICK m \in Nat : /\ m = LatestUntil(t, {end})
                         /\ \A u \in {YearsAfter(t, 10, r)} \cup {end} : u <= m
    BY <2>2, LatestIs
  <2>4. ten <= m /\ end <= m
    BY <2>3
  <2> QED BY <1>2, <2>1, <2>3, <2>4
<1> QED BY <1>2, <1>3, <1>4, <1>5, <1>6

-----------------------------------------------------------------------------
(* The two days of the Regulation, under both readings.                    *)

\* a day of the first two years
LEMMA FirstYears ==
  ASSUME NEW y \in {2026, 2027}, NEW n \in Days,
         365*(y - 2026) <= n, n < 365*(y - 2025)
  PROVE  YearOf(n) = y
<1>1. PICK z \in CalendarYears : z = YearOf(n)
  BY YearOfIs
<1>2. NewYear[z] <= n /\ n < NewYear[z + 1]
  BY <1>1, YearOfIs
<1>3. /\ NewYear[z] = 365*(z - 2026) + LeapsBefore(z)
      /\ NewYear[z + 1] = 365*(z - 2025) + LeapsBefore(z + 1)
  <2>1. z \in 2026..2041 /\ z + 1 \in 2026..2041
    BY DEF CalendarYears
  <2>2. (z + 1) - 2026 = z - 2025
    BY <2>1
  <2> QED BY <2>1, <2>2, NewYearIs
<1>4. CASE z < y
  <2>1. z = 2026 /\ y = 2027
    BY <1>4 DEF CalendarYears
  <2> QED BY <1>2, <1>3, <2>1 DEF LeapsBefore, Days
<1>5. CASE y < z
  <2>1. LeapsBefore(z) \in Nat /\ z >= y + 1
    BY <1>5 DEF LeapsBefore, CalendarYears
  <2> QED BY <1>2, <1>3, <2>1 DEF Days, CalendarYears
<1> QED BY <1>1, <1>4, <1>5 DEF CalendarYears

LEMMA NumbersOfTheYear ==
  ASSUME NEW y \in {2026, 2027}
  PROVE  /\ NewYear[y] = 365*(y - 2026) /\ ~ Leap(y)
         /\ DayNumber([y |-> y, m |-> 3, d |-> MonthLength(y, 3)]) = 365*(y - 2026) + 89
         /\ DayNumber([y |-> y, m |-> 10, d |-> MonthLength(y, 10)]) = 365*(y - 2026) + 303
<1>1. NewYear[y] = 365*(y - 2026) /\ ~ Leap(y)
  <2>1. y \in 2026..2041
    OBVIOUS
  <2> QED BY <2>1, NewYearIs, LeapYears DEF LeapsBefore
<1>2. MonthLength(y, 3) = 31 /\ MonthLength(y, 10) = 31
  BY DEF MonthLength
<1>3. FirstOfMonth(y, 3) = 365*(y - 2026) + 59 + 0 /\ FirstOfMonth(y, 10) = 365*(y - 2026) + 273 + 0
  BY <1>1 DEF FirstOfMonth
<1> QED BY <1>1, <1>2, <1>3 DEF DayNumber

LEMMA SummerOf2026 ==
  \E a, b \in Int : SummerTime[2026] = a..b /\ a = 2089 /\ b = 7128
<1>1. SummerTime[2026] = 24*LastSunday(2026, 3) + 1..24*LastSunday(2026, 10)
  BY DEF SummerTime, FirstYear, LastYear
<1>2. /\ DayNumber([y |-> 2026, m |-> 3, d |-> MonthLength(2026, 3)]) = 89
      /\ DayNumber([y |-> 2026, m |-> 10, d |-> MonthLength(2026, 10)]) = 303
  BY NumbersOfTheYear
<1>3. LastSunday(2026, 3) = 87
  BY <1>2 DEF LastSunday, Weekday
<1>4. LastSunday(2026, 10) = 297
  BY <1>2 DEF LastSunday, Weekday
<1>5. 24*LastSunday(2026, 3) + 1 = 2089 /\ 24*LastSunday(2026, 10) = 7128
  BY <1>3, <1>4
<1> QED BY <1>1, <1>5

LEMMA SummerOf2027 == \E a : SummerTime[2027] = a..16032
<1>1. SummerTime[2027] = 24*LastSunday(2027, 3) + 1..24*LastSunday(2027, 10)
  BY DEF SummerTime, FirstYear, LastYear
<1>2. DayNumber([y |-> 2027, m |-> 10, d |-> MonthLength(2027, 10)]) = 668
  BY NumbersOfTheYear
<1>3. LastSunday(2027, 10) = 668
  BY <1>2 DEF LastSunday, Weekday
<1> QED BY <1>1, <1>3

LEMMA Art14Day ==
  /\ DayStart(ART14_DATE, "utc") = 6072
  /\ DayStart(ART14_DATE, "europe_brussels") = 6070
<1>1. DayNumber(ART14_DATE) = 253
  <2>1. NewYear[2026] = 0 /\ ~ Leap(2026)
    BY NumbersOfTheYear
  <2>2. FirstOfMonth(2026, 9) = 243
    BY <2>1 DEF FirstOfMonth
  <2> QED BY <2>2 DEF DayNumber, ART14_DATE
<1>2. BrusselsOffset(6070) = 2
  <2>1. 6070 \div 24 = 252 /\ 252 \in Days
    BY DEF Days
  <2>2. YearOf(252) = 2026
    BY <2>1, FirstYears
  <2>3. 6070 \in SummerTime[2026]
    BY SummerOf2026
  <2> QED BY <2>1, <2>2, <2>3 DEF BrusselsOffset
<1> QED BY <1>1, <1>2 DEF DayStart

LEMMA FullDay ==
  /\ DayStart(FULL_APPLICATION_DATE, "utc") = 17016
  /\ DayStart(FULL_APPLICATION_DATE, "europe_brussels") = 17015
<1>1. DayNumber(FULL_APPLICATION_DATE) = 709
  <2>1. NewYear[2027] = 365 /\ ~ Leap(2027)
    BY NumbersOfTheYear
  <2>2. FirstOfMonth(2027, 12) = 699
    BY <2>1 DEF FirstOfMonth
  <2> QED BY <2>2 DEF DayNumber, FULL_APPLICATION_DATE
<1>2. BrusselsOffset(17014) = 1
  <2>1. 17014 \div 24 = 708 /\ 708 \in Days
    BY DEF Days
  <2>2. YearOf(708) = 2027
    BY <2>1, FirstYears
  <2>3. 17014 \notin SummerTime[2027]
    BY SummerOf2027
  <2> QED BY <2>1, <2>2, <2>3 DEF BrusselsOffset
<1> QED BY <1>1, <1>2 DEF DayStart

LEMMA StartIs ==
  ASSUME NEW r \in READINGS
  PROVE  /\ ObligationFrom("manufacturer", r) = Start[r]
         /\ ObligationFrom("open_source_steward", r) = Full[r]
         /\ DayStart(FULL_APPLICATION_DATE, r) = Full[r]
         /\ Start[r] \in Nat /\ Full[r] \in Nat
<1>1. r = "utc" \/ r = "europe_brussels"
  BY DEF READINGS
<1>2. CASE r = "utc"
  BY <1>2, Art14Day, FullDay DEF ObligationFrom, Start, Full
<1>3. CASE r = "europe_brussels"
  BY <1>3, Art14Day, FullDay DEF ObligationFrom, Start, Full
<1> QED BY <1>1, <1>2, <1>3

-----------------------------------------------------------------------------
(* What the readings of the two days decide.                               *)

LEMMA NetIs ==
  ASSUME NEW per, \A r \in READINGS : per[r] \in BOOLEAN
  PROVE  /\ TRUE \in Net(per) <=> \A r \in READINGS : per[r]
         /\ FALSE \in Net(per) <=> \A r \in READINGS : ~ per[r]
         /\ Net(per) = {FALSE} <=> \A r \in READINGS : ~ per[r]
<1>1. per["utc"] \in BOOLEAN /\ per["europe_brussels"] \in BOOLEAN
  BY DEF READINGS
<1>2. \A r : r \in READINGS <=> r = "utc" \/ r = "europe_brussels"
  BY DEF READINGS
<1> QED BY <1>1, <1>2 DEF Net

HidesNothing(rec, t, answer) ==
  LET obliges == {r \in READINGS : Reportable(rec) /\ rec.awareness >= Start[r]}
  IN  /\ answer.flags.overdue = (IF obliges = {} THEN {} ELSE Overdue(rec, t))
      /\ TRUE \in answer.reporting_applicable <=> obliges = READINGS
      /\ FALSE \in answer.reporting_applicable <=> obliges = {}

LEMMA AnswerHidesNothing ==
  ASSUME NEW rec, rec.awareness \in Int, rec.actively_exploited \in BOOLEAN, NEW t
  PROVE  HidesNothing(rec, t, Answer(rec, t))
<1> DEFINE per == [r \in READINGS |-> Obliged(rec, r)]
           obliges == {r \in READINGS : Reportable(rec) /\ rec.awareness >= Start[r]}
<1>1. \A r \in READINGS : per[r] \in BOOLEAN /\ (per[r] <=> r \in obliges)
  BY StartIs DEF Obliged, Reportable
<1>2. /\ Answer(rec, t).reporting_applicable = Net(per)
      /\ Answer(rec, t).flags.overdue = IF Net(per) # {FALSE} THEN Overdue(rec, t) ELSE {}
  BY DEF Answer, Flags
<1>5. obliges \subseteq READINGS
  OBVIOUS
<1> HIDE DEF per, obliges
<1>3. /\ TRUE \in Net(per) <=> \A r \in READINGS : per[r]
      /\ FALSE \in Net(per) <=> \A r \in READINGS : ~ per[r]
      /\ Net(per) = {FALSE} <=> \A r \in READINGS : ~ per[r]
  BY <1>1, NetIs
<1>4. /\ obliges = {} <=> \A r \in READINGS : ~ per[r]
      /\ obliges = READINGS <=> \A r \in READINGS : per[r]
  BY <1>1, <1>5
<1> QED BY <1>2, <1>3, <1>4 DEF obliges, HidesNothing

LEMMA InForceIs ==
  ASSUME NEW role \in ROLES, NEW at \in Int
  PROVE  InForceOK(role, at)
<1> DEFINE start == IF role = "manufacturer" THEN Start ELSE Full
           per == [r \in READINGS |-> at >= ObligationFrom(role, r)]
<1>1. \A r \in READINGS : start[r] \in Nat /\ ObligationFrom(role, r) = start[r]
  BY StartIs DEF ROLES
<1>2. \A r \in READINGS : per[r] \in BOOLEAN /\ (per[r] <=> at >= start[r])
  <2> HIDE DEF start
  <2> SUFFICES ASSUME NEW r \in READINGS
               PROVE  per[r] \in BOOLEAN /\ (per[r] <=> at >= start[r])
    OBVIOUS
  <2>1. per[r] = (at >= start[r])
    BY <1>1, Zenon
  <2>2. (at >= start[r]) \in BOOLEAN
    BY <1>1
  <2> QED BY <2>1, <2>2, Zenon
<1>3. InForce(role, at) = Net(per)
  BY DEF InForce
<1> HIDE DEF per
<1>4. /\ TRUE \in Net(per) <=> \A r \in READINGS : per[r]
      /\ FALSE \in Net(per) <=> \A r \in READINGS : ~ per[r]
  BY <1>2, NetIs
<1>5. \A r \in READINGS : at < start[r] <=> ~(at >= start[r])
  BY <1>1
<1> QED BY <1>2, <1>3, <1>4, <1>5 DEF InForceOK

\* the exit status of `obligations` for a support period that is none or more
LEMMA ObligationsAre ==
  ASSUME NEW placed \in Int, NEW end \in Int, placed < end,
         NEW mod, \A u \in mod : u \in Int /\ placed <= u
  PROVE  ObligationsCode(placed, mod, end, FALSE) = 1
           <=> \E r \in READINGS : /\ \E u \in {placed} \cup mod : u >= Full[r]
                                   /\ ~(end >= YearsAfter(placed, 5, r))
<1>1. ~ \E u \in mod : u < placed
  OBVIOUS
<1>2. SupportStatus(placed, end, FALSE) # "refused"
  <2> DEFINE per == [r \in READINGS |-> SupportReading(placed, end, FALSE, r)]
  <2>1. SupportStatus(placed, end, FALSE) =
          IF Net(per) = {} THEN "depends_on_time_zone_reading" ELSE per["utc"]
    <3>1. ~(end <= placed)
      OBVIOUS
    <3> QED BY <3>1 DEF SupportStatus
  <2>2. per["utc"] # "refused"
    BY DEF SupportReading, READINGS
  <2> HIDE DEF per
  <2> QED BY <2>1, <2>2
<1>3. ObligationsCode(placed, mod, end, FALSE) = 1
        <=> \E r \in READINGS : /\ RequirementsApply(placed, mod, r)
                                /\ SupportReading(placed, end, FALSE, r) = "below_minimum"
  <2> DEFINE Finding == \E r \in READINGS :
                          /\ RequirementsApply(placed, mod, r)
                          /\ SupportReading(placed, end, FALSE, r) = "below_minimum"
  <2>1. ObligationsCode(placed, mod, end, FALSE) = IF Finding THEN 1 ELSE 0
    BY <1>1, <1>2, Zenon DEF ObligationsCode
  <2>2. (IF Finding THEN 1 ELSE 0) = 1 <=> Finding
    <3> HIDE DEF Finding
    <3> QED OBVIOUS
  <2> QED BY <2>1, <2>2
<1>4. ASSUME NEW r \in READINGS
      PROVE  RequirementsApply(placed, mod, r) <=> \E u \in {placed} \cup mod : u >= Full[r]
  BY StartIs DEF RequirementsApply
<1>5. ASSUME NEW r \in READINGS
      PROVE  SupportReading(placed, end, FALSE, r) = "below_minimum"
               <=> ~(end >= YearsAfter(placed, 5, r))
  BY DEF SupportReading
<1> QED BY <1>3, <1>4, <1>5

LEMMA ReasonGiven ==
  ASSUME NEW placed, NEW mod, NEW end
  PROVE  ObligationsCode(placed, mod, end, TRUE) # 1
<1>1. \A r \in READINGS : SupportReading(placed, end, TRUE, r) # "below_minimum"
  BY DEF SupportReading
<1>2. ObligationsCode(placed, mod, end, TRUE) = 2 \/ ObligationsCode(placed, mod, end, TRUE) = 0
  BY <1>1, Zenon DEF ObligationsCode
<1>3. PICK c : c = ObligationsCode(placed, mod, end, TRUE)
  OBVIOUS
<1>4. c # 1
  <2>1. c = 2 \/ c = 0
    BY <1>2, <1>3, Zenon
  <2> QED BY <2>1
<1> QED BY <1>3, <1>4, Zenon

LEMMA ScopeIs ==
  ASSUME NEW placed \in Events, NEW mod, \A u \in mod : u \in Int /\ placed <= u,
         NEW r \in READINGS, NEW k \in -1..1
  PROVE  ScopeOK(placed, mod, YearsAfter(placed, 5, r) + k)
<1>1. placed \in Int
  BY DEF Events
<1>2. PICK end : end = YearsAfter(placed, 5, r) + k
  OBVIOUS
<1>3. end \in Int /\ placed < end /\ end + 1 \in Int /\ placed < end + 1
  <2>1. PICK five \in Nat : five = YearsAfter(placed, 5, r) /\ placed + 1 < five
    BY PeriodEnds
  <2> QED BY <1>1, <1>2, <2>1
<1>4. \A x \in READINGS : YearsAfter(placed, 5, x) \in Nat /\ Full[x] \in Nat
  BY PeriodEnds, StartIs
<1>5. \A x \in READINGS : Full.europe_brussels <= Full[x] /\ Full[x] <= Full.utc
  BY DEF READINGS, Full
<1>6. \A u \in {placed} \cup mod : u \in Int
  BY <1>1
<1> DEFINE Found(e) == ObligationsCode(placed, mod, e, FALSE) = 1
           Below(e) == \E x \in READINGS : /\ \E u \in {placed} \cup mod : u >= Full[x]
                                           /\ ~(e >= YearsAfter(placed, 5, x))
<1>7. Found(end) <=> Below(end)
  BY <1>1, <1>3, ObligationsAre
<1>8. Found(end + 1) <=> Below(end + 1)
  <2>1. PICK e : e = end + 1
    OBVIOUS
  <2>2. Found(e) <=> Below(e)
    BY <1>1, <1>3, <2>1, ObligationsAre
  <2> QED BY <2>1, <2>2
<1>9. Full.europe_brussels \in Nat /\ Full.utc \in Nat
  BY DEF Full
<1>10. (\A u \in {placed} \cup mod : u < Full.europe_brussels) => ~ Below(end)
  <2> SUFFICES ASSUME \A u \in {placed} \cup mod : u < Full.europe_brussels,
                      NEW x \in READINGS, NEW u \in {placed} \cup mod, u >= Full[x]
               PROVE  FALSE
    OBVIOUS
  <2>1. u \in Int /\ u < Full.europe_brussels /\ Full.europe_brussels <= Full[x]
    BY <1>5, <1>6
  <2>2. PICK a \in Nat, b \in Nat : a = Full.europe_brussels /\ b = Full[x]
    BY <1>4, <1>9
  <2> QED BY <2>1, <2>2
<1>11. /\ \E u \in {placed} \cup mod : u >= Full.utc
       /\ \A x \in READINGS : end < YearsAfter(placed, 5, x)
       => Below(end)
  <2> SUFFICES ASSUME NEW u \in {placed} \cup mod, u >= Full.utc,
                      \A x \in READINGS : end < YearsAfter(placed, 5, x)
               PROVE  Below(end)
    OBVIOUS
  <2>1. "utc" \in READINGS
    BY DEF READINGS
  <2>2. ~(end >= YearsAfter(placed, 5, "utc"))
    BY <1>3, <1>4, <2>1
  <2> QED BY <2>1, <2>2
<1>12. Below(end + 1) => Below(end)
  <2> SUFFICES ASSUME NEW x \in READINGS, \E u \in {placed} \cup mod : u >= Full[x],
                      ~(end + 1 >= YearsAfter(placed, 5, x))
               PROVE  Below(end)
    OBVIOUS
  <2>1. ~(end >= YearsAfter(placed, 5, x))
    <3>1. PICK y \in Nat : y = YearsAfter(placed, 5, x)
      BY <1>4
    <3> QED BY <1>3, <3>1
  <2> QED BY <2>1
<1>13. ObligationsCode(placed, mod, end, TRUE) # 1
  BY ReasonGiven
<1> HIDE DEF Below
<1>14. ScopeOK(placed, mod, end)
  <2>1. (\A u \in {placed} \cup mod : u < Full.europe_brussels) => ~ Found(end)
    BY <1>7, <1>10
  <2>2. /\ \E u \in {placed} \cup mod : u >= Full.utc
        /\ \A x \in READINGS : end < YearsAfter(placed, 5, x)
        => Found(end)
    BY <1>7, <1>11
  <2>3. Found(end + 1) => Found(end)
    BY <1>7, <1>8, <1>12
  <2> QED BY <1>13, <2>1, <2>2, <2>3 DEF ScopeOK
<1> QED BY <1>2, <1>14

LEMMA ScopeAround ==
  ASSUME NEW t \in Events
  PROVE  /\ \A placed \in {t} \cup PeriodStarts \cup AroundFull :
              \A mod \in {{}} \cup {{u} : u \in {v \in AroundFull : v >= placed}}, r \in READINGS, k \in -1..1 :
                 ScopeOK(placed, mod, YearsAfter(placed, 5, r) + k)
         /\ \A role \in ROLES, at \in {t} \cup PeriodStarts \cup AroundFull : InForceOK(role, at)
<1>1. AroundFull \subseteq Events /\ PeriodStarts \subseteq Events /\ \A v \in Events : v \in Int
  BY InstantsAreEvents DEF AroundFull, Events
<1>2. ASSUME NEW placed \in {t} \cup PeriodStarts \cup AroundFull,
             NEW mod \in {{}} \cup {{u} : u \in {v \in AroundFull : v >= placed}},
             NEW r \in READINGS, NEW k \in -1..1
      PROVE  ScopeOK(placed, mod, YearsAfter(placed, 5, r) + k)
  <2>1. placed \in Events /\ placed \in Int
    BY <1>1
  <2>2. ASSUME NEW u \in mod
        PROVE  u \in Int /\ placed <= u
    BY <1>1, <2>1
  <2> QED BY <2>1, <2>2, ScopeIs
<1>3. ASSUME NEW role \in ROLES, NEW at \in {t} \cup PeriodStarts \cup AroundFull
      PROVE  InForceOK(role, at)
  <2>1. at \in Int
    BY <1>1
  <2> QED BY <2>1, InForceIs
<1> QED BY <1>2, <1>3

-----------------------------------------------------------------------------
(* Deadlines are instants.                                                 *)

LEMMA MonthAfter ==
  ASSUME NEW t \in Events
  PROVE  AddMonths(t, 1) \in Int
<1>1. PICK n : n = t \div 24
  OBVIOUS
<1>2. IsDate(Date(n)) /\ Date(n).y \in EarlyYears
  <2>1. "utc" \in READINGS
    BY DEF READINGS
  <2>2. LocalDate(t, "utc") = Date(n)
    BY <1>1 DEF LocalDate
  <2> QED BY <2>1, <2>2, EventDay
<1>3. PICK m \in 1..12, y \in EarlyYears, d \in Nat :
        m = Date(n).m /\ y = Date(n).y /\ d = Date(n).d /\ 1 <= d
  <2>1. MonthLength(Date(n).y, Date(n).m) \in 28..31
    BY <1>2, DateInYear
  <2> QED BY <1>2, <2>1 DEF IsDate
<1>4. PICK y2, m2 : y2 = y + ((m - 1 + 1) \div 12) /\ m2 = ((m - 1 + 1) % 12) + 1
  OBVIOUS
<1>5. y2 \in CalendarYears /\ m2 \in 1..12
  BY <1>4 DEF CalendarYears, EarlyYears
<1>6. PICK l \in Nat : l = MonthLength(y2, m2) /\ 1 <= l
  <2>1. MonthLength(y2, m2) \in 28..31
    BY <1>5, MonthsAre
  <2> QED BY <2>1
<1>7. PICK e \in 1..l : e = IF d < l THEN d ELSE l
  BY <1>3, <1>6
<1>8. PICK a : a = [y |-> y2, m |-> m2, d |-> e]
  OBVIOUS
<1>9. DayNumber(a) \in Nat
  <2>1. a.y = y2 /\ a.m = m2 /\ a.d = e /\ a = [y |-> a.y, m |-> a.m, d |-> a.d]
    BY <1>8
  <2>2. IsDate(a)
    BY <1>5, <1>6, <2>1 DEF IsDate
  <2> QED BY <2>2, NumberIsNat, Zenon
<1>10. AddMonths(t, 1) = 24*DayNumber(a) + (t % 24)
  <2> DEFINE At(y0, m0) ==
               24 * DayNumber([y |-> y0, m |-> m0,
                 d |-> IF Date(n).d < MonthLength(y0, m0) THEN Date(n).d ELSE MonthLength(y0, m0)])
                 + (t % 24)
  <2>1. AddMonths(t, 1) = At(Date(n).y + ((Date(n).m - 1 + 1) \div 12),
                             ((Date(n).m - 1 + 1) % 12) + 1)
    BY <1>1 DEF AddMonths
  <2> HIDE DEF At
  <2>2. AddMonths(t, 1) = At(y2, m2)
    BY <1>3, <1>4, <2>1
  <2>3. At(y2, m2) = 24 * DayNumber([y |-> y2, m |-> m2, d |-> IF d < l THEN d ELSE l]) + (t % 24)
    BY <1>3, <1>6 DEF At
  <2> QED BY <1>7, <1>8, <2>2, <2>3
<1> QED BY <1>9, <1>10 DEF Events

\* what a record of these instants says
LEMMA RecordIs ==
  ASSUME NEW rec \in Records
  PROVE  /\ rec.awareness \in Events /\ rec.actively_exploited \in BOOLEAN
         /\ rec.fix \subseteq Events /\ \A s \in STAGES : rec.sent[s] \subseteq Events
<1>1. rec \in VulnerabilityRecord(Products, Ids, Instants)
  BY NoticesAssumption
<1> DEFINE option == {{}} \cup {{t} : t \in Instants}
<1>2. /\ rec.awareness \in Instants /\ rec.actively_exploited \in BOOLEAN
      /\ rec.fix \in option /\ rec.sent \in [STAGES -> option]
  BY <1>1 DEF VulnerabilityRecord
<1>3. \A x \in option : x \subseteq Events
  BY InstantsAreEvents
<1> QED BY <1>2, <1>3, InstantsAreEvents

LEMMA DeadlinesAre ==
  ASSUME NEW rec \in Records, NEW s \in STAGES
  PROVE  Deadlines(rec)[s] \subseteq Int
<1>1. /\ rec.awareness \in Int /\ \A t \in rec.fix : t \in Int
      /\ \A t \in rec.sent["notification"] : t \in Events
  BY RecordIs DEF Events, STAGES
<1>2. \A t \in rec.sent["notification"] : AddMonths(t, 1) \in Int
  BY <1>1, MonthAfter
<1>3. CASE s = "early_warning"
  BY <1>1, <1>3 DEF Deadlines, EARLY_WARNING_HOURS
<1>4. CASE s = "notification"
  BY <1>1, <1>4 DEF Deadlines, NOTIFICATION_HOURS
<1>5. CASE s = "final_report"
  BY <1>1, <1>2, <1>5 DEF Deadlines, FINAL_REPORT_HOURS_AFTER_FIX
<1> QED BY <1>3, <1>4, <1>5 DEF STAGES

\* what was overdue, and was not sent before that was noticed, is overdue or late
LEMMA StaysOverdue ==
  ASSUME NEW a \in Records, NEW b \in Records, SameEvent(a, b),
         NEW t \in Int, NEW u \in Int, t <= u, NEW s \in Answer(a, t).flags.overdue
  PROVE  \/ s \in Answer(b, u).flags.overdue \cup Answer(b, u).flags.late
         \/ \E v \in b.sent[s] : v < t
<1> DEFINE pa == [r \in READINGS |-> Obliged(a, r)]
           pb == [r \in READINGS |-> Obliged(b, r)]
<1>1. /\ a.kind = b.kind /\ a.awareness = b.awareness
      /\ a.actively_exploited = b.actively_exploited /\ a.fix = b.fix
      /\ a.kind = "incident" => a.sent["notification"] = b.sent["notification"]
  BY DEF SameEvent
<1>2. pa = pb
  BY <1>1 DEF Obliged, Reportable
<1> HIDE DEF pa, pb
<1>3. /\ Answer(a, t).flags.overdue = IF Net(pa) # {FALSE} THEN Overdue(a, t) ELSE {}
      /\ Answer(b, u).flags.overdue = IF Net(pb) # {FALSE} THEN Overdue(b, u) ELSE {}
      /\ Answer(b, u).flags.late = IF Net(pb) # {FALSE} THEN Late(b) ELSE {}
  BY DEF Answer, Flags, pa, pb
<1>4. Net(pb) # {FALSE} /\ s \in Overdue(a, t)
  BY <1>2, <1>3
<1>5. s \in STAGES
  BY <1>4 DEF Overdue
<1>6. PICK due \in Deadlines(a)[s] : t > due
  BY <1>4 DEF Overdue
<1>7. due \in Int /\ \A v \in b.sent[s] : v \in Int
  BY <1>5, DeadlinesAre, RecordIs DEF Events
<1>8. due \in Deadlines(b)[s]
  BY <1>1, <1>5, <1>6 DEF Deadlines, STAGES
<1>9. CASE b.sent[s] = {}
  <2>1. u > due
    BY <1>6, <1>7
  <2>2. s \in Overdue(b, u)
    BY <1>5, <1>8, <1>9, <2>1 DEF Overdue
  <2> QED BY <1>3, <1>4, <2>2
<1>10. ASSUME NEW v \in b.sent[s], ~(v < t)
       PROVE  s \in Answer(b, u).flags.late
  <2>1. v > due
    BY <1>6, <1>7, <1>10
  <2>2. s \in Late(b)
    BY <1>5, <1>8, <2>1 DEF Late
  <2> QED BY <1>3, <1>4, <2>2
<1> QED BY <1>9, <1>10

-----------------------------------------------------------------------------
(* What the ledger and the drafts are made of.                             *)

VulnEntries ==
  {[entry |-> "cra_vuln", rec |-> r, at |-> t, answer |-> Answer(r, t)] :
     r \in Records, t \in Instants}

\* the values a field may have, and the fields of a stream with such values
Values == {{}} \cup UNION {{p.fields[k] : k \in Fields(p.stream)} : p \in Payloads}
Filled == UNION {[Fields(s) -> Values] : s \in STREAMS}

NoticeEntries ==
  [entry : {"cra_srp_notice"}, stream : STREAMS, stage : STAGES, fields : Filled,
   complete : BOOLEAN, deadline : SUBSET Int, bound : SUBSET Nat, reason : BOOLEAN,
   begun : Nat, sure : Nat, lost : SUBSET Nat, from : Nat]

RecordDrafts == [step : {"evaluated"}, made : VulnEntries]

Drafts ==
  [step : {"built", "reading", "scanned"}, entry : {"cra_srp_notice"}, stream : STREAMS,
   stage : STAGES, fields : Filled, reason : BOOLEAN, bound : SUBSET Nat, read : SUBSET Nat,
   upto : Nat, begun : Nat, sure : Nat, lost : SUBSET Nat, from : Nat]

TypePart ==
  /\ now \in Instants
  /\ log \in Seq(VulnEntries \cup NoticeEntries)
  /\ Len(log) <= MaxLog
  /\ kept \in 0..Len(log) /\ gone \subseteq 1..Len(log)
  /\ draft \in [Users -> RecordDrafts \cup Drafts \cup {NoDraft}]

\* what holds of a draft and of the notice made from it
Dates(stream) == {"awareness_datetime_utc", "corrective_available_date"} \cap Fields(stream)
Stated(stream, fields) ==
  /\ fields \in [Fields(stream) -> Values]
  /\ \A k \in Dates(stream) : fields[k] \subseteq Nat /\ \A t, u \in fields[k] : t = u
  /\ \A t \in Awareness(fields) : t <= now

FieldsOK(d) == Stated(d.stream, d.fields)

\* what the stage before says is carried on
SourceOK(d, n) ==
  /\ d.from \in 0..n
  /\ d.from # 0 =>
       /\ log[d.from].entry = "cra_srp_notice"
       /\ log[d.from].stream = d.stream
       /\ Order[log[d.from].stage] = Order[d.stage] - 1
       /\ \A k \in Fields(d.stream) :
            log[d.from].fields[k] # {} /\ Code(d.stream, k)[Order[d.stage]] = "C"
              => d.fields[k] # {}

\* what was answered for when the ledger was opened is never taken back
CallOK(d, n) ==
  /\ d.begun <= n
  /\ d.sure <= kept
  /\ d.lost \subseteq gone
  /\ gone \cap 1..d.sure \subseteq d.lost

\* the first part holds what is left of it, and nothing that was gone before
ReadOK(d) ==
  /\ d.upto <= Len(log)
  /\ d.read \subseteq 1..d.upto
  /\ Standing(d.upto) \subseteq d.read
  /\ d.read \cap d.lost = {}

BindsAs(d, n) ==
  /\ d.bound \subseteq {j \in 1..n : log[j].entry = "cra_vuln"}
  /\ ~ d.reason => \A j \in d.bound : Awareness(d.fields) = {log[j].rec.awareness}
  /\ Accounts(d, Standing(d.sure))
  /\ gone \cap 1..n \subseteq d.lost =>
       \E m \in d.begun..n : d.bound = BoundTo(NoticeIds(d), Standing(m))

Ready(d) == d.step = "scanned" \/ (d.step = "built" /\ NoticeIds(d) = {})

DraftOK(d) ==
  /\ FieldsOK(d)
  /\ SourceOK(d, Len(log))
  /\ CallOK(d, Len(log))
  /\ d.step = "reading" => ReadOK(d)
  /\ Ready(d) => BindsAs(d, Len(log))

NoticeOK(d, i) ==
  /\ FieldsOK(d)
  /\ SourceOK(d, i - 1)
  /\ CallOK(d, i - 1)
  /\ BindsAs(d, i - 1)
  /\ d.complete = (Missing(d.stream, d.stage, d.fields) = {})
  /\ d.deadline = Deadline(d.stream, d.stage, d.fields)

MadeOK(e) == e.at <= now /\ Accepted(e.rec, e.at)

DraftsOK ==
  \A u \in Users :
    /\ draft[u] \in RecordDrafts => MadeOK(draft[u].made)
    /\ draft[u] \in Drafts => DraftOK(draft[u])
NoticesOK == \A i \in Recorded("cra_srp_notice") : NoticeOK(log[i], i)
RecordsOK == \A i \in Recorded("cra_vuln") : MadeOK(log[i])

NInv == TypePart /\ DraftsOK /\ NoticesOK /\ RecordsOK

-----------------------------------------------------------------------------
(* Appending, taking back, and what was there before.                      *)

LEMMA Appended ==
  ASSUME NEW S, NEW s \in Seq(S), NEW e \in S
  PROVE  /\ Append(s, e) \in Seq(S)
         /\ Len(Append(s, e)) = Len(s) + 1
         /\ \A i \in 1..Len(s) : Append(s, e)[i] = s[i]
         /\ Append(s, e)[Len(s) + 1] = e
OBVIOUS

LEMMA InstantsAre == \A t \in Instants : t \in Nat
BY NoticesAssumption

\* every stream states an awareness, and every field a value of its own
LEMMA FieldNames ==
  ASSUME NEW s \in STREAMS
  PROVE  "awareness_datetime_utc" \in Dates(s)
BY DEF Dates, STREAMS, Fields, OwnFields, VULN_FIELDS, INCIDENT_FIELDS

LEMMA StatedInstants ==
  ASSUME NEW s \in STREAMS, NEW f, Stated(s, f)
  PROVE  /\ \A t \in Awareness(f) : t \in Nat
         /\ \A t, u \in Awareness(f) : t = u
BY FieldNames DEF Stated, Awareness

\* a set of numbers up to n that is not empty has a greatest one
LEMMA GreatestOf ==
  ASSUME NEW n \in Nat, NEW T, T \subseteq 1..n, T # {}
  PROVE  \E m \in T : \A k \in T : k <= m
<1> DEFINE R == OpToRel(<, Nat)
           U == {n - k : k \in T}
<1>1. IsWellFoundedOn(R, Nat)
  BY NatLessThanWellFounded
<1>2. \A x, y \in Nat : x < y => <<x, y>> \in R
  BY DEF OpToRel
<1> HIDE DEF R
<1>3. U \subseteq Nat /\ U # {}
  <2>1. \A k \in T : n - k \in Nat
    OBVIOUS
  <2> QED BY <2>1
<1>4. PICK x \in U : \A y \in U : ~(<<y, x>> \in R)
  BY <1>1, <1>3, WFMin
<1>5. PICK m \in T : x = n - m
  OBVIOUS
<1>6. ASSUME NEW k \in T, ~(k <= m) PROVE FALSE
  <2>1. n - k \in U /\ n - k \in Nat /\ x \in Nat /\ n - k < x
    BY <1>3, <1>5, <1>6
  <2> QED BY <1>2, <1>4, <2>1
<1> QED BY <1>6

\* each record that was read is bound, or a later one of its vulnerability is
LEMMA LastIsBound ==
  ASSUME NEW n \in Nat, NEW S, S \subseteq 1..n, NEW ids,
         NEW i \in Vulns(S), log[i].rec.vuln_id \in ids
  PROVE  \E j \in BoundTo(ids, S) : j >= i /\ log[j].rec.vuln_id = log[i].rec.vuln_id
<1> DEFINE T == {j \in Vulns(S) : log[j].rec.vuln_id = log[i].rec.vuln_id}
<1>1. T \subseteq 1..n /\ i \in T
  BY DEF Vulns
<1>2. PICK m \in T : \A k \in T : k <= m
  BY <1>1, GreatestOf
<1>3. m \in BoundTo(ids, S)
  BY <1>2 DEF BoundTo
<1>4. i <= m /\ i \in Int /\ m \in Int
  BY <1>1, <1>2
<1> QED BY <1>2, <1>3, <1>4

\* entries that stay where they are are bound to as before
LEMMA BoundStays ==
  ASSUME NEW S, \A i \in S : log'[i] = log[i], NEW ids
  PROVE  BoundTo(ids, S)' = BoundTo(ids, S)
<1>1. Vulns(S)' = Vulns(S)
  BY DEF Vulns
<1>2. \A i \in Vulns(S) : log'[i] = log[i]
  BY DEF Vulns
<1> QED BY <1>1, <1>2 DEF BoundTo

LEMMA BoundIsVulns ==
  ASSUME NEW S, NEW ids
  PROVE  BoundTo(ids, S) \subseteq {i \in S : log[i].entry = "cra_vuln"}
BY DEF BoundTo, Vulns

\* the clock goes on, the ledger grows, what is answered for stays
Grows ==
  /\ now' \in Instants /\ now <= now'
  /\ log' \in Seq(VulnEntries \cup NoticeEntries)
  /\ Len(log) <= Len(log') /\ \A i \in 1..Len(log) : log'[i] = log[i]
  /\ kept' \in 0..Len(log') /\ kept <= kept'
  /\ gone \subseteq gone' /\ gone' \subseteq 1..Len(log')
  /\ \A k \in gone' : k \in gone \/ kept < k

LEMMA SourceStays ==
  ASSUME NEW n \in Nat, NEW m \in Nat, n <= m, \A i \in 1..n : log'[i] = log[i], NEW d, SourceOK(d, n)
  PROVE  SourceOK(d, m)'
BY DEF SourceOK

LEMMA FieldsStay ==
  ASSUME now \in Instants, Grows, NEW d, d.stream \in STREAMS, FieldsOK(d)
  PROVE  FieldsOK(d)'
<1>1. now \in Nat /\ now' \in Nat /\ now <= now'
  BY InstantsAre DEF Grows
<1>2. Stated(d.stream, d.fields) /\ \A t \in Awareness(d.fields) : t \in Nat
  BY StatedInstants DEF FieldsOK
<1> QED BY <1>1, <1>2 DEF FieldsOK, Stated

LEMMA CallStays ==
  ASSUME TypePart, Grows, NEW n \in Nat, NEW m \in Nat, n <= m,
         NEW d, d.begun \in Nat, d.sure \in Nat, CallOK(d, n)
  PROVE  CallOK(d, m)'
<1>1. kept \in Nat /\ kept' \in Nat /\ kept <= kept'
  BY DEF TypePart, Grows
<1>2. d.begun <= m /\ d.sure <= kept'
  BY <1>1 DEF CallOK
<1>3. d.lost \subseteq gone'
  BY DEF CallOK, Grows
<1>4. ASSUME NEW k \in gone', k \in 1..d.sure
      PROVE  k \in d.lost
  <2>1. k \in Nat /\ k <= kept
    BY <1>1, <1>4 DEF CallOK
  <2>2. k \in gone
    BY <1>1, <2>1 DEF Grows
  <2> QED BY <1>4, <2>2 DEF CallOK
<1> QED BY <1>2, <1>3, <1>4 DEF CallOK

LEMMA ReadStays ==
  ASSUME TypePart, Grows, NEW d, d.upto \in Nat, ReadOK(d)
  PROVE  ReadOK(d)'
<1>1. d.upto <= Len(log')
  BY DEF TypePart, Grows, ReadOK
<1>2. \A k \in 1..d.upto : k \notin gone' => k \in Standing(d.upto)
  BY DEF Grows, Standing
<1> QED BY <1>1, <1>2 DEF ReadOK, Standing

LEMMA BindsStays ==
  ASSUME TypePart, Grows, NEW n \in Nat, NEW m \in Nat, n <= m, n <= Len(log),
         NEW d, d.begun \in Nat, d.sure \in Nat, CallOK(d, n), BindsAs(d, n)
  PROVE  BindsAs(d, m)'
<1>1. Len(log) \in Nat /\ \A i \in 1..Len(log) : log'[i] = log[i]
  BY DEF TypePart, Grows
<1>2. \A i \in 1..n : log'[i] = log[i] /\ i \in 1..m
  BY <1>1
<1>3. \A j \in d.bound : j \in 1..n /\ log[j].entry = "cra_vuln"
  BY DEF BindsAs
<1>4. d.bound \subseteq {j \in 1..m : log'[j].entry = "cra_vuln"}
  BY <1>2, <1>3
<1>5. ~ d.reason => \A j \in d.bound : Awareness(d.fields) = {log'[j].rec.awareness}
  BY <1>2, <1>3 DEF BindsAs
<1>6. Accounts(d, Standing(d.sure))'
  <2> SUFFICES ASSUME NEW i \in Vulns(Standing(d.sure))', log'[i].rec.vuln_id \in NoticeIds(d)
               PROVE  \E j \in d.bound : j >= i /\ log'[j].rec.vuln_id = log'[i].rec.vuln_id
    BY DEF Accounts, NoticeIds
  <2>1. i \in 1..d.sure /\ i \notin gone'
    BY DEF Vulns, Standing
  <2>2. i \in 1..Len(log) /\ i \notin gone
    BY <1>1, <2>1 DEF Grows, CallOK, TypePart
  <2>3. i \in Vulns(Standing(d.sure)) /\ log[i].rec.vuln_id \in NoticeIds(d)
    BY <1>1, <2>1, <2>2 DEF Vulns, Standing
  <2>4. PICK j \in d.bound : j >= i /\ log[j].rec.vuln_id = log[i].rec.vuln_id
    BY <2>3 DEF BindsAs, Accounts
  <2> QED BY <1>1, <1>2, <1>3, <2>2, <2>4
<1>7. ASSUME gone' \cap 1..m \subseteq d.lost
      PROVE  \E p \in d.begun..m : d.bound = BoundTo(NoticeIds(d), Standing(p))'
  <2>1. gone \cap 1..n \subseteq d.lost
    BY <1>2, <1>7 DEF Grows
  <2>2. PICK p \in d.begun..n : d.bound = BoundTo(NoticeIds(d), Standing(p))
    BY <2>1 DEF BindsAs
  <2>3. p \in Nat /\ p <= n /\ p \in d.begun..m
    BY <2>2
  <2>4. \A k \in 1..p : k \in gone' <=> k \in gone
    BY <1>7, <2>3 DEF Grows, CallOK
  <2>5. PICK S : S = Standing(p)
    OBVIOUS
  <2>6. Standing(p)' = S
    BY <2>4, <2>5 DEF Standing
  <2>7. \A i \in S : log'[i] = log[i]
    BY <1>2, <2>3, <2>5 DEF Standing
  <2>8. BoundTo(NoticeIds(d), S)' = BoundTo(NoticeIds(d), S)
    BY <2>7, BoundStays
  <2>9. BoundTo(NoticeIds(d), Standing(p))' = BoundTo(NoticeIds(d), S)'
    BY <2>6 DEF BoundTo, Vulns, NoticeIds
  <2> QED BY <2>2, <2>3, <2>5, <2>8, <2>9
<1> QED BY <1>4, <1>5, <1>6, <1>7 DEF BindsAs

LEMMA DraftStays ==
  ASSUME TypePart, Grows, NEW d \in Drafts, DraftOK(d)
  PROVE  DraftOK(d)'
<1> DEFINE n == Len(log)
<1>1. PICK m : m = Len(log')
  OBVIOUS
<1>2. /\ n \in Nat /\ m \in Nat /\ n <= m /\ n <= Len(log) /\ (\A i \in 1..n : log'[i] = log[i])
      /\ d.begun \in Nat /\ d.sure \in Nat /\ d.upto \in Nat /\ d.stream \in STREAMS
      /\ now \in Instants
  BY <1>1 DEF TypePart, Grows, Drafts
<1>3. /\ FieldsOK(d) /\ SourceOK(d, n) /\ CallOK(d, n) /\ (d.step = "reading" => ReadOK(d))
      /\ (Ready(d) => BindsAs(d, n))
  BY DEF DraftOK
<1> HIDE DEF n
<1>4. FieldsOK(d)'
  BY <1>2, <1>3, FieldsStay
<1>5. SourceOK(d, m)'
  BY <1>2, <1>3, SourceStays
<1>6. CallOK(d, m)'
  BY <1>2, <1>3, CallStays
<1>7. d.step = "reading" => ReadOK(d)'
  BY <1>2, <1>3, ReadStays
<1>8. Ready(d) => BindsAs(d, m)'
  BY <1>2, <1>3, BindsStays
<1>9. Ready(d)' = Ready(d)
  BY DEF Ready, NoticeIds
<1> QED BY <1>1, <1>4, <1>5, <1>6, <1>7, <1>8, <1>9 DEF DraftOK, SourceOK, CallOK, BindsAs

LEMMA NoticeStays ==
  ASSUME TypePart, Grows, NEW i \in 1..Len(log), NEW d \in NoticeEntries, NoticeOK(d, i)
  PROVE  NoticeOK(d, i)'
<1>1. PICK n : n = i - 1
  OBVIOUS
<1>2. /\ n \in Nat /\ n <= n /\ n <= Len(log) /\ Len(log) \in Nat
      /\ d.begun \in Nat /\ d.sure \in Nat /\ d.stream \in STREAMS /\ now \in Instants
  BY <1>1 DEF NoticeEntries, TypePart
<1>3. \A j \in 1..n : log'[j] = log[j]
  BY <1>2 DEF Grows
<1>4. FieldsOK(d) /\ SourceOK(d, n) /\ CallOK(d, n) /\ BindsAs(d, n)
  BY <1>1 DEF NoticeOK
<1>5. FieldsOK(d)'
  BY <1>2, <1>4, FieldsStay
<1>6. SourceOK(d, n)'
  BY <1>2, <1>3, <1>4, SourceStays
<1>7. CallOK(d, n)'
  BY <1>2, <1>4, CallStays
<1>8. BindsAs(d, n)'
  BY <1>2, <1>4, BindsStays
<1> QED BY <1>1, <1>5, <1>6, <1>7, <1>8 DEF NoticeOK

LEMMA MadeStays ==
  ASSUME now \in Instants, Grows, NEW e \in VulnEntries, MadeOK(e)
  PROVE  MadeOK(e)'
<1>1. now \in Nat /\ now' \in Nat /\ now <= now' /\ e.at \in Nat
  BY InstantsAre DEF Grows, VulnEntries
<1> QED BY <1>1 DEF MadeOK

-----------------------------------------------------------------------------
(* One lemma for each step that makes something.                           *)

LEMMA EntryIs ==
  ASSUME TypePart, NEW i \in 1..Len(log)
  PROVE  /\ log[i] \in VulnEntries \cup NoticeEntries
         /\ log[i].entry = "cra_vuln" <=> log[i] \in VulnEntries
         /\ log[i].entry = "cra_srp_notice" <=> log[i] \in NoticeEntries
<1>1. log[i] \in VulnEntries \cup NoticeEntries
  BY DEF TypePart
<1> QED BY <1>1 DEF VulnEntries, NoticeEntries

\* entries stay right
LEMMA EntryStays ==
  ASSUME NInv, Grows, NEW i \in 1..Len(log)
  PROVE  /\ log[i].entry = "cra_srp_notice" => NoticeOK(log[i], i)'
         /\ log[i].entry = "cra_vuln" => MadeOK(log[i])'
<1>1. PICK e : e = log[i]
  OBVIOUS
<1>2. log'[i] = e
  BY <1>1 DEF Grows
<1>3. ASSUME e.entry = "cra_srp_notice"
      PROVE  NoticeOK(e, i)'
  <2>1. e \in NoticeEntries /\ NoticeOK(log[i], i)
    BY <1>1, <1>3, EntryIs DEF NInv, NoticesOK, Recorded
  <2>2. NoticeOK(e, i)
    BY <1>1, <2>1
  <2> QED BY <2>1, <2>2, NoticeStays DEF NInv
<1>4. ASSUME e.entry = "cra_vuln"
      PROVE  MadeOK(e)'
  <2>1. e \in VulnEntries /\ MadeOK(log[i])
    BY <1>1, <1>4, EntryIs DEF NInv, RecordsOK, Recorded
  <2>2. MadeOK(e)
    BY <1>1, <2>1
  <2> QED BY <2>1, <2>2, MadeStays DEF NInv, TypePart
<1> QED BY <1>1, <1>2, <1>3, <1>4

\* nothing is appended
LEMMA SameLog ==
  ASSUME NInv, Grows, log' = log
  PROVE  NoticesOK' /\ RecordsOK'
<1>1. \A e : Recorded(e)' = Recorded(e) /\ Recorded(e) = {i \in 1..Len(log) : log[i].entry = e}
  BY DEF Recorded
<1>2. \A i \in 1..Len(log) :
        /\ log[i].entry = "cra_srp_notice" => NoticeOK(log[i], i)'
        /\ log[i].entry = "cra_vuln" => MadeOK(log[i])'
  BY EntryStays
<1> QED BY <1>1, <1>2 DEF NoticesOK, RecordsOK

\* SRPNotice: what is carried from the notice before
LEMMA CarriedType ==
  ASSUME NEW p \in Payloads, NEW stage \in STAGES, NEW prev, Stated(p.stream, prev),
         NEW fields, fields = Carried(p.stream, stage, p.fields, prev),
         \A t \in Awareness(fields) : t <= now
  PROVE  Stated(p.stream, fields)
<1>1. p.stream \in STREAMS /\ \A k \in Fields(p.stream) : p.fields[k] \in Values
  BY PayloadsAssumption DEF Values
<1>2. fields \in [Fields(p.stream) -> Values]
  BY <1>1 DEF Carried, Stated
<1>3. \A k \in Dates(p.stream) : fields[k] = prev[k] \/ fields[k] = p.fields[k]
  BY DEF Carried, Dates
<1>4. \A k \in Dates(p.stream) :
        p.fields[k] \subseteq Nat /\ \A t, u \in p.fields[k] : t = u
  BY PayloadsAssumption DEF Dates
<1> QED BY <1>2, <1>3, <1>4 DEF Stated

LEMMA BuildOK ==
  ASSUME NInv, NEW u \in Users, NEW p \in Payloads, NEW stage, stage = p.stage, Build(u, p)
  PROVE  \E d \in Drafts : draft' = [draft EXCEPT ![u] = d] /\ DraftOK(d)'
<1> DEFINE Made(from, fields) ==
             [step |-> "built", entry |-> "cra_srp_notice", stream |-> p.stream,
              stage |-> stage, fields |-> fields, reason |-> p.reason, bound |-> {},
              read |-> {}, upto |-> 0, begun |-> 0, sure |-> 0, lost |-> {}, from |-> from]
<1>1. PICK from \in {0} \cup Previous(p.stream, stage) :
        LET fields == Carried(p.stream, stage, p.fields,
                              IF from = 0 THEN Empty(p.stream) ELSE log[from].fields)
        IN  /\ \A t \in Awareness(fields) : t <= now
            /\ draft' = [draft EXCEPT ![u] = Made(from, fields)]
  BY DEF Build
<1>2. PICK prev : prev = IF from = 0 THEN Empty(p.stream) ELSE log[from].fields
  OBVIOUS
<1>3. PICK fields : fields = Carried(p.stream, stage, p.fields, prev)
  OBVIOUS
<1>14. PICK d : d = Made(from, fields)
  OBVIOUS
<1>4. /\ \A t \in Awareness(fields) : t <= now
      /\ draft' = [draft EXCEPT ![u] = d]
  BY <1>1, <1>2, <1>3, <1>14
<1>5. /\ p.stream \in STREAMS /\ stage \in STAGES /\ p.reason \in BOOLEAN
      /\ \A k \in Fields(p.stream) : p.fields[k] \in Values
  BY PayloadsAssumption DEF Values
<1>6. Len(log) \in Nat /\ now' = now /\ log' = log /\ kept' = kept /\ gone' = gone
  BY DEF NInv, TypePart, Build, ledgerVars
<1>7. ASSUME from # 0
      PROVE  /\ from \in 1..Len(log) /\ log[from] \in NoticeEntries
             /\ log[from].entry = "cra_srp_notice" /\ log[from].stream = p.stream
             /\ Order[log[from].stage] = Order[stage] - 1
             /\ FieldsOK(log[from])
  <2>1. from \in Previous(p.stream, stage)
    BY <1>7
  <2>2. from \in 1..Len(log) /\ log[from].entry = "cra_srp_notice"
    BY <2>1 DEF Previous
  <2> QED BY <2>1, <2>2, EntryIs DEF Previous, NInv, NoticesOK, NoticeOK, Recorded
<1>8. Stated(p.stream, prev)
  <2>1. CASE from = 0
    <3>1. prev = [k \in Fields(p.stream) |-> {}] /\ {} \in Values
      BY <1>2, <2>1 DEF Empty, Values
    <3>2. \A k \in Dates(p.stream) : prev[k] = {}
      BY <3>1 DEF Dates
    <3>3. Awareness(prev) = {}
      BY <1>5, <3>2, FieldNames DEF Awareness
    <3> QED BY <3>1, <3>2, <3>3 DEF Stated
  <2>2. CASE from # 0
    BY <1>2, <1>7, <2>2 DEF FieldsOK
  <2> QED BY <2>1, <2>2
<1>9. Stated(p.stream, fields)
  BY <1>3, <1>4, <1>5, <1>8, CarriedType DEF NInv, TypePart
<1>10. d \in Drafts /\ d.step = "built" /\ d.bound = {} /\ d.begun = 0 /\ d.sure = 0 /\ d.lost = {}
       /\ d.stream = p.stream /\ d.fields = fields /\ d.stage = stage /\ d.from = from
  <2>1. fields \in Filled
    BY <1>5, <1>9 DEF Filled, Stated
  <2>2. from \in Nat
    BY <1>6, <1>7
  <2> QED BY <1>5, <1>6, <1>14, <2>1, <2>2 DEF Drafts
<1> HIDE DEF Made
<1>11. FieldsOK(d)
  BY <1>9, <1>10 DEF FieldsOK
<1>12. SourceOK(d, Len(log))
  <2>1. from # 0 => \A k \in Fields(p.stream) :
          log[from].fields[k] # {} /\ Code(p.stream, k)[Order[stage]] = "C" => fields[k] # {}
    BY <1>2, <1>3 DEF Carried
  <2>2. from \in 0..Len(log)
    BY <1>6, <1>7
  <2> QED BY <1>6, <1>7, <1>10, <2>1, <2>2 DEF SourceOK
<1>15. CallOK(d, Len(log))
  BY <1>6, <1>10 DEF CallOK, NInv, TypePart
<1>16. ASSUME Ready(d)
       PROVE  BindsAs(d, Len(log))
  <2>1. NoticeIds(d) = {}
    BY <1>10, <1>16 DEF Ready
  <2>2. BoundTo(NoticeIds(d), Standing(0)) = {}
    BY <2>1 DEF BoundTo
  <2>3. Accounts(d, Standing(d.sure))
    BY <2>1 DEF Accounts
  <2>4. 0 \in d.begun..Len(log)
    BY <1>6, <1>10
  <2> QED BY <1>10, <2>2, <2>3, <2>4 DEF BindsAs
<1>17. DraftOK(d)
  BY <1>10, <1>11, <1>12, <1>15, <1>16 DEF DraftOK
<1>18. Grows
  BY <1>6, InstantsAre DEF Grows, NInv, TypePart
<1>13. DraftOK(d)'
  BY <1>10, <1>17, <1>18, DraftStays DEF NInv
<1> QED BY <1>4, <1>10, <1>13

\* record_notice opens the ledger and has read a first part of it
LEMMA OpenOK ==
  ASSUME NInv, NEW u \in Users, NEW n \in 0..Len(log), OpenLedger(u, n)
  PROVE  \E d \in Drafts : draft' = [draft EXCEPT ![u] = d] /\ DraftOK(d)'
<1>1. draft[u] \in Drafts /\ draft[u].step = "built" /\ DraftOK(draft[u]) /\ Len(log) \in Nat
      /\ n \in Nat /\ n <= Len(log)
  BY DEF NInv, DraftsOK, TypePart, OpenLedger, NoDraft, RecordDrafts
<1>2. PICK o : o = draft[u]
  OBVIOUS
<1>3. PICK d : d = [o EXCEPT !.step = "reading", !.read = Standing(n), !.upto = n,
                             !.begun = Len(log), !.sure = kept, !.lost = gone]
  OBVIOUS
<1>4. draft' = [draft EXCEPT ![u] = d] /\ now' = now /\ log' = log /\ kept' = kept /\ gone' = gone
  BY <1>2, <1>3 DEF OpenLedger, ledgerVars
<1>5. Standing(n) \subseteq Nat /\ kept \in Nat /\ kept <= Len(log) /\ gone \subseteq Nat
      /\ Standing(n) \subseteq 1..n /\ Standing(n) \cap gone = {}
  BY <1>1 DEF Standing, NInv, TypePart
<1>6. o \in Drafts /\ FieldsOK(o) /\ SourceOK(o, Len(log))
  BY <1>1, <1>2 DEF DraftOK
<1>7. /\ d \in Drafts /\ d.step = "reading" /\ d.read = Standing(n) /\ d.upto = n
      /\ d.begun = Len(log) /\ d.sure = kept /\ d.lost = gone
      /\ d.stream = o.stream /\ d.fields = o.fields /\ d.stage = o.stage /\ d.from = o.from
  BY <1>1, <1>3, <1>5, <1>6 DEF Drafts
<1>8. FieldsOK(d) /\ SourceOK(d, Len(log))
  BY <1>6, <1>7 DEF FieldsOK, SourceOK
<1>9. CallOK(d, Len(log)) /\ ReadOK(d)
  BY <1>1, <1>5, <1>7 DEF CallOK, ReadOK
<1>10. DraftOK(d)
  BY <1>7, <1>8, <1>9 DEF DraftOK, Ready
<1>11. Grows
  BY <1>4, InstantsAre DEF Grows, NInv, TypePart
<1>12. DraftOK(d)'
  BY <1>7, <1>10, <1>11, DraftStays DEF NInv
<1> QED BY <1>4, <1>7, <1>12

\* what has been read in the end: all that was answered for, and everything
\* that is there if nothing has been taken back
LEMMA ReadIs ==
  ASSUME TypePart, NEW d \in Drafts, ReadOK(d), CallOK(d, Len(log)), NEW rest \in Rest(d),
         NEW S, S = d.read \cup rest
  PROVE  /\ S \subseteq 1..Len(log)
         /\ Standing(d.sure) \subseteq S
         /\ gone \cap 1..Len(log) \subseteq d.lost => S = Standing(Len(log))
<1>1. Len(log) \in Nat /\ d.upto \in Nat /\ d.sure \in Nat /\ kept \in Nat /\ kept <= Len(log)
  BY DEF TypePart, Drafts
<1>2. PICK k \in d.upto + 1..Len(log) + 1 :
        /\ d.read \cap gone = {} => k = d.upto + 1
        /\ rest = Standing(Len(log)) \cap k..Len(log)
  BY DEF Rest
<1>3. d.upto <= Len(log) /\ d.read \subseteq 1..d.upto /\ Standing(d.upto) \subseteq d.read
      /\ d.read \cap d.lost = {}
  BY DEF ReadOK
<1>4. S \subseteq 1..Len(log)
  BY <1>1, <1>2, <1>3
<1>5. ASSUME d.read \cap gone = {}
      PROVE  S = Standing(Len(log))
  <2>1. \A i \in d.read : i \in 1..Len(log) /\ i \notin gone
    BY <1>1, <1>3, <1>5
  <2>2. \A i \in 1..Len(log) : i \in 1..d.upto \/ i \in d.upto + 1..Len(log)
    BY <1>1
  <2>3. \A i \in 1..d.upto : i \notin gone => i \in d.read
    BY <1>3 DEF Standing
  <2>4. rest = Standing(Len(log)) \cap d.upto + 1..Len(log)
    BY <1>2, <1>5
  <2> QED BY <2>1, <2>2, <2>3, <2>4 DEF Standing
<1>6. Standing(d.sure) \subseteq S
  <2>1. d.sure <= Len(log)
    BY <1>1 DEF CallOK
  <2>2. CASE d.read \cap gone = {}
    BY <1>1, <1>5, <2>1, <2>2 DEF Standing
  <2>3. CASE d.read \cap gone # {}
    <3>1. PICK x \in d.read : x \in gone
      BY <2>3
    <3>2. x \in 1..d.upto /\ x \notin d.lost
      BY <1>3, <3>1
    <3>3. x \notin 1..d.sure
      BY <3>1, <3>2 DEF CallOK
    <3>4. d.sure < d.upto
      BY <1>1, <3>2, <3>3
    <3>5. Standing(d.sure) \subseteq Standing(d.upto)
      BY <1>1, <3>4 DEF Standing
    <3> QED BY <1>3, <3>5
  <2> QED BY <2>2, <2>3
<1>7. ASSUME gone \cap 1..Len(log) \subseteq d.lost
      PROVE  S = Standing(Len(log))
  <2>1. d.read \cap gone = {}
    BY <1>1, <1>3, <1>7
  <2> QED BY <1>5, <2>1
<1> QED BY <1>4, <1>6, <1>7

\* record_notice binds the notice to the records it has read
LEMMA ScanOK ==
  ASSUME NInv, NEW u \in Users, Scan(u)
  PROVE  \/ draft' = [draft EXCEPT ![u] = NoDraft]
         \/ \E d \in Drafts : draft' = [draft EXCEPT ![u] = d] /\ DraftOK(d)'
<1>1. draft[u] \in Drafts /\ draft[u].step = "reading" /\ DraftOK(draft[u])
  BY DEF NInv, DraftsOK, TypePart, Scan, NoDraft, RecordDrafts
<1>2. PICK o : o = draft[u]
  OBVIOUS
<1>3. PICK n : n = Len(log)
  OBVIOUS
<1>4. o \in Drafts /\ FieldsOK(o) /\ SourceOK(o, n) /\ CallOK(o, n) /\ ReadOK(o) /\ n \in Nat
  BY <1>1, <1>2, <1>3 DEF DraftOK, NInv, TypePart
<1> DEFINE Aw == Awareness(o.fields)
           Agrees(b) == \A i \in b : Aw # {} /\ (Aw = {log[i].rec.awareness} \/ o.reason)
           Made(b) == [o EXCEPT !.step = "scanned", !.bound = b, !.read = {}, !.upto = 0]
<1>5. PICK rest \in Rest(o) :
        LET b == BoundTo(NoticeIds(o), o.read \cup rest)
        IN  draft' = [draft EXCEPT ![u] = IF Agrees(b) THEN Made(b) ELSE NoDraft]
  BY <1>2 DEF Scan
<1>6. PICK S : S = o.read \cup rest
  OBVIOUS
<1>7. PICK b : b = BoundTo(NoticeIds(o), S)
  OBVIOUS
<1>8. draft' = [draft EXCEPT ![u] = IF Agrees(b) THEN Made(b) ELSE NoDraft]
  BY <1>5, <1>6, <1>7
<1>9. /\ S \subseteq 1..n /\ Standing(o.sure) \subseteq S
      /\ gone \cap 1..n \subseteq o.lost => S = Standing(n)
  BY <1>3, <1>4, <1>6, ReadIs DEF NInv
<1>10. \A j \in b : j \in 1..n /\ log[j].entry = "cra_vuln"
  BY <1>7, <1>9, BoundIsVulns
<1>11. PICK d : d = Made(b)
  OBVIOUS
<1>12. /\ d \in Drafts /\ d.step = "scanned" /\ d.bound = b /\ d.begun = o.begun /\ d.sure = o.sure
       /\ d.lost = o.lost /\ d.stream = o.stream /\ d.fields = o.fields /\ d.stage = o.stage
       /\ d.from = o.from /\ d.reason = o.reason
  <2>1. b \subseteq Nat
    BY <1>10
  <2> QED BY <1>4, <1>11, <2>1 DEF Drafts
<1>13. NoticeIds(d) = NoticeIds(o)
  BY <1>12 DEF NoticeIds
<1>14. ASSUME Agrees(b)
       PROVE  DraftOK(d)'
  <2>1. FieldsOK(d) /\ SourceOK(d, n) /\ CallOK(d, n)
    BY <1>4, <1>12 DEF FieldsOK, SourceOK, CallOK
  <2>2. Accounts(d, Standing(d.sure))
    <3> SUFFICES ASSUME NEW i \in Vulns(Standing(d.sure)), log[i].rec.vuln_id \in NoticeIds(d)
                 PROVE  \E j \in d.bound : j >= i /\ log[j].rec.vuln_id = log[i].rec.vuln_id
      BY DEF Accounts
    <3>1. i \in Vulns(S)
      BY <1>9, <1>12 DEF Vulns
    <3>2. n \in Nat /\ S \subseteq 1..n /\ log[i].rec.vuln_id \in NoticeIds(o)
      BY <1>4, <1>9, <1>13
    <3>3. \E j \in BoundTo(NoticeIds(o), S) : j >= i /\ log[j].rec.vuln_id = log[i].rec.vuln_id
      BY <3>1, <3>2, LastIsBound
    <3>4. d.bound = BoundTo(NoticeIds(o), S)
      BY <1>7, <1>12
    <3> QED BY <3>3, <3>4
  <2>3. gone \cap 1..n \subseteq d.lost => d.bound = BoundTo(NoticeIds(d), Standing(n))
    BY <1>7, <1>9, <1>12, <1>13
  <2>4. n \in d.begun..n
    BY <1>4, <1>12 DEF CallOK, Drafts
  <2>5. ~ d.reason => \A j \in d.bound : Awareness(d.fields) = {log[j].rec.awareness}
    BY <1>12, <1>14
  <2>6. d.bound \subseteq {j \in 1..n : log[j].entry = "cra_vuln"}
    BY <1>10, <1>12
  <2>7. BindsAs(d, n)
    BY <2>2, <2>3, <2>4, <2>5, <2>6 DEF BindsAs
  <2>8. DraftOK(d)
    BY <1>3, <1>12, <2>1, <2>7 DEF DraftOK
  <2>9. Grows
    BY InstantsAre DEF Scan, ledgerVars, Grows, NInv, TypePart
  <2> QED BY <1>12, <2>8, <2>9, DraftStays DEF NInv
<1>15. CASE Agrees(b)
  BY <1>8, <1>11, <1>12, <1>14, <1>15
<1>16. CASE ~ Agrees(b)
  BY <1>8, <1>16
<1> QED BY <1>15, <1>16

\* the deadline of a notice, whose dates are single instants
LEMMA DeadlineType ==
  ASSUME NEW stream \in STREAMS, NEW stage \in STAGES, NEW f, Stated(stream, f)
  PROVE  /\ Deadline(stream, stage, f) \subseteq Nat
         /\ \A t, u \in Deadline(stream, stage, f) : t = u
<1>1. \A t \in Awareness(f) : t \in Nat
  BY StatedInstants
<1>2. \A t, u \in Awareness(f) : t = u
  BY StatedInstants
<1>3. ASSUME stream = "vulnerability"
      PROVE  LET fix == f["corrective_available_date"]
             IN  fix \subseteq Nat /\ \A t, u \in fix : t = u
  <2>1. "corrective_available_date" \in Dates(stream)
    BY <1>3 DEF Dates, Fields, OwnFields, VULN_FIELDS
  <2> QED BY <2>1 DEF Stated
<1>4. ASSUME NEW n \in Nat, NEW S, S \subseteq Nat, \A t, u \in S : t = u
      PROVE  {t + n : t \in S} \subseteq Nat /\ \A t, u \in {x + n : x \in S} : t = u
  BY <1>4
<1>5. EARLY_WARNING_HOURS \in Nat /\ NOTIFICATION_HOURS \in Nat /\ FINAL_REPORT_HOURS_AFTER_FIX \in Nat
  BY DEF EARLY_WARNING_HOURS, NOTIFICATION_HOURS, FINAL_REPORT_HOURS_AFTER_FIX
<1>6. Awareness(f) \subseteq Nat
  BY <1>1
<1>7. CASE stage = "early_warning"
  BY <1>2, <1>4, <1>5, <1>6, <1>7 DEF Deadline
<1>8. CASE stage = "notification"
  BY <1>2, <1>4, <1>5, <1>6, <1>8 DEF Deadline
<1>9. CASE stage = "final_report" /\ stream = "vulnerability"
  BY <1>3, <1>4, <1>5, <1>9 DEF Deadline
<1>10. CASE stage = "final_report" /\ stream # "vulnerability"
  BY <1>10 DEF Deadline, STREAMS
<1> QED BY <1>7, <1>8, <1>9, <1>10 DEF STAGES

\* an append that takes nothing back
LEMMA OneMoreGrows ==
  ASSUME TypePart, NEW e \in VulnEntries \cup NoticeEntries, log' = Append(log, e),
         now' = now, kept' = kept, gone' = gone
  PROVE  Grows /\ Len(log') = Len(log) + 1 /\ log'[Len(log) + 1] = e
<1>1. /\ Len(log) \in Nat /\ Len(log') = Len(log) + 1 /\ log'[Len(log) + 1] = e
      /\ log' \in Seq(VulnEntries \cup NoticeEntries)
      /\ \A i \in 1..Len(log) : log'[i] = log[i]
  BY Appended DEF TypePart
<1>2. now \in Nat
  BY InstantsAre DEF TypePart
<1> QED BY <1>1, <1>2 DEF Grows, TypePart

\* the notice that is appended is the draft that was made
LEMMA AppendNoticeOK ==
  ASSUME NInv, NEW u \in Users, AppendNotice(u)
  PROVE  \E d \in NoticeEntries : log' = Append(log, d) /\ NoticeOK(d, Len(log))'
<1>1. /\ draft[u] \in Drafts /\ DraftOK(draft[u]) /\ Ready(draft[u]) /\ Len(log) \in Nat
      /\ now' = now /\ kept' = kept /\ gone' = gone
  BY DEF NInv, DraftsOK, TypePart, AppendNotice, NoDraft, RecordDrafts, Ready
<1>2. PICK n : n = draft[u]
  OBVIOUS
<1>3. PICK m : m = Len(log)
  OBVIOUS
<1>4. /\ n \in Drafts /\ FieldsOK(n) /\ SourceOK(n, m) /\ CallOK(n, m) /\ BindsAs(n, m)
      /\ m \in Nat
  BY <1>1, <1>2, <1>3 DEF DraftOK
<1>5. PICK d : d = [entry |-> n.entry, stream |-> n.stream, stage |-> n.stage,
                    fields |-> n.fields, complete |-> (Missing(n.stream, n.stage, n.fields) = {}),
                    deadline |-> Deadline(n.stream, n.stage, n.fields),
                    bound |-> n.bound, reason |-> n.reason, begun |-> n.begun,
                    sure |-> n.sure, lost |-> n.lost, from |-> n.from]
  OBVIOUS
<1>6. log' = Append(log, d)
  BY <1>2, <1>5 DEF AppendNotice
<1>7. Stated(n.stream, n.fields)
  BY <1>4 DEF FieldsOK
<1>8. d \in NoticeEntries
  BY <1>4, <1>5, <1>7, DeadlineType DEF Drafts, NoticeEntries
<1>9. Grows
  BY <1>1, <1>6, <1>8, OneMoreGrows DEF NInv
<1>10. NoticeIds(d) = NoticeIds(n)
  BY <1>5 DEF NoticeIds
<1>11. FieldsOK(d) /\ SourceOK(d, m) /\ CallOK(d, m) /\ BindsAs(d, m)
  BY <1>4, <1>5, <1>10 DEF FieldsOK, SourceOK, CallOK, BindsAs, Accounts
<1>12. /\ m <= m /\ m <= Len(log) /\ d.begun \in Nat /\ d.sure \in Nat /\ d.stream \in STREAMS
       /\ \A i \in 1..m : log'[i] = log[i]
  BY <1>3, <1>4, <1>8, <1>9 DEF NoticeEntries, Grows
<1>13. FieldsOK(d)'
  BY <1>9, <1>11, <1>12, FieldsStay DEF NInv, TypePart
<1>14. SourceOK(d, m)'
  BY <1>4, <1>11, <1>12, SourceStays
<1>15. CallOK(d, m)'
  BY <1>4, <1>9, <1>11, <1>12, CallStays DEF NInv
<1>16. BindsAs(d, m)'
  BY <1>4, <1>9, <1>11, <1>12, BindsStays DEF NInv
<1>17. d.complete = (Missing(d.stream, d.stage, d.fields) = {})
       /\ d.deadline = Deadline(d.stream, d.stage, d.fields)
  BY <1>5
<1>18. PICK i : i = m + 1
  OBVIOUS
<1>19. i - 1 = m
  BY <1>4, <1>18
<1>20. NoticeOK(d, i)'
  BY <1>13, <1>14, <1>15, <1>16, <1>17, <1>19 DEF NoticeOK
<1>21. NoticeOK(d, Len(log))'
  <2>1. Len(log') = i
    BY <1>1, <1>3, <1>6, <1>8, <1>18, OneMoreGrows DEF NInv
  <2> QED BY <1>20, <2>1 DEF NoticeOK
<1> QED BY <1>6, <1>8, <1>21

\* what is appended is right, and the rest is as it was
LEMMA OneMore ==
  ASSUME NInv, NEW d \in VulnEntries \cup NoticeEntries, log' = Append(log, d),
         now' = now, kept' = kept, gone' = gone,
         d.entry = "cra_srp_notice" => NoticeOK(d, Len(log))',
         d.entry = "cra_vuln" => MadeOK(d)
  PROVE  Grows /\ NoticesOK' /\ RecordsOK'
<1>1. /\ Grows /\ Len(log) \in Nat /\ Len(log') = Len(log) + 1 /\ log'[Len(log')] = d
      /\ \A i \in 1..Len(log) : log'[i] = log[i]
  BY OneMoreGrows DEF NInv, TypePart, Grows
<1>2. \A i \in 1..Len(log') : i \in 1..Len(log) \/ i = Len(log')
  BY <1>1
<1>3. \A i \in 1..Len(log) :
        /\ log[i].entry = "cra_srp_notice" => NoticeOK(log[i], i)'
        /\ log[i].entry = "cra_vuln" => MadeOK(log[i])'
  BY <1>1, EntryStays
<1>4. NoticesOK'
  <2> SUFFICES ASSUME NEW i \in 1..Len(log'), log'[i].entry = "cra_srp_notice"
               PROVE  NoticeOK(log[i], i)'
    BY DEF NoticesOK, Recorded
  <2>1. CASE i \in 1..Len(log)
    BY <1>1, <1>3, <2>1
  <2>2. CASE i = Len(log')
    BY <1>1, <2>2
  <2> QED BY <1>2, <2>1, <2>2
<1>5. RecordsOK'
  <2> SUFFICES ASSUME NEW i \in 1..Len(log'), log'[i].entry = "cra_vuln"
               PROVE  MadeOK(log[i])'
    BY DEF RecordsOK, Recorded
  <2>1. CASE i \in 1..Len(log)
    BY <1>1, <1>3, <2>1
  <2>2. CASE i = Len(log')
    <3>1. log'[i] = d /\ MadeOK(d)
      BY <1>1, <2>2
    <3> QED BY <3>1 DEF MadeOK
  <2> QED BY <1>2, <2>1, <2>2
<1> QED BY <1>1, <1>4, <1>5

DraftIs(d) ==
  /\ d \in RecordDrafts \cup Drafts \cup {NoDraft}
  /\ d \in RecordDrafts => MadeOK(d.made)
  /\ d \in Drafts => DraftOK(d)

\* no draft is of two kinds
LEMMA Kinds ==
  /\ NoDraft \notin RecordDrafts /\ NoDraft \notin Drafts
  /\ \A d \in Drafts : d \notin RecordDrafts
BY DEF NoDraft, RecordDrafts, Drafts

LEMMA NoDraftIs == DraftIs(NoDraft)
BY Kinds DEF DraftIs

\* the drafts nobody works on stay what they were
LEMMA DraftsStay ==
  ASSUME NInv, Grows, NEW w, NEW e, w \in Users => DraftIs(e)',
         draft' = draft \/ draft' = [draft EXCEPT ![w] = e]
  PROVE  draft' \in [Users -> RecordDrafts \cup Drafts \cup {NoDraft}] /\ DraftsOK'
<1>1. draft \in [Users -> RecordDrafts \cup Drafts \cup {NoDraft}]
  BY DEF NInv, TypePart
<1>2. ASSUME NEW u \in Users
      PROVE  DraftIs(draft[u])'
  <2>1. PICK d : d = draft[u]
    OBVIOUS
  <2>2. DraftIs(d)
    BY <1>1, <2>1 DEF NInv, DraftsOK, DraftIs
  <2>3. DraftIs(d)'
    <3>1. ASSUME d \in RecordDrafts
          PROVE  MadeOK(d.made)'
      <4>1. d.made \in VulnEntries /\ MadeOK(d.made)
        BY <2>2, <3>1 DEF DraftIs, RecordDrafts
      <4>2. PICK x : x = d.made
        OBVIOUS
      <4>3. MadeOK(x)'
        BY <4>1, <4>2, MadeStays DEF NInv, TypePart
      <4> QED BY <4>2, <4>3
    <3>2. ASSUME d \in Drafts
          PROVE  DraftOK(d)'
      BY <2>2, <3>2, DraftStays DEF DraftIs, NInv
    <3> QED BY <2>2, <3>1, <3>2 DEF DraftIs
  <2>4. draft'[u] = d \/ (u = w /\ draft'[u] = e)
    BY <1>1, <2>1
  <2> QED BY <2>3, <2>4
<1>3. draft' \in [Users -> RecordDrafts \cup Drafts \cup {NoDraft}]
  <2>1. \A u \in Users : draft'[u] \in RecordDrafts \cup Drafts \cup {NoDraft}
    BY <1>2 DEF DraftIs
  <2> QED BY <1>1, <2>1
<1>4. DraftsOK'
  BY <1>2 DEF DraftsOK, DraftIs
<1> QED BY <1>3, <1>4

-----------------------------------------------------------------------------
(* The invariant.                                                          *)

LEMMA NoticesInitially == Init => NInv
<1> SUFFICES ASSUME Init PROVE NInv
  OBVIOUS
<1>1. log = <<>> /\ Len(log) = 0 /\ log \in Seq(VulnEntries \cup NoticeEntries)
  BY DEF Init
<1>2. TypePart
  BY <1>1, NoticesAssumption DEF Init, TypePart
<1>3. \A e : Recorded(e) = {}
  BY <1>1 DEF Recorded
<1>4. \A u \in Users : draft[u] = NoDraft
  BY DEF Init
<1>5. DraftsOK
  BY <1>4, Kinds DEF DraftsOK
<1>6. NoticesOK /\ RecordsOK
  BY <1>3 DEF NoticesOK, RecordsOK
<1> QED BY <1>2, <1>5, <1>6 DEF NInv

LEMMA NoticesStep == NInv /\ [Next]_vars => NInv'
<1> SUFFICES ASSUME NInv, [Next]_vars PROVE NInv'
  OBVIOUS
<1>1. /\ TypePart /\ now \in Instants /\ now \in Nat /\ Len(log) \in Nat
      /\ kept \in 0..Len(log) /\ gone \subseteq 1..Len(log)
      /\ log \in Seq(VulnEntries \cup NoticeEntries) /\ Len(log) <= MaxLog
  BY InstantsAre DEF NInv, TypePart
\* what appends nothing
<1>2. ASSUME Grows, log' = log, NEW w, NEW e, w \in Users => DraftIs(e)',
             draft' = draft \/ draft' = [draft EXCEPT ![w] = e]
      PROVE  NInv'
  <2>1. draft' \in [Users -> RecordDrafts \cup Drafts \cup {NoDraft}] /\ DraftsOK'
    BY <1>2, DraftsStay
  <2>2. TypePart'
    BY <1>1, <1>2, <2>1 DEF TypePart, Grows
  <2>3. NoticesOK' /\ RecordsOK'
    BY <1>2, SameLog
  <2> QED BY <2>1, <2>2, <2>3 DEF NInv
\* what appends
<1>3. ASSUME NEW d \in VulnEntries \cup NoticeEntries, Len(log) < MaxLog,
             log' = Append(log, d), now' = now, kept' = kept, gone' = gone,
             d.entry = "cra_srp_notice" => NoticeOK(d, Len(log))',
             d.entry = "cra_vuln" => MadeOK(d),
             NEW w, draft' = [draft EXCEPT ![w] = NoDraft]
      PROVE  NInv'
  <2>1. Grows /\ NoticesOK' /\ RecordsOK'
    BY <1>3, OneMore
  <2>2. PICK e : e = NoDraft
    OBVIOUS
  <2>3. DraftIs(e)'
    BY <2>2, Kinds DEF DraftIs
  <2>4. draft' \in [Users -> RecordDrafts \cup Drafts \cup {NoDraft}] /\ DraftsOK'
    BY <1>3, <2>1, <2>2, <2>3, DraftsStay
  <2>5. Len(log') = Len(log) + 1
    BY <1>1, <1>3, OneMoreGrows
  <2>6. TypePart'
    BY <1>1, <1>3, <2>1, <2>4, <2>5, NoticesAssumption DEF TypePart, Grows
  <2> QED BY <2>1, <2>4, <2>6 DEF NInv
\* what only a draft is changed by
<1>4. ASSUME now' = now, UNCHANGED ledgerVars
      PROVE  Grows /\ log' = log
  BY <1>1, <1>4 DEF Grows, ledgerVars
<1>5. ASSUME Grows, log' = log, draft' = draft
      PROVE  NInv'
  <2>1. PICK w : w \notin Users
    BY NoSetContainsEverything
  <2> QED BY <1>2, <1>5, <2>1
<1>6. CASE Tick
  <2>1. Grows /\ log' = log /\ draft' = draft
    BY <1>1, <1>6, InstantsAre DEF Tick, Grows, ledgerVars
  <2> QED BY <1>5, <2>1
<1>7. CASE Promise
  <2>1. Grows /\ log' = log /\ draft' = draft
    BY <1>1, <1>7 DEF Promise, Grows
  <2> QED BY <1>5, <2>1
<1>8. ASSUME NEW k \in 1..Len(log), TakeBack(k) PROVE NInv'
  <2>1. now' = now /\ log' = log /\ kept' = kept /\ draft' = draft /\ kept < k
        /\ gone' = gone \cup k..Len(log)
    BY <1>8 DEF TakeBack
  <2>2. gone' \subseteq 1..Len(log) /\ \A i \in gone' : i \in gone \/ kept < i
    <3>1. PICK n : n = Len(log)
      OBVIOUS
    <3>2. n \in Nat /\ k \in 1..n /\ kept \in 0..n /\ gone \subseteq 1..n
      BY <1>1, <1>8, <3>1
    <3>3. \A i \in k..n : i \in 1..n /\ kept < i
      BY <2>1, <3>2
    <3> QED BY <2>1, <3>1, <3>2, <3>3
  <2>3. Grows
    BY <1>1, <2>1, <2>2 DEF Grows
  <2> QED BY <1>5, <2>1, <2>3
<1>19. ASSUME NEW w, NEW e, DraftIs(e)', draft' = [draft EXCEPT ![w] = e],
              now' = now, UNCHANGED ledgerVars
       PROVE  NInv'
  <2>1. Grows /\ log' = log
    BY <1>4, <1>19
  <2> QED BY <1>2, <1>19, <2>1
<1>9. ASSUME NEW u \in Users, NEW rec \in Records, Evaluate(u, rec) PROVE NInv'
  <2>1. PICK e : e = [entry |-> "cra_vuln", rec |-> rec, at |-> now, answer |-> Answer(rec, now)]
    OBVIOUS
  <2>2. PICK d : d = [step |-> "evaluated", made |-> e]
    OBVIOUS
  <2>3. /\ draft' = [draft EXCEPT ![u] = d] /\ now' = now /\ UNCHANGED ledgerVars
        /\ Accepted(rec, now)
    BY <1>9, <2>1, <2>2 DEF Evaluate
  <2>4. e \in VulnEntries /\ e.at = now /\ e.rec = rec
    BY <1>1, <2>1 DEF VulnEntries
  <2>5. d \in RecordDrafts /\ d.made = e
    BY <2>2, <2>4 DEF RecordDrafts
  <2>6. MadeOK(e)'
    BY <1>1, <2>3, <2>4 DEF MadeOK
  <2>7. DraftIs(d)'
    BY <2>5, <2>6, Kinds DEF DraftIs
  <2>8. draft' = [draft EXCEPT ![u] = d] /\ now' = now /\ UNCHANGED ledgerVars
    BY <2>3
  <2> QED BY <1>19, <2>7, <2>8
<1>10. ASSUME NEW u \in Users, AppendRecord(u) PROVE NInv'
  <2>1. draft[u] \in RecordDrafts
    <3>1. draft[u] \in RecordDrafts \cup Drafts \cup {NoDraft}
      BY <1>1, <1>10 DEF TypePart
    <3>2. draft[u].step = "evaluated"
      BY <1>10 DEF AppendRecord
    <3>3. NoDraft.step = "none" /\ \A d \in Drafts : d.step \in {"built", "reading", "scanned"}
      BY DEF NoDraft, Drafts
    <3> QED BY <3>1, <3>2, <3>3
  <2>2. PICK d : d = draft[u].made
    OBVIOUS
  <2>3. d \in VulnEntries /\ d.entry = "cra_vuln" /\ MadeOK(d)
    BY <2>1, <2>2 DEF RecordDrafts, VulnEntries, NInv, DraftsOK, MadeOK
  <2>4. /\ Len(log) < MaxLog /\ log' = Append(log, d) /\ now' = now /\ kept' = kept
        /\ gone' = gone /\ draft' = [draft EXCEPT ![u] = NoDraft]
    BY <1>10, <2>2 DEF AppendRecord
  <2> QED BY <1>3, <2>3, <2>4
<1>11. ASSUME NEW u \in Users, NEW d \in Drafts, draft' = [draft EXCEPT ![u] = d], DraftOK(d)',
              now' = now, UNCHANGED ledgerVars
       PROVE  NInv'
  <2>1. DraftIs(d)'
    BY <1>11, Kinds DEF DraftIs
  <2> QED BY <1>19, <1>11, <2>1
<1>12. ASSUME NEW u \in Users, draft' = [draft EXCEPT ![u] = NoDraft],
              now' = now, UNCHANGED ledgerVars
       PROVE  NInv'
  <2>1. PICK e : e = NoDraft
    OBVIOUS
  <2>2. DraftIs(e)'
    BY <2>1, Kinds DEF DraftIs
  <2> QED BY <1>19, <1>12, <2>1, <2>2
<1>13. ASSUME NEW u \in Users, NEW p \in Payloads, Build(u, p)
       PROVE  NInv'
  <2>1. PICK d \in Drafts : draft' = [draft EXCEPT ![u] = d] /\ DraftOK(d)'
    BY <1>13, BuildOK
  <2>2. now' = now /\ UNCHANGED ledgerVars
    BY <1>13 DEF Build
  <2> QED BY <1>11, <2>1, <2>2
<1>14. ASSUME NEW u \in Users, NEW n \in 0..Len(log), OpenLedger(u, n) PROVE NInv'
  <2>1. PICK d \in Drafts : draft' = [draft EXCEPT ![u] = d] /\ DraftOK(d)'
    BY <1>14, OpenOK
  <2>2. now' = now /\ UNCHANGED ledgerVars
    BY <1>14 DEF OpenLedger
  <2> QED BY <1>11, <2>1, <2>2
<1>15. ASSUME NEW u \in Users, Scan(u) PROVE NInv'
  <2>1. now' = now /\ UNCHANGED ledgerVars
    BY <1>15 DEF Scan
  <2>2. CASE draft' = [draft EXCEPT ![u] = NoDraft]
    BY <1>12, <2>1, <2>2
  <2>3. ASSUME NEW d \in Drafts, draft' = [draft EXCEPT ![u] = d], DraftOK(d)'
        PROVE  NInv'
    BY <1>11, <2>1, <2>3
  <2> QED BY <1>15, <2>2, <2>3, ScanOK
<1>16. ASSUME NEW u \in Users, AppendNotice(u) PROVE NInv'
  <2>1. PICK d \in NoticeEntries : log' = Append(log, d) /\ NoticeOK(d, Len(log))'
    BY <1>16, AppendNoticeOK
  <2>2. /\ now' = now /\ kept' = kept /\ gone' = gone /\ draft' = [draft EXCEPT ![u] = NoDraft]
        /\ Len(log) < MaxLog /\ d.entry = "cra_srp_notice"
    BY <1>16 DEF AppendNotice, NoticeEntries
  <2> QED BY <1>3, <2>1, <2>2
<1>17. ASSUME NEW u \in Users, GiveUp(u) PROVE NInv'
  BY <1>12, <1>17 DEF GiveUp
<1>18. CASE UNCHANGED vars
  <2>1. now' = now /\ UNCHANGED ledgerVars /\ draft' = draft
    BY <1>18 DEF vars
  <2> QED BY <1>4, <1>5, <2>1
<1> QED
  BY <1>6, <1>7, <1>8, <1>9, <1>10, <1>13, <1>14, <1>15, <1>16, <1>17, <1>18 DEF Next

LEMMA NoticesAlways == Spec => []NInv
BY NoticesInitially, NoticesStep, PTL DEF Spec

-----------------------------------------------------------------------------
(* What a notice says.                                                     *)

(* A notice accounts for every record that was answered for when its call  *)
(* opened the ledger, whatever is appended or taken back meanwhile, and    *)
(* when nothing is, it is bound to the last records at one moment of the   *)
(* call (locker.py, record_notice).                                        *)
THEOREM BoundAtOneMoment == Spec => []BoundAsOfTheCall
<1>1. NInv => BoundAsOfTheCall
  BY DEF NInv, NoticesOK, NoticeOK, BindsAs, BoundAsOfTheCall
<1> QED BY <1>1, NoticesAlways, PTL

(* The deadline of a notice is the one of every record it is bound to: the *)
(* clock is not moved in a notice (locker.py:191-192).                     *)
THEOREM ClockNotMoved == Spec => []SameDeadline
<1>1. NInv => SameDeadline
  <2> SUFFICES ASSUME NInv, NEW i \in Recorded("cra_srp_notice"), ~ log[i].reason,
                      log[i].stage # "final_report", NEW j \in log[i].bound
               PROVE  log[i].deadline = Deadlines(log[j].rec)[log[i].stage]
    BY DEF SameDeadline
  <2> DEFINE d == log[i]
             aw == log[j].rec.awareness
  <2>1. i \in 1..Len(log) /\ NoticeOK(d, i) /\ d \in NoticeEntries
    BY EntryIs DEF NInv, NoticesOK, Recorded
  <2>2. Awareness(d.fields) = {aw}
    BY <2>1 DEF NoticeOK, BindsAs
  <2>3. d.deadline = Deadline(d.stream, d.stage, d.fields)
    BY <2>1 DEF NoticeOK
  <2>4. d.stage = "early_warning" \/ d.stage = "notification"
    BY <2>1 DEF NoticeEntries, STAGES
  <2> HIDE DEF d, aw
  <2>5. CASE d.stage = "early_warning"
    BY <2>2, <2>3, <2>5 DEF Deadline, Deadlines, aw, d
  <2>6. CASE d.stage = "notification"
    BY <2>2, <2>3, <2>6 DEF Deadline, Deadlines, aw, d
  <2> QED BY <2>4, <2>5, <2>6 DEF d
<1> QED BY <1>1, NoticesAlways, PTL

\* a field that was needed before and is carried was needed at the stage before
LEMMA NeededBefore ==
  ASSUME NEW s \in STREAMS, NEW stage \in STAGES, NEW before \in STAGES,
         Order[before] = Order[stage] - 1, NEW k \in Fields(s),
         Needed(s, stage, k), Code(s, k)[Order[stage]] # "R"
  PROVE  Needed(s, before, k) /\ Code(s, k)[Order[stage]] = "C"
<1> DEFINE c == Code(s, k)
<1>1. Code(s, k)[Order[stage]] = "C" /\ \E i \in 1..Order[stage] - 1 : c[i] = "R"
  BY DEF Needed
<1>2. Order["early_warning"] = 1 /\ Order["notification"] = 2 /\ Order["final_report"] = 3
  BY DEF Order
<1>3. \/ stage = "notification" /\ before = "early_warning"
      \/ stage = "final_report" /\ before = "notification"
  BY <1>2 DEF STAGES
<1>4. CASE stage = "notification" /\ before = "early_warning"
  <2>1. c[1] = "R"
    BY <1>1, <1>2, <1>4
  <2> QED BY <1>1, <1>2, <1>4, <2>1 DEF Needed
<1>5. CASE stage = "final_report" /\ before = "notification"
  <2>1. c[3] = "C" /\ (c[1] = "R" \/ c[2] = "R")
    BY <1>1, <1>2, <1>5
  <2>2. c[2] = "R" \/ c[2] = "C"
    BY <2>1 DEF Code, COMMON_FIELDS, OwnFields, VULN_FIELDS, INCIDENT_FIELDS, Fields, STREAMS
  <2>3. c[2] = "C" => \E i \in 1..Order[before] - 1 : c[i] = "R"
    BY <1>2, <1>5, <2>1
  <2> QED BY <1>1, <1>2, <1>5, <2>2, <2>3 DEF Needed
<1> QED BY <1>3, <1>4, <1>5

(* What was stated at a stage is stated at each later one that carries it  *)
(* on, and a notice built on a complete one lacks only what its own stage  *)
(* requires (srp_notice.py, __post_init__ and missing).                    *)
THEOREM NothingDropped == Spec => []CarriedOn
<1>1. NInv => CarriedOn
  <2> SUFFICES ASSUME NInv, NEW i \in Recorded("cra_srp_notice"), log[i].from # 0
               PROVE  LET n == log[i]
                          p == log[n.from]
                      IN  /\ \A k \in Fields(n.stream) :
                               p.fields[k] # {} /\ Code(n.stream, k)[Order[n.stage]] = "C"
                                 => n.fields[k] # {}
                          /\ p.complete /\ (\A k \in Fields(n.stream) :
                                Code(n.stream, k)[Order[n.stage]] = "R" => n.fields[k] # {})
                               => n.complete
    BY DEF CarriedOn
  <2> DEFINE n == log[i]
             p == log[n.from]
  <2>1. i \in 1..Len(log) /\ NoticeOK(n, i) /\ n \in NoticeEntries
    BY EntryIs DEF NInv, NoticesOK, Recorded
  <2>2. /\ n.from \in 1..Len(log) /\ p.entry = "cra_srp_notice" /\ p.stream = n.stream
        /\ Order[p.stage] = Order[n.stage] - 1
        /\ \A k \in Fields(n.stream) :
             p.fields[k] # {} /\ Code(n.stream, k)[Order[n.stage]] = "C" => n.fields[k] # {}
    BY <2>1 DEF NoticeOK, SourceOK
  <2>3. NoticeOK(p, n.from) /\ p \in NoticeEntries
    BY <2>2, EntryIs DEF NInv, NoticesOK, Recorded
  <2>4. ASSUME p.complete,
               \A k \in Fields(n.stream) : Code(n.stream, k)[Order[n.stage]] = "R" => n.fields[k] # {}
        PROVE  n.complete
    <3>1. Missing(p.stream, p.stage, p.fields) = {}
      BY <2>3, <2>4 DEF NoticeOK
    <3>2. ASSUME NEW k \in Fields(n.stream), Needed(n.stream, n.stage, k)
          PROVE  n.fields[k] # {}
      <4>1. CASE Code(n.stream, k)[Order[n.stage]] = "R"
        BY <2>4, <4>1
      <4>2. CASE Code(n.stream, k)[Order[n.stage]] # "R"
        <5>1. Needed(n.stream, p.stage, k) /\ Code(n.stream, k)[Order[n.stage]] = "C"
          <6>1. n.stream \in STREAMS /\ n.stage \in STAGES /\ p.stage \in STAGES
            BY <2>1, <2>3 DEF NoticeEntries
          <6> QED BY <2>2, <3>2, <4>2, <6>1, NeededBefore
        <5>2. p.fields[k] # {}
          BY <2>2, <3>1, <5>1 DEF Missing
        <5> QED BY <2>2, <5>1, <5>2
      <4> QED BY <4>1, <4>2
    <3>3. Missing(n.stream, n.stage, n.fields) = {}
      BY <3>2 DEF Missing
    <3> QED BY <2>1, <3>3 DEF NoticeOK
  <2> QED BY <2>2, <2>4
<1> QED BY <1>1, NoticesAlways, PTL

-----------------------------------------------------------------------------
(* What overdue answers, and what the dates decide.                        *)

LEMMA RecordAnswers ==
  ASSUME NInv, NEW i \in Recorded("cra_vuln")
  PROVE  /\ i \in 1..Len(log) /\ log[i].rec \in Records /\ log[i].at \in Int
         /\ log[i].answer = Answer(log[i].rec, log[i].at)
<1>1. i \in 1..Len(log) /\ log[i] \in VulnEntries
  BY EntryIs DEF NInv, Recorded
<1> QED BY <1>1, InstantsAre DEF VulnEntries

(* Nothing overdue under a reading that obliges is hidden, and the two     *)
(* readings of 11 September 2026 are the instants the documents name       *)
(* (vuln.py, overdue).                                                     *)
THEOREM OverdueShown == Spec => []NothingHidden
<1>1. NInv => NothingHidden
  <2> SUFFICES ASSUME NInv, NEW i \in Recorded("cra_vuln")
               PROVE  HidesNothing(log[i].rec, log[i].at, log[i].answer)
    BY DEF NothingHidden, HidesNothing
  <2>1. log[i].rec \in Records /\ log[i].answer = Answer(log[i].rec, log[i].at)
    BY RecordAnswers
  <2>2. log[i].rec.awareness \in Int /\ log[i].rec.actively_exploited \in BOOLEAN
    BY <2>1, RecordIs DEF Events
  <2> QED BY <2>1, <2>2, AnswerHidesNothing
<1> QED BY <1>1, NoticesAlways, PTL

(* "a status word cannot extinguish an obligation that was never           *)
(* fulfilled" (vuln.py:68-69): what was overdue when one record was        *)
(* evaluated is overdue or late in every record of the event evaluated     *)
(* then or later, before or after it in the ledger, unless that one claims *)
(* to have sent it before.                                                 *)
THEOREM ObligationStands == Spec => []SilenceIsNoExit
<1>1. NInv => SilenceIsNoExit
  <2> SUFFICES ASSUME NInv, NEW i \in Recorded("cra_vuln"), NEW j \in Recorded("cra_vuln"),
                      log[i].at <= log[j].at, SameEvent(log[i].rec, log[j].rec),
                      NEW s \in log[i].answer.flags.overdue
               PROVE  \/ s \in log[j].answer.flags.overdue \cup log[j].answer.flags.late
                      \/ \E t \in log[j].rec.sent[s] : t < log[i].at
    BY DEF SilenceIsNoExit
  <2>1. /\ log[i].rec \in Records /\ log[i].at \in Int
        /\ log[i].answer = Answer(log[i].rec, log[i].at)
    BY RecordAnswers
  <2>2. /\ log[j].rec \in Records /\ log[j].at \in Int
        /\ log[j].answer = Answer(log[j].rec, log[j].at)
    BY RecordAnswers
  <2> QED BY <2>1, <2>2, StaysOverdue
<1> QED BY <1>1, NoticesAlways, PTL

(* Days start at midnight under both readings, also in the nights when the *)
(* clocks change, and a period of years ends with its anniversary          *)
(* (applicability.py, day_start, years_after and latest_until).            *)
THEOREM PeriodsWhole == Spec => []PeriodsAreWhole
<1>1. NInv => PeriodsAreWhole
  BY InstantsAreEvents, MidnightsAre, PeriodsAre DEF NInv, TypePart, PeriodsAreWhole
<1> QED BY <1>1, NoticesAlways, PTL

(* The exit status of `obligations` follows the two days of the Regulation *)
(* under both readings (cli.py:449-456, applicability.py,                  *)
(* legacy_product_scope).                                                  *)
THEOREM ScopeByDates == Spec => []ScopeFollowsDates
<1>1. NInv => ScopeFollowsDates
  <2> SUFFICES ASSUME NInv PROVE ScopeFollowsDates
    OBVIOUS
  <2>1. now \in Events
    BY InstantsAreEvents DEF NInv, TypePart
  <2> QED BY <2>1, ScopeAround, Zenon DEF ScopeFollowsDates
<1> QED BY <1>1, NoticesAlways, PTL

\* a set whose elements are one
LEMMA AtMostOne ==
  ASSUME NEW S, \A t, u \in S : t = u
  PROVE  Cardinality(S) <= 1
<1>1. CASE S = {}
  BY <1>1, FS_EmptySet
<1>2. ASSUME NEW t \in S
      PROVE  Cardinality(S) <= 1
  <2>1. S = {t}
    OBVIOUS
  <2>2. Cardinality({t}) = 1
    BY FS_Singleton
  <2> QED BY <2>1, <2>2
<1> QED BY <1>1, <1>2

(* Every variable stays in its set; a notice has at most one awareness and *)
(* one deadline, and is bound to records before it.                        *)
THEOREM NoticeTypesKept == Spec => []NoticesTypeOK
<1>1. NInv => NoticesTypeOK
  <2> SUFFICES ASSUME NInv PROVE NoticesTypeOK
    OBVIOUS
  <2>1. ASSUME NEW i \in Recorded("cra_srp_notice")
        PROVE  /\ log[i].stage \in STAGES /\ Optional(log[i].deadline, Nat)
               /\ DOMAIN log[i].fields = Fields(log[i].stream)
               /\ Optional(Awareness(log[i].fields), 0..now)
               /\ log[i].bound \subseteq Recorded("cra_vuln") \cap 1..i - 1
    <3> DEFINE d == log[i]
    <3>1. i \in 1..Len(log) /\ Len(log) \in Nat /\ d \in NoticeEntries /\ NoticeOK(d, i)
      BY EntryIs DEF NInv, TypePart, NoticesOK, Recorded
    <3>2. d.stream \in STREAMS /\ d.stage \in STAGES /\ Stated(d.stream, d.fields)
      BY <3>1 DEF NoticeEntries, NoticeOK, FieldsOK
    <3>3. d.deadline = Deadline(d.stream, d.stage, d.fields)
      BY <3>1 DEF NoticeOK
    <3> HIDE DEF d
    <3>4. Optional(d.deadline, Nat)
      BY <3>2, <3>3, DeadlineType, AtMostOne DEF Optional
    <3>5. Optional(Awareness(d.fields), 0..now)
      <4>1. now \in Nat
        BY InstantsAre DEF NInv, TypePart
      <4>2. \A t \in Awareness(d.fields) : t \in Nat /\ t <= now
        BY <3>2, StatedInstants DEF Stated
      <4>3. Awareness(d.fields) \subseteq 0..now
        BY <4>1, <4>2
      <4>4. \A t, u \in Awareness(d.fields) : t = u
        BY <3>2, StatedInstants
      <4> QED BY <4>3, <4>4, AtMostOne DEF Optional
    <3>6. d.bound \subseteq Recorded("cra_vuln") \cap 1..i - 1
      <4>1. d.bound \subseteq {k \in 1..i - 1 : log[k].entry = "cra_vuln"}
        BY <3>1 DEF NoticeOK, BindsAs, d
      <4> QED BY <3>1, <4>1 DEF Recorded
    <3>7. DOMAIN d.fields = Fields(d.stream)
      BY <3>2 DEF Stated
    <3> QED BY <3>2, <3>4, <3>5, <3>6, <3>7 DEF d
  <2>2. \A i \in Recorded("cra_vuln") :
          log[i].rec \in Records /\ log[i].at <= now /\ Accepted(log[i].rec, log[i].at)
    BY RecordAnswers DEF NInv, RecordsOK, MadeOK
  <2>3. \A u \in Users :
          draft[u].step \in {"none", "evaluated", "built", "reading", "scanned"}
    BY DEF NInv, TypePart, RecordDrafts, Drafts, NoDraft
  <2> QED BY <2>1, <2>2, <2>3 DEF NInv, TypePart, NoticesTypeOK
<1> QED BY <1>1, NoticesAlways, PTL
=============================================================================
