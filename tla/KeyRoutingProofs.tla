--------------------------- MODULE KeyRoutingProofs ---------------------------
(***************************************************************************)
(* Proofs about the routing of keys: calendar arithmetic, division towards *)
(* zero, the widths of hash ids, and from these what KeyRouting says of    *)
(* configurations, keys and the retention window, for int64 and float64 of *)
(* any width and any requests, keys and clock.                             *)
(***************************************************************************)
EXTENDS KeyRouting, FiniteSetTheorems, WellFoundedInduction, TLAPS
-----------------------------------------------------------------------------
(* The calendar *)

(* Numbers of the calendar are integers. *)
LEMMA YearStartType ==
    ASSUME NEW y \in Int
    PROVE  YearStart(y) \in Int
  BY DEF YearStart

(* Days of month m of a year y. *)
DaysIn(y, m) == IF m = 2 THEN IF Leap(y) THEN 29 ELSE 28 ELSE IF m \in {4, 6, 9, 11} THEN 30 ELSE 31

(* Where month m of year y starts: how near to the average, and where it ends. *)
MonthShape(y, m) ==
    /\ MonthStart(y, m) \in Int
    /\ 48699 * (m - 1) - 4800 <= 1600 * MonthStart(y, m)
    /\ 1600 * MonthStart(y, m) <= 48699 * (m - 1) + 2000
    /\ m = 1 => MonthStart(y, m) = 0
    /\ m < 12 => MonthStart(y, m + 1) = MonthStart(y, m) + DaysIn(y, m)
    /\ m = 12 => MonthStart(y, m) + DaysIn(y, m) = IF Leap(y) THEN 366 ELSE 365

(* The months of every year have that shape. *)
LEMMA MonthShapes ==
    ASSUME NEW y \in Int, NEW m \in 1..12
    PROVE  MonthShape(y, m)
  <1> DEFINE c == <<0, 31, 59, 90, 120, 151, 181, 212, 243, 273, 304, 334>>
             l == IF Leap(y) THEN 1 ELSE 0
  <1>1. /\ c[1] = 0 /\ c[2] = 31 /\ c[3] = 59 /\ c[4] = 90 /\ c[5] = 120 /\ c[6] = 151
        /\ c[7] = 181 /\ c[8] = 212 /\ c[9] = 243 /\ c[10] = 273 /\ c[11] = 304 /\ c[12] = 334
    OBVIOUS
  <1>2. l \in 0..1 /\ (Leap(y) <=> l = 1)
    OBVIOUS
  <1>3. /\ MonthStart(y, m) = c[m] + (IF m > 2 THEN l ELSE 0)
        /\ MonthStart(y, m + 1) = c[m + 1] + (IF m + 1 > 2 THEN l ELSE 0)
    BY DEF MonthStart
  <1>4. /\ DaysIn(y, m) = IF m = 2 THEN 28 + l ELSE IF m \in {4, 6, 9, 11} THEN 30 ELSE 31
        /\ (IF Leap(y) THEN 366 ELSE 365) = 365 + l
    BY DEF DaysIn
  <1> HIDE DEF c, l
  <1>5. CASE m = 1
    <2>1. m + 1 = 2 /\ m - 1 = 0 /\ ~ (m > 2) /\ ~ (m + 1 > 2)
      BY <1>5
    <2>2. MonthStart(y, m) = 0 /\ MonthStart(y, m + 1) = 31
      BY <1>1, <1>3, <1>5, <2>1
    <2>3. DaysIn(y, m) = 31
      BY <1>4, <1>5
    <2> QED BY <1>5, <2>1, <2>2, <2>3 DEF MonthShape
  <1>6. CASE m = 2
    BY <1>1, <1>2, <1>3, <1>4, <1>6 DEF MonthShape
  <1>7. CASE m = 3
    BY <1>1, <1>2, <1>3, <1>4, <1>7 DEF MonthShape
  <1>8. CASE m = 4
    BY <1>1, <1>2, <1>3, <1>4, <1>8 DEF MonthShape
  <1>9. CASE m = 5
    BY <1>1, <1>2, <1>3, <1>4, <1>9 DEF MonthShape
  <1>10. CASE m = 6
    BY <1>1, <1>2, <1>3, <1>4, <1>10 DEF MonthShape
  <1>11. CASE m = 7
    BY <1>1, <1>2, <1>3, <1>4, <1>11 DEF MonthShape
  <1>12. CASE m = 8
    BY <1>1, <1>2, <1>3, <1>4, <1>12 DEF MonthShape
  <1>13. CASE m = 9
    BY <1>1, <1>2, <1>3, <1>4, <1>13 DEF MonthShape
  <1>14. CASE m = 10
    BY <1>1, <1>2, <1>3, <1>4, <1>14 DEF MonthShape
  <1>15. CASE m = 11
    BY <1>1, <1>2, <1>3, <1>4, <1>15 DEF MonthShape
  <1>16. CASE m = 12
    BY <1>1, <1>2, <1>3, <1>4, <1>16 DEF MonthShape
  <1>17. m \in {1, 2, 3, 4, 5, 6, 7, 8, 9, 10, 11, 12}
    OBVIOUS
  <1> QED BY <1>5, <1>6, <1>7, <1>8, <1>9, <1>10, <1>11, <1>12, <1>13, <1>14, <1>15, <1>16, <1>17

(* A year is a year later than the one before: 366 days after a leap year. *)
LEMMA YearLength ==
    ASSUME NEW y \in Int
    PROVE  YearStart(y + 1) = YearStart(y) + (IF Leap(y) THEN 366 ELSE 365)
  <1>1. CASE y % 4 # 0
    <2>1. ((y + 4) \div 4) = ((y + 3) \div 4) /\ ((y + 100) \div 100) = ((y + 99) \div 100)
          /\ ((y + 400) \div 400) = ((y + 399) \div 400)
      BY <1>1
    <2> QED BY <1>1, <2>1 DEF YearStart, Leap
  <1>2. CASE y % 4 = 0 /\ y % 100 # 0
    <2>1. ((y + 4) \div 4) = ((y + 3) \div 4) + 1 /\ ((y + 100) \div 100) = ((y + 99) \div 100)
          /\ ((y + 400) \div 400) = ((y + 399) \div 400)
      BY <1>2
    <2> QED BY <1>2, <2>1 DEF YearStart, Leap
  <1>3. CASE y % 4 = 0 /\ y % 100 = 0 /\ y % 400 # 0
    <2>1. ((y + 4) \div 4) = ((y + 3) \div 4) + 1 /\ ((y + 100) \div 100) = ((y + 99) \div 100) + 1
          /\ ((y + 400) \div 400) = ((y + 399) \div 400)
      BY <1>3
    <2> QED BY <1>3, <2>1 DEF YearStart, Leap
  <1>4. CASE y % 400 = 0
    <2>1. ((y + 4) \div 4) = ((y + 3) \div 4) + 1 /\ ((y + 100) \div 100) = ((y + 99) \div 100) + 1
          /\ ((y + 400) \div 400) = ((y + 399) \div 400) + 1
      BY <1>4
    <2>2. y % 4 = 0
      BY <1>4
    <2> QED BY <1>4, <2>1, <2>2 DEF YearStart, Leap
  <1>5. y % 400 = 0 => y % 100 = 0 /\ y % 4 = 0
    OBVIOUS
  <1> QED BY <1>1, <1>2, <1>3, <1>4, <1>5

(* The first of January 1970 as a day count. *)
LEMMA EpochValue == Epoch = 719528
  BY DEF Epoch, YearStart

(* Month n starts at most four days from n times 48699 / 1600. *)
NearAverage(n) ==
    /\ FirstOfMonth(n) \in Int
    /\ 48699 * n - 6400 <= 1600 * (FirstOfMonth(n) + Epoch)
    /\ 1600 * (FirstOfMonth(n) + Epoch) <= 48699 * n + 6400

(* The first days of the months are near the average. *)
LEMMA FirstOfMonthNear ==
    ASSUME NEW n \in Int
    PROVE  NearAverage(n)
  <1> DEFINE y == n \div 12  m == (n % 12) + 1
  <1>1. y \in Int /\ m \in 1..12 /\ n = 12 * y + m - 1
    OBVIOUS
  <1>2. FirstOfMonth(n) = YearStart(y) + MonthStart(y, m) - Epoch
    BY DEF FirstOfMonth
  <1>3. MonthShape(y, m)
    BY <1>1, MonthShapes, Zenon
  <1>4. /\ YearStart(y) \in Int
        /\ 400 * YearStart(y) >= 146097 * y - 400
        /\ 400 * YearStart(y) <= 146097 * y + 1100
    <2> HIDE DEF y, m
    <2> QED BY <1>1 DEF YearStart
  <1> HIDE DEF y, m
  <1>5. /\ MonthStart(y, m) \in Int
        /\ 48699 * (m - 1) - 4800 <= 1600 * MonthStart(y, m)
        /\ 1600 * MonthStart(y, m) <= 48699 * (m - 1) + 2000
    BY <1>3 DEF MonthShape
  <1> QED BY <1>1, <1>2, <1>4, <1>5, EpochValue DEF NearAverage

(* The first day of a month is a whole number. *)
LEMMA FirstOfMonthType ==
    ASSUME NEW n \in Int
    PROVE  FirstOfMonth(n) \in Int
  <1>1. NearAverage(n)
    BY FirstOfMonthNear, Zenon
  <1> QED BY <1>1 DEF NearAverage

(* Months follow each other without a gap: each has the days of the calendar. *)
LEMMA MonthLength ==
    ASSUME NEW n \in Int
    PROVE  FirstOfMonth(n + 1) = FirstOfMonth(n) + DaysIn(n \div 12, (n % 12) + 1)
  <1> DEFINE y == n \div 12  m == (n % 12) + 1
  <1>1. y \in Int /\ m \in 1..12
    OBVIOUS
  <1>2. FirstOfMonth(n) = YearStart(y) + MonthStart(y, m) - Epoch
    BY DEF FirstOfMonth
  <1>3. YearStart(y) \in Int /\ YearStart(y + 1) \in Int /\ Epoch \in Int
    BY <1>1, YearStartType, EpochValue
  <1>4. MonthShape(y, m) /\ MonthShape(y + 1, 1)
    <2>1. y + 1 \in Int /\ 1 \in 1..12
      BY <1>1
    <2> QED BY <1>1, <2>1, MonthShapes, Zenon
  <1>5. DaysIn(y, m) \in Int
    BY DEF DaysIn
  <1>6. CASE m < 12
    <2>1. (n + 1) \div 12 = y /\ ((n + 1) % 12) + 1 = m + 1
      BY <1>6
    <2>2. FirstOfMonth(n + 1) = YearStart(y) + MonthStart(y, m + 1) - Epoch
      BY <2>1 DEF FirstOfMonth
    <2> HIDE DEF y, m
    <2>3. MonthStart(y, m) \in Int /\ MonthStart(y, m + 1) = MonthStart(y, m) + DaysIn(y, m)
      BY <1>4, <1>6 DEF MonthShape
    <2>4. FirstOfMonth(n + 1) = FirstOfMonth(n) + DaysIn(y, m)
      BY <1>2, <1>3, <1>5, <2>2, <2>3
    <2> QED BY <2>4 DEF y, m
  <1>7. CASE m = 12
    <2>1. (n + 1) \div 12 = y + 1 /\ ((n + 1) % 12) + 1 = 1
      BY <1>7
    <2>2. FirstOfMonth(n + 1) = YearStart(y + 1) + MonthStart(y + 1, 1) - Epoch
      BY <2>1 DEF FirstOfMonth
    <2> HIDE DEF y, m
    <2>3. /\ MonthStart(y + 1, 1) = 0 /\ MonthStart(y, m) \in Int
          /\ MonthStart(y, m) + DaysIn(y, m) = IF Leap(y) THEN 366 ELSE 365
      BY <1>4, <1>7 DEF MonthShape
    <2>4. YearStart(y + 1) = YearStart(y) + (IF Leap(y) THEN 366 ELSE 365)
      BY <1>1, YearLength
    <2>5. FirstOfMonth(n + 1) = FirstOfMonth(n) + DaysIn(y, m)
      BY <1>2, <1>3, <1>5, <2>2, <2>3, <2>4
    <2> QED BY <2>5 DEF y, m
  <1> QED BY <1>1, <1>6, <1>7

(* Later months start later. *)
LEMMA FirstOfMonthIncreases ==
    ASSUME NEW i \in Int, NEW j \in Int, i < j
    PROVE  FirstOfMonth(i) < FirstOfMonth(j)
  <1>1. NearAverage(i) /\ NearAverage(j)
    BY FirstOfMonthNear, Zenon
  <1> QED BY <1>1, EpochValue DEF NearAverage

(* MonthOf finds the month of any day. *)
LEMMA MonthOfDay ==
    ASSUME NEW d \in Int
    PROVE  /\ MonthOf(d) \in Int
           /\ FirstOfMonth(MonthOf(d)) <= d
           /\ d < FirstOfMonth(MonthOf(d) + 1)
  <1> DEFINE g == (1600 * (d + Epoch)) \div 48699
             P(n) == FirstOfMonth(n) <= d /\ d < FirstOfMonth(n + 1)
  <1>1. g \in Int /\ 48699 * g <= 1600 * (d + Epoch) /\ 1600 * (d + Epoch) < 48699 * g + 48699
    BY EpochValue
  <1>2. MonthOf(d) = CHOOSE n \in (g - 1)..(g + 1) : P(n)
    BY DEF MonthOf
  <1>3. \E n \in (g - 1)..(g + 1) : P(n)
    <2> HIDE DEF g
    <2>0. g \in Int /\ g - 1 \in Int /\ g + 1 \in Int /\ g + 2 \in Int
      BY <1>1
    <2>1. /\ FirstOfMonth(g - 1) \in Int /\ FirstOfMonth(g) \in Int
          /\ FirstOfMonth(g + 1) \in Int /\ FirstOfMonth(g + 2) \in Int
      BY <2>0, FirstOfMonthType, Zenon
    <2>2. FirstOfMonth(g - 1) <= d
      <3>1. NearAverage(g - 1)
        BY <2>0, FirstOfMonthNear, Zenon
      <3> QED BY <1>1, <3>1, EpochValue DEF NearAverage
    <2>3. d < FirstOfMonth(g + 2)
      <3>1. NearAverage(g + 2)
        BY <2>0, FirstOfMonthNear, Zenon
      <3> QED BY <1>1, <3>1, EpochValue DEF NearAverage
    <2>4. CASE d < FirstOfMonth(g)
      <3>1. (g - 1) + 1 = g /\ g - 1 \in (g - 1)..(g + 1)
        BY <1>1
      <3>2. P(g - 1)
        BY <2>2, <2>4, <3>1
      <3> QED BY <3>1, <3>2
    <2>5. CASE FirstOfMonth(g) <= d /\ d < FirstOfMonth(g + 1)
      <3>1. g \in (g - 1)..(g + 1)
        BY <1>1
      <3> QED BY <2>5, <3>1
    <2>6. CASE FirstOfMonth(g + 1) <= d
      <3>1. (g + 1) + 1 = g + 2 /\ g + 1 \in (g - 1)..(g + 1)
        BY <1>1
      <3>2. P(g + 1)
        BY <2>3, <2>6, <3>1
      <3> QED BY <3>1, <3>2
    <2> QED BY <2>1, <2>4, <2>5, <2>6
  <1> HIDE DEF P, g
  <1>4. MonthOf(d) \in (g - 1)..(g + 1) /\ P(MonthOf(d))
    BY <1>2, <1>3
  <1> QED BY <1>1, <1>4 DEF P

(* The month of a day is the only one that holds it. *)
LEMMA MonthOfUnique ==
    ASSUME NEW d \in Int, NEW n \in Int, FirstOfMonth(n) <= d, d < FirstOfMonth(n + 1)
    PROVE  MonthOf(d) = n
  <1> DEFINE k == MonthOf(d)
  <1>1. k \in Int /\ FirstOfMonth(k) <= d /\ d < FirstOfMonth(k + 1)
    BY MonthOfDay
  <1> HIDE DEF k
  <1>2. /\ FirstOfMonth(k) \in Int /\ FirstOfMonth(k + 1) \in Int
        /\ FirstOfMonth(n) \in Int /\ FirstOfMonth(n + 1) \in Int
    BY <1>1, FirstOfMonthType
  <1>3. ~ (k < n)
    <2> SUFFICES ASSUME k < n PROVE FALSE
      OBVIOUS
    <2>1. k + 1 = n \/ FirstOfMonth(k + 1) < FirstOfMonth(n)
      BY <1>1, FirstOfMonthIncreases
    <2> QED BY <1>1, <1>2, <2>1
  <1>4. ~ (n < k)
    <2> SUFFICES ASSUME n < k PROVE FALSE
      OBVIOUS
    <2>1. n + 1 = k \/ FirstOfMonth(n + 1) < FirstOfMonth(k)
      BY <1>1, FirstOfMonthIncreases
    <2> QED BY <1>1, <1>2, <2>1
  <1> QED BY <1>1, <1>3, <1>4 DEF k

(* A month begins on its own first day. *)
LEMMA MonthOfFirst ==
    ASSUME NEW n \in Int
    PROVE  MonthOf(FirstOfMonth(n)) = n
  <1>1. FirstOfMonth(n) \in Int /\ FirstOfMonth(n) < FirstOfMonth(n + 1)
    BY FirstOfMonthType, FirstOfMonthIncreases
  <1> QED BY <1>1, MonthOfUnique
-----------------------------------------------------------------------------
(* Time buckets *)

Units == {"hour", "day", "month"}

HourOf(t) == t \div 3600
DayOf(t) == t \div 86400

(* Buckets of a unit counted along the time axis. *)
BucketNumber(unit, t) ==
    CASE unit = "hour"  -> HourOf(t)
      [] unit = "day"   -> DayOf(t)
      [] unit = "month" -> MonthOf(DayOf(t))

(* Division towards zero is exact on a multiple. *)
LEMMA QuotOfMultiple ==
    ASSUME NEW k \in Int
    PROVE  Quot(3600 * k, 3600) = k /\ Quot(86400 * k, 86400) = k
  BY DEF Quot

(* The fields of the id of an instant, by its day and by its hour. *)
MonthID(n) == <<n \div 12, (n % 12) + 1>>
DayID(d) == <<MonthOf(d) \div 12, (MonthOf(d) % 12) + 1, d - FirstOfMonth(MonthOf(d)) + 1>>
HourID(d, k) == <<MonthOf(d) \div 12, (MonthOf(d) % 12) + 1, d - FirstOfMonth(MonthOf(d)) + 1, k % 24>>

(* timeID reads nothing else of the instant. *)
LEMMA TimeIDFields ==
    ASSUME NEW t \in Int
    PROVE  /\ timeID("hour", t) = HourID(DayOf(t), HourOf(t))
           /\ timeID("day", t) = DayID(DayOf(t))
           /\ timeID("month", t) = MonthID(MonthOf(DayOf(t)))
  BY DEF timeID, HourID, DayID, MonthID, DayOf, HourOf

(* The hour of an instant, its day and the hour of the day are whole numbers that
   determine each other. *)
LEMMA HoursAndDays ==
    ASSUME NEW t \in Int
    PROVE  /\ HourOf(t) \in Int /\ DayOf(t) \in Int
           /\ DayOf(t) = HourOf(t) \div 24
           /\ 24 * DayOf(t) + (HourOf(t) % 24) = HourOf(t)
  BY DEF HourOf, DayOf

(* Parsing the id of an instant gives the instant at which its bucket starts. *)
LEMMA ParseOfID ==
    ASSUME NEW t \in Int
    PROVE  /\ ParseDate("hour", timeID("hour", t)) = 3600 * HourOf(t)
           /\ ParseDate("day", timeID("day", t)) = 86400 * DayOf(t)
  <1> DEFINE d == DayOf(t)  n == MonthOf(d)  f == FirstOfMonth(n)  h == HourOf(t) % 24
             y == n \div 12  m == (n % 12) + 1
  <1>1. d \in Int /\ HourOf(t) \in Int /\ h \in Int /\ 24 * d + h = HourOf(t)
    BY HoursAndDays
  <1>2. n \in Int
    BY <1>1, MonthOfDay
  <1>3. f \in Int
    BY <1>2, FirstOfMonthType
  <1>4. y \in Int /\ m \in Int /\ 12 * y + m - 1 = n
    BY <1>2
  <1>5. /\ timeID("hour", t) = <<y, m, d - f + 1, h>>
        /\ timeID("day", t) = <<y, m, d - f + 1>>
    BY TimeIDFields, Zenon DEF HourID, DayID
  <1>6. FirstOfMonth(12 * y + m - 1) = f
    BY <1>4
  <1> HIDE DEF d, n, f, h, y, m
  <1>7. ParseDate("hour", <<y, m, d - f + 1, h>>) = 86400 * (f + (d - f + 1) - 1) + 3600 * h
    BY <1>6 DEF ParseDate
  <1>8. ParseDate("day", <<y, m, d - f + 1>>) = 86400 * (f + (d - f + 1) - 1) + 0
    BY <1>6 DEF ParseDate
  <1>9. /\ ParseDate("hour", timeID("hour", t)) = 3600 * HourOf(t)
        /\ ParseDate("day", timeID("day", t)) = 86400 * d
    BY <1>1, <1>3, <1>5, <1>7, <1>8
  <1> QED BY <1>9 DEF d

(* Index of the id of an instant is the number of its bucket. *)
LEMMA IndexOfID ==
    ASSUME NEW unit \in Units, NEW t \in Int
    PROVE  /\ Index(unit, timeID(unit, t)) = BucketNumber(unit, t)
           /\ BucketNumber(unit, t) \in Int
  <1>1. CASE unit = "hour"
    <2>1. Index(unit, timeID(unit, t)) = Quot(3600 * HourOf(t), 3600)
      BY <1>1, ParseOfID DEF Index
    <2> QED BY <1>1, <2>1, QuotOfMultiple, HoursAndDays DEF BucketNumber
  <1>2. CASE unit = "day"
    <2>1. Index(unit, timeID(unit, t)) = Quot(86400 * DayOf(t), 86400)
      BY <1>2, ParseOfID DEF Index
    <2> QED BY <1>2, <2>1, QuotOfMultiple, HoursAndDays DEF BucketNumber
  <1>3. CASE unit = "month"
    <2> DEFINE n == MonthOf(DayOf(t))
    <2>1. n \in Int
      BY MonthOfDay, HoursAndDays
    <2>2. timeID(unit, t) = MonthID(n)
      BY <1>3, TimeIDFields
    <2>3. BucketNumber(unit, t) = n
      BY <1>3 DEF BucketNumber
    <2> HIDE DEF n
    <2>4. Index(unit, timeID(unit, t)) = (n \div 12) * 12 + ((n % 12) + 1) - 1
      BY <1>3, <2>2 DEF Index, MonthID
    <2> QED BY <2>1, <2>3, <2>4
  <1> QED BY <1>1, <1>2, <1>3 DEF Units

(* Instants of one bucket have one id, and instants of different buckets have
   different ids. *)
LEMMA SameIDSameBucket ==
    ASSUME NEW unit \in Units, NEW t \in Int, NEW u \in Int
    PROVE  timeID(unit, t) = timeID(unit, u) <=> BucketNumber(unit, t) = BucketNumber(unit, u)
  <1>1. timeID(unit, t) = timeID(unit, u) => BucketNumber(unit, t) = BucketNumber(unit, u)
    <2>1. /\ Index(unit, timeID(unit, t)) = BucketNumber(unit, t)
          /\ Index(unit, timeID(unit, u)) = BucketNumber(unit, u)
      BY IndexOfID
    <2> QED BY <2>1
  <1>2. ASSUME BucketNumber(unit, t) = BucketNumber(unit, u)
        PROVE  timeID(unit, t) = timeID(unit, u)
    <2>1. CASE unit = "hour"
      <3>1. HourOf(t) = HourOf(u)
        BY <1>2, <2>1 DEF BucketNumber
      <3>2. DayOf(t) = DayOf(u)
        BY <3>1, HoursAndDays
      <3> QED BY <2>1, <3>1, <3>2, TimeIDFields, Zenon
    <2>2. CASE unit = "day"
      <3>1. DayOf(t) = DayOf(u)
        BY <1>2, <2>2 DEF BucketNumber
      <3> QED BY <2>2, <3>1, TimeIDFields, Zenon
    <2>3. CASE unit = "month"
      <3>1. MonthOf(DayOf(t)) = MonthOf(DayOf(u))
        BY <1>2, <2>3 DEF BucketNumber
      <3> QED BY <2>3, <3>1, TimeIDFields, Zenon
    <2> QED BY <2>1, <2>2, <2>3 DEF Units
  <1> QED BY <1>1, <1>2

(* From an hour to the next the bucket stays or the next one begins. *)
LEMMA NextHour ==
    ASSUME NEW unit \in Units, NEW h \in Int
    PROVE  BucketNumber(unit, 3600 * (h + 1)) - BucketNumber(unit, 3600 * h) \in {0, 1}
  <1> DEFINE d == DayOf(3600 * h)  e == DayOf(3600 * (h + 1))
  <1>1. d \in Int /\ e \in Int /\ (e = d \/ e = d + 1)
    BY DEF DayOf
  <1>2. CASE unit = "hour"
    <2>1. HourOf(3600 * (h + 1)) = h + 1 /\ HourOf(3600 * h) = h
      BY DEF HourOf
    <2> QED BY <1>2, <2>1 DEF BucketNumber
  <1>3. CASE unit = "day"
    <2>1. BucketNumber(unit, 3600 * (h + 1)) = e /\ BucketNumber(unit, 3600 * h) = d
      BY <1>3 DEF BucketNumber
    <2> HIDE DEF d, e
    <2> QED BY <1>1, <2>1
  <1>4. CASE unit = "month"
    <2>1. BucketNumber(unit, 3600 * (h + 1)) = MonthOf(e) /\ BucketNumber(unit, 3600 * h) = MonthOf(d)
      BY <1>4 DEF BucketNumber
    <2> HIDE DEF d, e
    <2> DEFINE n == MonthOf(d)
    <2>2. n \in Int /\ FirstOfMonth(n) <= d /\ d < FirstOfMonth(n + 1)
      BY <1>1, MonthOfDay
    <2> HIDE DEF n
    <2>3. FirstOfMonth(n) \in Int /\ FirstOfMonth(n + 1) \in Int
      BY <2>2, FirstOfMonthType
    <2>4. CASE e < FirstOfMonth(n + 1)
      <3>1. FirstOfMonth(n) <= e
        BY <1>1, <2>2, <2>3
      <3>2. MonthOf(e) = n
        BY <1>1, <2>2, <2>4, <3>1, MonthOfUnique
      <3> QED BY <2>1, <2>2, <3>2 DEF n
    <2>5. CASE e = FirstOfMonth(n + 1)
      <3>1. n + 1 \in Int
        BY <2>2
      <3>2. MonthOf(e) = n + 1
        BY <2>5, <3>1, MonthOfFirst
      <3> QED BY <2>1, <2>2, <3>2 DEF n
    <2> QED BY <1>1, <2>2, <2>3, <2>4, <2>5
  <1> QED BY <1>2, <1>3, <1>4 DEF Units
-----------------------------------------------------------------------------
(* Numeric buckets *)

(* The quotient of a division by a positive number, rounded down. *)
LEMMA FloorBounds ==
    ASSUME NEW n \in Int, NEW w \in Nat \ {0}
    PROVE  /\ n \div w \in Int
           /\ w * (n \div w) <= n
           /\ n < w * (n \div w) + w
  OBVIOUS

(* No other number satisfies these bounds. *)
LEMMA FloorUnique ==
    ASSUME NEW n \in Int, NEW w \in Nat \ {0}, NEW q \in Int, w * q <= n, n < w * q + w
    PROVE  n \div w = q
  OBVIOUS

(* Division towards zero of a number lowered by w - 1 rounds down when it is negative. *)
LEMMA NegativeQuotient ==
    ASSUME NEW n \in Int, NEW w \in Nat \ {0}, n < 0
    PROVE  Quot(n - w + 1, w) = n \div w
  <1> DEFINE q == n \div w  a == w - 1 - n
  <1>1. q \in Int /\ w * q \in Int /\ w * q <= n /\ n < w * q + w
    BY FloorBounds
  <1>2. a \in Int /\ n - w + 1 < 0 /\ -(n - w + 1) = a
    OBVIOUS
  <1> HIDE DEF q
  <1>3. -q \in Int /\ w * (-q) = -(w * q)
    BY <1>1
  <1>4. w * (-q) <= a /\ a < w * (-q) + w
    BY <1>1, <1>3
  <1> HIDE DEF a
  <1>5. a \div w = -q
    BY <1>2, <1>3, <1>4, FloorUnique
  <1>6. Quot(n - w + 1, w) = -(a \div w)
    BY <1>2 DEF Quot
  <1>7. Quot(n - w + 1, w) = q
    BY <1>1, <1>5, <1>6
  <1> QED BY <1>7 DEF q

(* The range of int64 is one longer below zero than above. *)
LEMMA IntRange == MinInt \in Int /\ MaxInt \in Int /\ MaxInt = -MinInt - 1
  <1>1. 2^(IntBits - 1) \in Int
    BY WidthAssumption
  <1> QED BY <1>1 DEF MinInt, MaxInt

(* The bucket of a key is its floor by width, unless n - width + 1 leaves int64. *)
LEMMA NumericFloor ==
    ASSUME NEW n \in Int64, NEW w \in Int64, w > 0, n >= MinInt + w - 1
    PROVE  numericIndex(n, w) = n \div w
  <1>1. n \in Int /\ w \in Nat \ {0} /\ w <= MaxInt /\ n <= MaxInt
    BY IntRange DEF Int64
  <1>2. CASE n < 0
    <2>1. n - w >= MinInt - 1 /\ n - w < -1 /\ n - w \in Int
      BY <1>1, <1>2, IntRange
    <2>2. CASE n - w >= MinInt
      <3>1. Wrap(n - w) = n - w
        BY <1>1, <2>1, <2>2, IntRange DEF Wrap
      <3>2. Wrap(n - w + 1) = n - w + 1
        BY <1>1, <2>1, <2>2, IntRange DEF Wrap
      <3> QED BY <1>1, <1>2, <3>1, <3>2, NegativeQuotient, Zenon DEF numericIndex
    <2>3. CASE n - w = MinInt - 1
      <3>1. Wrap(n - w) = MaxInt
        BY <1>1, <2>3, IntRange DEF Wrap
      <3>2. Wrap(MaxInt + 1) = n - w + 1
        BY <1>1, <2>3, IntRange DEF Wrap
      <3> QED BY <1>1, <1>2, <3>1, <3>2, NegativeQuotient, Zenon DEF numericIndex
    <2> QED BY <2>1, <2>2, <2>3, IntRange
  <1>3. CASE n >= 0
    BY <1>1, <1>3 DEF numericIndex, Quot
  <1> QED BY <1>1, <1>2, <1>3
-----------------------------------------------------------------------------
(* Hash buckets *)

(* The order of the naturals as a set of pairs. *)
Below == {ss \in Nat \X Nat : ss[1] < ss[2]}

(* It is well-founded. *)
LEMMA BelowWellFounded == IsWellFoundedOn(Below, Nat)
  <1>1. OpToRel(<, Nat) = Below
    BY Zenon DEF OpToRel, Below
  <1> QED BY <1>1, NatLessThanWellFounded, Zenon

(* A set of naturals that is not empty has a least member. *)
LEMMA LeastNatural ==
    ASSUME NEW T \in SUBSET Nat, T # {}
    PROVE  \E m \in T : \A k \in T : m <= k
  <1>1. PICK m \in T : \A k \in T : ~ (<<k, m>> \in Below)
    BY BelowWellFounded, WFMin, Zenon
  <1>2. ASSUME NEW k \in T
        PROVE  m <= k
    <2>1. m \in Nat /\ k \in Nat
      OBVIOUS
    <2>2. k < m => <<k, m>> \in Below
      BY <2>1 DEF Below
    <2>3. ~ (k < m)
      BY <1>1, <2>2, Zenon
    <2> QED BY <2>1, <2>3
  <1> QED BY <1>2

(* What digits computes at n, from its value at n \div 10. *)
DigitStep(f, n) == IF n = 0 THEN 0 ELSE 1 + f[n \div 10]

(* g counts digits up to m. *)
DigitsTo(m, g) == g \in [0..m -> Nat] /\ \A n \in 0..m : g[n] = DigitStep(g, n)

(* A tenth of a positive number is smaller. *)
LEMMA Tenth ==
    ASSUME NEW n \in Nat, n # 0
    PROVE  n \div 10 \in Nat /\ n \div 10 < n
  OBVIOUS

(* Two counts agree where both are defined. *)
LEMMA DigitsAgree ==
    ASSUME NEW m \in Nat, NEW g, DigitsTo(m, g), NEW k \in Nat, NEW h, DigitsTo(k, h)
    PROVE  \A n \in Nat : n <= m /\ n <= k => g[n] = h[n]
  <1> DEFINE T == {n \in Nat : n <= m /\ n <= k /\ g[n] # h[n]}
  <1> SUFFICES ASSUME T # {} PROVE FALSE
    OBVIOUS
  <1>1. T \in SUBSET Nat
    OBVIOUS
  <1> HIDE DEF T
  <1>2. PICK a \in T : \A b \in T : a <= b
    BY <1>1, LeastNatural
  <1>3. a \in Nat /\ a <= m /\ a <= k /\ g[a] # h[a]
    BY DEF T
  <1>4. g[a] = DigitStep(g, a) /\ h[a] = DigitStep(h, a)
    BY <1>3 DEF DigitsTo
  <1>5. a # 0
    BY <1>3, <1>4 DEF DigitStep
  <1>6. a \div 10 \in Nat /\ a \div 10 < a
    BY <1>3, <1>5, Tenth
  <1>7. a \div 10 \notin T
    BY <1>2, <1>3, <1>6
  <1>8. g[a \div 10] = h[a \div 10]
    BY <1>3, <1>6, <1>7 DEF T
  <1> QED BY <1>3, <1>4, <1>5, <1>8 DEF DigitStep

(* There is a count up to every number. *)
LEMMA DigitsExist == \A m \in Nat : \E g : DigitsTo(m, g)
  <1> DEFINE T == {m \in Nat : ~ \E g : DigitsTo(m, g)}
  <1> SUFFICES ASSUME T # {} PROVE FALSE
    OBVIOUS
  <1>1. T \in SUBSET Nat
    OBVIOUS
  <1>2. \A m \in Nat : m \notin T => \E g : DigitsTo(m, g)
    OBVIOUS
  <1>3. \A m \in T : m \in Nat /\ ~ \E g : DigitsTo(m, g)
    OBVIOUS
  <1> HIDE DEF T
  <1>4. PICK a \in T : \A b \in T : a <= b
    BY <1>1, LeastNatural
  <1>5. a \in Nat
    BY <1>1
  <1>6. CASE a = 0
    <2> DEFINE g == [n \in 0..0 |-> 0]
    <2>1. DigitsTo(0, g)
      BY DEF DigitsTo, DigitStep
    <2> QED BY <1>3, <1>6, <2>1
  <1>7. CASE a # 0
    <2>1. a - 1 \in Nat /\ a - 1 \notin T
      BY <1>4, <1>5, <1>7
    <2>2. PICK h : DigitsTo(a - 1, h)
      BY <1>2, <2>1
    <2> DEFINE g == [n \in 0..a |-> IF n = a THEN 1 + h[a \div 10] ELSE h[n]]
    <2>3. a \div 10 \in 0..(a - 1) /\ h[a \div 10] \in Nat
      BY <1>5, <1>7, <2>2, Tenth DEF DigitsTo
    <2>4. g \in [0..a -> Nat]
      BY <1>5, <2>2, <2>3 DEF DigitsTo
    <2>5. ASSUME NEW n \in 0..a
          PROVE  g[n] = DigitStep(g, n)
      <3>1. CASE n = a
        <4>1. g[n] = 1 + h[a \div 10] /\ g[a \div 10] = h[a \div 10]
          BY <1>5, <1>7, <2>3, <3>1
        <4> QED BY <1>7, <3>1, <4>1 DEF DigitStep
      <3>2. CASE n # a /\ n # 0
        <4>1. n \in 0..(a - 1) /\ n \div 10 \in 0..(a - 1) /\ n \div 10 # a /\ n \div 10 \in 0..a
          BY <1>5, <3>2, Tenth
        <4>2. g[n] = h[n] /\ g[n \div 10] = h[n \div 10]
          BY <3>2, <4>1
        <4>3. h[n] = DigitStep(h, n)
          BY <2>2, <4>1 DEF DigitsTo
        <4> QED BY <3>2, <4>2, <4>3 DEF DigitStep
      <3>3. CASE n # a /\ n = 0
        <4>1. 0 \in 0..(a - 1) /\ g[0] = h[0]
          BY <1>5, <1>7, <3>3
        <4>2. h[0] = DigitStep(h, 0)
          BY <2>2, <4>1 DEF DigitsTo
        <4> QED BY <3>3, <4>1, <4>2 DEF DigitStep
      <3> QED BY <3>1, <3>2, <3>3
    <2> HIDE DEF g
    <2>6. DigitsTo(a, g)
      BY <2>4, <2>5 DEF DigitsTo
    <2> QED BY <1>3, <2>6
  <1> QED BY <1>6, <1>7

(* digits is the function its definition describes. *)
LEMMA DigitsRecursive ==
    /\ digits \in [Nat -> Nat]
    /\ \A n \in Nat : digits[n] = DigitStep(digits, n)
  <1> DEFINE G(n) == CHOOSE g : DigitsTo(n, g)
             f == [n \in Nat |-> G(n)[n]]
  <1>1. ASSUME NEW n \in Nat
        PROVE  DigitsTo(n, G(n))
    BY DigitsExist
  <1>2. ASSUME NEW n \in Nat
        PROVE  f[n] \in Nat /\ f[n] = DigitStep(f, n)
    <2>1. f[n] = G(n)[n] /\ DigitsTo(n, G(n)) /\ n \in 0..n
      BY <1>1
    <2>2. G(n)[n] \in Nat /\ G(n)[n] = DigitStep(G(n), n)
      BY <2>1, Zenon DEF DigitsTo
    <2>3. CASE n = 0
      BY <2>1, <2>2, <2>3 DEF DigitStep
    <2>4. CASE n # 0
      <3> DEFINE k == n \div 10
      <3>1. k \in Nat /\ k < n
        BY <2>4, Tenth
      <3>2. f[k] = G(k)[k] /\ DigitsTo(k, G(k))
        BY <1>1, <3>1
      <3> HIDE DEF k, G, f
      <3>3. G(n)[k] = G(k)[k]
        BY <2>1, <3>1, <3>2, DigitsAgree
      <3>4. f[k] = G(n)[k]
        BY <3>2, <3>3
      <3>5. DigitStep(f, n) = DigitStep(G(n), n)
        BY <2>4, <3>4 DEF DigitStep, k
      <3> QED BY <2>1, <2>2, <3>5
    <2> QED BY <2>3, <2>4
  <1>3. f = [n \in Nat |-> IF n = 0 THEN 0 ELSE 1 + f[n \div 10]]
    <2>1. \A n \in Nat : f[n] = IF n = 0 THEN 0 ELSE 1 + f[n \div 10]
      BY <1>2 DEF DigitStep
    <2>2. f = [n \in Nat |-> f[n]]
      OBVIOUS
    <2> HIDE DEF f
    <2> QED BY <2>1, <2>2, Zenon
  <1>4. digits = [n \in Nat |-> IF n = 0 THEN 0 ELSE 1 + digits[n \div 10]]
    <2> HIDE DEF f
    <2> QED BY <1>3, Zenon DEF digits
  <1>5. \A n \in Nat : digits[n] = DigitStep(digits, n)
    <2>1. ASSUME NEW d, d = [n \in Nat |-> IF n = 0 THEN 0 ELSE 1 + d[n \div 10]]
          PROVE  \A n \in Nat : d[n] = IF n = 0 THEN 0 ELSE 1 + d[n \div 10]
      BY <2>1, Zenon
    <2>2. \A n \in Nat : digits[n] = IF n = 0 THEN 0 ELSE 1 + digits[n \div 10]
      BY <1>4, <2>1, Zenon
    <2> QED BY <2>2, Zenon DEF DigitStep
  <1>6. \A n \in Nat : digits[n] \in Nat
    <2> DEFINE T == {n \in Nat : digits[n] \notin Nat}
    <2> SUFFICES ASSUME T # {} PROVE FALSE
      OBVIOUS
    <2>1. T \in SUBSET Nat /\ \A n \in Nat : n \in T <=> digits[n] \notin Nat
      OBVIOUS
    <2> HIDE DEF T
    <2>2. PICK a \in T : \A b \in T : a <= b
      BY <2>1, LeastNatural
    <2>3. a \in Nat /\ digits[a] \notin Nat /\ digits[a] = DigitStep(digits, a)
      BY <1>5, <2>1
    <2>4. a # 0
      BY <2>3 DEF DigitStep
    <2>5. a \div 10 \in Nat /\ a \div 10 < a
      BY <2>3, <2>4, Tenth
    <2>6. digits[a \div 10] \in Nat
      BY <2>1, <2>2, <2>3, <2>5
    <2> QED BY <2>3, <2>4, <2>6 DEF DigitStep
  <1>7. DOMAIN digits = Nat /\ digits = [n \in DOMAIN digits |-> digits[n]]
    <2>1. ASSUME NEW d, NEW e, d = [n \in Nat |-> IF n = 0 THEN 0 ELSE 1 + e[n \div 10]]
          PROVE  DOMAIN d = Nat /\ d = [n \in DOMAIN d |-> d[n]]
      BY <2>1
    <2> QED BY <1>4, <2>1, Zenon
  <1>8. ASSUME NEW d, DOMAIN d = Nat /\ d = [n \in DOMAIN d |-> d[n]], \A n \in Nat : d[n] \in Nat
        PROVE  d \in [Nat -> Nat]
    BY <1>8
  <1>9. digits \in [Nat -> Nat]
    BY <1>6, <1>7, <1>8, Zenon
  <1> QED BY <1>5, <1>9, Zenon

(* The numbers of at most w digits are those below p. *)
FitsBelow(w, p) == \A n \in Nat : digits[n] <= w <=> n < p

(* One digit more reaches ten times as far. *)
LEMMA OneDigitMore ==
    ASSUME NEW w \in Nat, NEW p \in Nat, p # 0, FitsBelow(w, p)
    PROVE  FitsBelow(w + 1, 10 * p)
  <1> SUFFICES ASSUME NEW n \in Nat
               PROVE  digits[n] <= w + 1 <=> n < 10 * p
    BY DEF FitsBelow
  <1>1. digits[n] \in Nat /\ digits[n] = DigitStep(digits, n)
    BY DigitsRecursive
  <1>2. CASE n = 0
    BY <1>1, <1>2 DEF DigitStep
  <1>3. CASE n # 0
    <2>1. n \div 10 \in Nat /\ digits[n \div 10] \in Nat
      BY <1>3, Tenth, DigitsRecursive
    <2>2. digits[n] = 1 + digits[n \div 10]
      BY <1>1, <1>3 DEF DigitStep
    <2>3. digits[n \div 10] <= w <=> n \div 10 < p
      BY <2>1 DEF FitsBelow
    <2>4. n \div 10 < p <=> n < 10 * p
      OBVIOUS
    <2> QED BY <2>1, <2>2, <2>3, <2>4
  <1> QED BY <1>2, <1>3

(* digitWidth(n) digits are enough for n, and no fewer are. *)
LEMMA DigitWidthExact ==
    ASSUME NEW n \in Nat, NEW w \in 1..9
    PROVE  w >= digitWidth(n) <=> n < 10^w
  <1>1. FitsBelow(0, 1)
    <2> SUFFICES ASSUME NEW k \in Nat PROVE digits[k] <= 0 <=> k < 1
      BY DEF FitsBelow
    <2>1. digits[k] \in Nat /\ digits[k] = DigitStep(digits, k)
      BY DigitsRecursive
    <2>2. CASE k = 0
      BY <2>1, <2>2 DEF DigitStep
    <2>3. CASE k # 0
      <3>1. digits[k \div 10] \in Nat
        BY <2>3, Tenth, DigitsRecursive
      <3>2. digits[k] = 1 + digits[k \div 10]
        BY <2>1, <2>3 DEF DigitStep
      <3> QED BY <2>1, <2>3, <3>1, <3>2
    <2> QED BY <2>2, <2>3
  <1>2. FitsBelow(1, 10)
    BY <1>1, OneDigitMore
  <1>3. FitsBelow(2, 100)
    BY <1>2, OneDigitMore
  <1>4. FitsBelow(3, 1000)
    BY <1>3, OneDigitMore
  <1>5. FitsBelow(4, 10000)
    BY <1>4, OneDigitMore
  <1>6. FitsBelow(5, 100000)
    BY <1>5, OneDigitMore
  <1>7. FitsBelow(6, 1000000)
    BY <1>6, OneDigitMore
  <1>8. FitsBelow(7, 10000000)
    BY <1>7, OneDigitMore
  <1>9. FitsBelow(8, 100000000)
    BY <1>8, OneDigitMore
  <1>10. FitsBelow(9, 1000000000)
    BY <1>9, OneDigitMore
  <1>11. FitsBelow(w, 10^w) /\ 10^w >= 10 /\ 10^w \in Nat
    <2> DEFINE p == 10^w
    <2>1. w = 1 => p = 10
      OBVIOUS
    <2>2. w = 2 => p = 100
      OBVIOUS
    <2>3. w = 3 => p = 1000
      OBVIOUS
    <2>4. w = 4 => p = 10000
      OBVIOUS
    <2>5. w = 5 => p = 100000
      OBVIOUS
    <2>6. w = 6 => p = 1000000
      OBVIOUS
    <2>7. w = 7 => p = 10000000
      OBVIOUS
    <2>8. w = 8 => p = 100000000
      OBVIOUS
    <2>9. w = 9 => p = 1000000000
      OBVIOUS
    <2> HIDE DEF p
    <2>10. w \in {1, 2, 3, 4, 5, 6, 7, 8, 9}
      OBVIOUS
    <2>11. FitsBelow(w, p)
      <3>1. CASE w = 1
        BY <1>2, <2>1, <3>1
      <3>2. CASE w = 2
        BY <1>3, <2>2, <3>2
      <3>3. CASE w = 3
        BY <1>4, <2>3, <3>3
      <3>4. CASE w = 4
        BY <1>5, <2>4, <3>4
      <3>5. CASE w = 5
        BY <1>6, <2>5, <3>5
      <3>6. CASE w = 6
        BY <1>7, <2>6, <3>6
      <3>7. CASE w = 7
        BY <1>8, <2>7, <3>7
      <3>8. CASE w = 8
        BY <1>9, <2>8, <3>8
      <3>9. CASE w = 9
        BY <1>10, <2>9, <3>9
      <3> QED BY <2>10, <3>1, <3>2, <3>3, <3>4, <3>5, <3>6, <3>7, <3>8, <3>9
    <2>12. p >= 10 /\ p \in Nat
      BY <2>1, <2>2, <2>3, <2>4, <2>5, <2>6, <2>7, <2>8, <2>9, <2>10
    <2> QED BY <2>11, <2>12 DEF p
  <1>12. digits[n] \in Nat /\ (digits[n] <= w <=> n < 10^w)
    BY <1>11, DigitsRecursive DEF FitsBelow
  <1> QED BY <1>11, <1>12 DEF digitWidth
-----------------------------------------------------------------------------
(* The invariant *)

(* A stored configuration is one that Bootstrap validated. *)
Configured ==
    /\ cfg.axis \in {"time", "numeric", "hash"}
    /\ IsBody(cfg.spec)
    /\ {cfg.rd, cfg.mf} \subseteq {NoValue} \cup Int
    /\ ParseSpec(cfg.axis, cfg.spec) # NoValue
    /\ (cfg.mode = "hash") <=> (cfg.axis = "hash")
    /\ cfg.axis = "time" => cfg.rd # NoValue /\ cfg.rd >= 1 /\ cfg.mf # NoValue /\ cfg.mf >= 0

(* The clock is one of Hours, and a key is looked up only in a configured cluster. *)
KeyInv ==
    /\ hour \in Hours
    /\ cfg # NoValue => Configured
    /\ key # NoValue => cfg # NoValue /\ key \in Key(cfg.axis, hour)

(* Zero is an int64. *)
LEMMA ZeroInRange == 0 \in Int64
  BY IntRange, RangeAssumption DEF Int64

(* What ParseSpec returns when it does not refuse. *)
LEMMA ParsedSpec ==
    ASSUME NEW axis, NEW body, ParseSpec(axis, body) # NoValue
    PROVE  /\ body # NoValue
           /\ axis \in {"time", "numeric", "hash"}
           /\ axis = "time" => body.unit \in Units /\ ParseSpec(axis, body) = [axis |-> axis, unit |-> body.unit]
           /\ axis = "numeric" => body.width > 0 /\ ParseSpec(axis, body) = [axis |-> axis, width |-> body.width]
           /\ axis = "hash" => /\ body.bucket_count > 0
                               /\ ParseSpec(axis, body) = [axis |-> axis, bucket_count |-> body.bucket_count]
  <1>1. body # NoValue
    BY Zenon DEF ParseSpec
  <1>2. axis \in {"time", "numeric", "hash"}
    BY <1>1, Zenon DEF ParseSpec
  <1>3. axis = "time" => body.unit \in Units /\ ParseSpec(axis, body) = [axis |-> axis, unit |-> body.unit]
    BY <1>1, Zenon DEF ParseSpec, Units
  <1>4. axis = "numeric" => body.width > 0 /\ ParseSpec(axis, body) = [axis |-> axis, width |-> body.width]
    BY <1>1, Zenon DEF ParseSpec
  <1>5. axis = "hash" => /\ body.bucket_count > 0
                         /\ ParseSpec(axis, body) = [axis |-> axis, bucket_count |-> body.bucket_count]
    BY <1>1, Zenon DEF ParseSpec
  <1> QED BY <1>1, <1>2, <1>3, <1>4, <1>5, Zenon

(* A request that passes validation is stored as a usable configuration. *)
LEMMA BootstrapConfigures ==
    ASSUME NEW req, BootstrapRequest(req), req.spec = NoValue \/ IsBody(req.spec),
           {req.rd, req.mf} \subseteq {NoValue} \cup Int
    PROVE  Configured'
  <1> DEFINE mode == defaultMode(req)  axis == defaultAxis(req)
             c == [mode |-> mode, axis |-> axis, spec |-> req.spec, rd |-> req.rd, mf |-> req.mf]
  <1>1. /\ ValidateBootstrap(mode, axis, req.rd, req.mf)
        /\ ParseSpec(axis, req.spec) # NoValue
        /\ cfg' = c
    BY DEF BootstrapRequest
  <1>2. c.mode = mode /\ c.axis = axis /\ c.spec = req.spec /\ c.rd = req.rd /\ c.mf = req.mf
    OBVIOUS
  <1>3. mode # ""
    BY Zenon DEF defaultMode
  <1> HIDE DEF mode, axis, c
  <1>4. IsBody(req.spec) /\ axis \in {"time", "numeric", "hash"}
    BY <1>1, ParsedSpec
  <1>5. (mode = "hash") <=> (axis = "hash")
    BY <1>1, <1>3, Zenon DEF ValidateBootstrap
  <1>6. axis = "time" => req.rd # NoValue /\ req.rd >= 1 /\ req.mf # NoValue /\ req.mf >= 0
    BY <1>1, <1>3, Zenon DEF ValidateBootstrap
  <1>7. /\ cfg'.mode = mode /\ cfg'.axis = axis /\ cfg'.spec = req.spec
        /\ cfg'.rd = req.rd /\ cfg'.mf = req.mf
    BY <1>1, <1>2, Zenon
  <1> QED BY <1>1, <1>4, <1>5, <1>6, <1>7 DEF Configured

(* The command line builds such requests. *)
LEMMA FlagsAreRequests ==
    ASSUME NEW f \in Flags
    PROVE  /\ IsBody(runBootstrap(f).spec)
           /\ {runBootstrap(f).rd, runBootstrap(f).mf} \subseteq {NoValue} \cup Int
  <1>1. f.width \in Int64 /\ f.buckets \in Int64 /\ f.retention \in Int /\ f.future \in Int
    BY RequestAssumption
  <1>2. ASSUME NEW e, NEW N, N = [unit |-> e, width |-> 0, bucket_count |-> 0, hash_algo |-> e], NEW a, NEW b
        PROVE  /\ [N EXCEPT !.width = a].width = a /\ [N EXCEPT !.width = a].bucket_count = 0
               /\ [N EXCEPT !.bucket_count = a, !.hash_algo = b].width = 0
               /\ [N EXCEPT !.bucket_count = a, !.hash_algo = b].bucket_count = a
               /\ [N EXCEPT !.unit = a].width = 0 /\ [N EXCEPT !.unit = a].bucket_count = 0
    BY <1>2, SMT
  <1>3. /\ IsBody([NoFields EXCEPT !.width = f.width])
        /\ IsBody([NoFields EXCEPT !.bucket_count = f.buckets, !.hash_algo = "xxhash64"])
        /\ IsBody([NoFields EXCEPT !.unit = f.unit])
    BY <1>1, <1>2, ZeroInRange, Zenon DEF IsBody, NoFields
  <1>4. IsBody(runBootstrap(f).spec)
    BY <1>3, Zenon DEF runBootstrap
  <1>5. runBootstrap(f).rd \in {NoValue} \cup Int /\ runBootstrap(f).mf \in {NoValue} \cup Int
    BY <1>1, Zenon DEF runBootstrap
  <1> QED BY <1>4, <1>5, Zenon

(* There is no configuration and no key at first. *)
LEMMA KeyInvInit == KeyInit => KeyInv
  BY DEF KeyInit, KeyInv

(* Bootstrap stores what it validated; lookups and the clock leave it alone. *)
LEMMA KeyInvStep == KeyInv /\ [KeyNext]_keyVars => KeyInv'
  <1> SUFFICES ASSUME KeyInv, [KeyNext]_keyVars PROVE KeyInv'
    OBVIOUS
  <1>1. ASSUME cfg = NoValue, NEW req \in Request, BootstrapRequest(req)
        PROVE  KeyInv'
    <2>1. Configured'
      BY <1>1, RequestAssumption, BootstrapConfigures
    <2>2. hour' = hour /\ key' = key
      BY <1>1 DEF BootstrapRequest
    <2> QED BY <1>1, <2>1, <2>2 DEF KeyInv
  <1>2. ASSUME cfg = NoValue, NEW f \in Flags, BootstrapRequest(runBootstrap(f))
        PROVE  KeyInv'
    <2>1. Configured'
      BY <1>2, FlagsAreRequests, BootstrapConfigures
    <2>2. hour' = hour /\ key' = key
      BY <1>2 DEF BootstrapRequest
    <2> QED BY <1>2, <2>1, <2>2 DEF KeyInv
  <1>3. CASE Lookup
    BY <1>3 DEF Lookup, KeyInv, Configured
  <1>4. CASE Answered
    BY <1>4 DEF Answered, KeyInv, Configured
  <1>5. CASE Tick
    BY <1>5 DEF Tick, KeyInv, Configured
  <1>6. CASE UNCHANGED keyVars
    BY <1>6 DEF keyVars, KeyInv, Configured
  <1> QED BY <1>1, <1>2, <1>3, <1>4, <1>5, <1>6 DEF KeyNext

(* The stored configuration is a validated one, at any time. *)
LEMMA KeyInvariant == KeySpec => []KeyInv
  BY KeyInvInit, KeyInvStep, PTL DEF KeySpec

(* The configuration that routing parses again. *)
LEMMA RoutingConfig ==
    ASSUME KeyInv, cfg # NoValue
    PROVE  /\ Spec # NoValue
           /\ cfg.axis \in {"time", "numeric", "hash"}
           /\ cfg.axis = "time" => /\ Spec.axis = "time" /\ Spec.unit \in Units
                                   /\ retention \in Nat \ {0} /\ maxFuture \in Nat
           /\ cfg.axis = "numeric" => /\ Spec.axis = "numeric" /\ Spec.width = cfg.spec.width
                                      /\ cfg.spec.width \in Int64 /\ cfg.spec.width > 0
           /\ cfg.axis = "hash" => /\ Spec.axis = "hash" /\ Spec.bucket_count = cfg.spec.bucket_count
                                   /\ cfg.spec.bucket_count \in Nat \ {0}
  <1>1. Configured /\ Spec = ParseSpec(cfg.axis, cfg.spec)
    BY DEF KeyInv, Spec
  <1>2. Spec # NoValue /\ cfg.axis \in {"time", "numeric", "hash"}
    BY <1>1 DEF Configured
  <1>3. CASE cfg.axis = "time"
    <2>1. cfg.spec.unit \in Units /\ Spec = [axis |-> "time", unit |-> cfg.spec.unit]
      BY <1>1, <1>2, <1>3, ParsedSpec
    <2>2. Spec.axis = "time" /\ Spec.unit \in Units
      BY <2>1
    <2>3. retention \in Nat \ {0} /\ maxFuture \in Nat
      BY <1>1, <1>3 DEF Configured, retention, maxFuture, orZero
    <2> QED BY <1>2, <1>3, <2>2, <2>3
  <1>4. CASE cfg.axis = "numeric"
    <2>1. cfg.spec.width > 0 /\ Spec = [axis |-> "numeric", width |-> cfg.spec.width]
      BY <1>1, <1>2, <1>4, ParsedSpec
    <2>2. Spec.axis = "numeric" /\ Spec.width = cfg.spec.width
      BY <2>1
    <2>3. cfg.spec.width \in Int64
      BY <1>1 DEF Configured, IsBody
    <2> QED BY <1>2, <1>4, <2>1, <2>2, <2>3
  <1>5. CASE cfg.axis = "hash"
    <2>1. cfg.spec.bucket_count > 0 /\ Spec = [axis |-> "hash", bucket_count |-> cfg.spec.bucket_count]
      BY <1>1, <1>2, <1>5, ParsedSpec
    <2>2. Spec.axis = "hash" /\ Spec.bucket_count = cfg.spec.bucket_count
      BY <2>1
    <2>3. cfg.spec.bucket_count \in Int64
      BY <1>1 DEF Configured, IsBody
    <2>4. cfg.spec.bucket_count \in Nat \ {0}
      BY <2>1, <2>3, IntRange DEF Int64
    <2> QED BY <1>2, <1>5, <2>2, <2>4
  <1> QED BY <1>2, <1>3, <1>4, <1>5
-----------------------------------------------------------------------------
(* The properties *)

(* The key being looked up is one of the keys in use. *)
LEMMA KeyInUse ==
    ASSUME KeyInv, key # NoValue
    PROVE  cfg # NoValue /\ key \in ShardKey
  <1>1. cfg # NoValue /\ key \in Key(cfg.axis, hour) /\ hour \in Hours
    BY DEF KeyInv
  <1>2. cfg.axis \in {"time", "numeric", "hash"}
    BY <1>1, RoutingConfig
  <1> QED BY <1>1, <1>2, KeyAssumption

(* What Bootstrap accepts can be loaded, has one meaning of mode and axis, and has a
   window with the current bucket in it. *)
THEOREM ConfigurationsUsable == KeySpec => []AcceptedIsUsable
  <1>1. KeyInv => AcceptedIsUsable
    <2> SUFFICES ASSUME KeyInv, cfg # NoValue
                 PROVE  /\ Spec # NoValue
                        /\ (cfg.mode = "hash") <=> (cfg.axis = "hash")
                        /\ cfg.axis = "time" => retention >= 1 /\ maxFuture >= 0 /\ NoValue \notin {cfg.rd, cfg.mf}
      BY DEF AcceptedIsUsable
    <2>1. Spec # NoValue /\ (cfg.axis = "time" => retention >= 1 /\ maxFuture >= 0)
      BY RoutingConfig
    <2>2. /\ (cfg.mode = "hash") <=> (cfg.axis = "hash")
          /\ cfg.axis = "time" => NoValue \notin {cfg.rd, cfg.mf}
      BY DEF KeyInv, Configured
    <2> QED BY <2>1, <2>2
  <1> QED BY <1>1, KeyInvariant, PTL

(* An integer that a float64 holds exactly is parsed, printed and read as an instant
   like the float64. *)
LEMMA ExactFloat ==
    ASSUME NEW v \in Int64, NEW k, NEW f, k = [kind |-> "int", v |-> v], f = [kind |-> "float", v |-> v]
    PROVE  /\ parseNumericKey(f) = parseNumericKey(k)
           /\ stringifyKey(f) = stringifyKey(k) /\ stringifyKey(f) = {<<"integer", v>>}
           /\ parseTimeKey(f) = parseTimeKey(k)
  <1>1. Truncated(v) = {v}
    BY DEF Truncated
  <1>2. k.kind = "int" /\ k.v = v /\ f.kind = "float" /\ f.v = v
    OBVIOUS
  <1>3. parseNumericKey(f) = {v} /\ parseNumericKey(k) = {v}
    BY <1>1, <1>2, Zenon DEF parseNumericKey
  <1>4. stringifyKey(f) = {<<"integer", v>>} /\ stringifyKey(k) = {<<"integer", v>>}
    BY <1>1, <1>2, Zenon DEF stringifyKey
  <1>5. parseTimeKey(k) = {UnixTime(v)}
    BY <1>2, SMT DEF parseTimeKey
  <1>6. parseTimeKey(f) = IF v > unixSecondsYear3000 THEN {t \div 1000 : t \in Truncated(v)} ELSE Truncated(v)
    BY <1>2, SMT DEF parseTimeKey
  <1>7. {t \div 1000 : t \in Truncated(v)} = {v \div 1000}
    BY <1>1
  <1>8. parseTimeKey(f) = {UnixTime(v)}
    BY <1>1, <1>6, <1>7, SMT DEF UnixTime
  <1> QED BY <1>3, <1>4, <1>5, <1>8, Zenon

(* The client and the server give a key of a supported type the same routes, although
   on the wire an integer becomes a float64. *)
THEOREM ClientMatchesServer == KeySpec => []LocalMatchesServer
  <1>1. KeyInv => LocalMatchesServer
    <2> SUFFICES ASSUME KeyInv, key # NoValue, Supported(key), key.kind \in {"int", "json"} => Exact(key.v)
                 PROVE  ClassifyWrite(now, key) = ClassifyWrite(now, overWire(key))
      BY DEF LocalMatchesServer
    <2>1. CASE key.kind \notin {"int", "json"}
      BY <2>1, Zenon DEF overWire, Supported
    <2>2. CASE key.kind = "int"
      <3> DEFINE v == key.v  f == overWire(key)
      <3>1. v \in Int64 /\ key = [kind |-> "int", v |-> v]
        BY <2>2, KeyInUse DEF ShardKey
      <3>2. f = [kind |-> "float", v |-> v]
        BY <2>2, Zenon DEF overWire, Exact
      <3>3. /\ parseNumericKey(f) = parseNumericKey(key)
            /\ stringifyKey(f) = stringifyKey(key)
            /\ parseTimeKey(f) = parseTimeKey(key)
        <4> HIDE DEF v, f
        <4> QED BY <3>1, <3>2, ExactFloat
      <3> HIDE DEF f
      <3>4. ID(Spec, f) = ID(Spec, key)
        BY <3>3, Zenon DEF ID
      <3>5. ClassifyWrite(now, f) = ClassifyWrite(now, key)
        BY <3>4, Zenon DEF ClassifyWrite
      <3> QED BY <3>5 DEF f
    <2>3. CASE key.kind = "json"
      <3> DEFINE v == key.v  f == overWire(key)
      <3>1. v \in Int64 /\ cfg # NoValue /\ cfg.axis = "hash"
        BY <2>3, KeyInUse DEF ShardKey, Supported
      <3>2. f = [kind |-> "float", v |-> v]
        BY <2>3, Zenon DEF overWire, Exact
      <3>3. stringifyKey(f) = {<<"integer", v>>}
        <4> HIDE DEF v, f
        <4> QED BY <3>1, <3>2, ExactFloat
      <3>4. stringifyKey(key) = {<<"integer", v>>}
        BY <2>3, Zenon DEF stringifyKey
      <3> HIDE DEF f
      <3>5. Spec.axis = "hash"
        BY <3>1, RoutingConfig
      <3>6. ID(Spec, f) = ID(Spec, key)
        BY <3>3, <3>4, <3>5, Zenon DEF ID
      <3>7. ClassifyWrite(now, f) = ClassifyWrite(now, key)
        BY <3>6, Zenon DEF ClassifyWrite
      <3> QED BY <3>7 DEF f
    <2> QED BY <2>1, <2>2, <2>3
  <1> QED BY <1>1, KeyInvariant, PTL

(* Numeric buckets are floors, also of negative keys, for every width. *)
THEOREM NumericBucketsAreFloors == KeySpec => []NumericIsFloor
  <1>1. KeyInv => NumericIsFloor
    <2> SUFFICES ASSUME KeyInv, key # NoValue, cfg.axis = "numeric", key.kind \in {"int", "digits"},
                        key.v >= MinInt + cfg.spec.width - 1
                 PROVE  ClassifyWrite(now, key) = {BucketRoute(<<"n", Floor(key.v, cfg.spec.width)>>)}
      BY DEF NumericIsFloor
    <2> DEFINE w == cfg.spec.width  v == key.v
    <2>1. cfg # NoValue /\ v \in Int64
      BY KeyInUse DEF ShardKey
    <2>2. w \in Int64 /\ w > 0 /\ Spec.axis = "numeric" /\ Spec.width = w
      BY <2>1, RoutingConfig
    <2>3. numericIndex(v, w) = Floor(v, w)
      <3> HIDE DEF v, w
      <3>1. v >= MinInt + w - 1
        BY DEF v, w
      <3> QED BY <2>1, <2>2, <3>1, NumericFloor DEF Floor
    <2>4. parseNumericKey(key) = {v}
      BY Zenon DEF parseNumericKey
    <2>5. ID(Spec, key) = {<<"n", numericIndex(n, w)>> : n \in {v}}
      BY <2>2, <2>4, Zenon DEF ID
    <2>6. ID(Spec, key) = {<<"n", Floor(v, w)>>}
      BY <2>3, <2>5, Zenon
    <2> QED BY <2>6, Zenon DEF ClassifyWrite
  <1> QED BY <1>1, KeyInvariant, PTL

(* Hash ids have the shortest length that holds the largest of them. *)
THEOREM HashIdsSortAsNumbers == KeySpec => []HashIdsAligned
  <1>1. KeyInv => HashIdsAligned
    <2> SUFFICES ASSUME KeyInv, key # NoValue, cfg.axis = "hash", NEW id \in ID(Spec, key), NEW w \in 1..9
                 PROVE  w >= id[2] <=> cfg.spec.bucket_count - 1 < 10^w
      BY Zenon DEF HashIdsAligned
    <2> DEFINE n == cfg.spec.bucket_count
    <2>1. cfg # NoValue
      BY KeyInUse
    <2>2. n \in Nat \ {0} /\ Spec.axis = "hash" /\ Spec.bucket_count = n
      BY <2>1, RoutingConfig
    <2>3. PICK s \in stringifyKey(key) : id = hashID(Sum64(s), n)
      BY <2>2, Zenon DEF ID
    <2>4. id[2] = digitWidth(n - 1)
      BY <2>3 DEF hashID
    <2> HIDE DEF n
    <2>5. n - 1 \in Nat
      BY <2>2
    <2>6. w >= digitWidth(n - 1) <=> n - 1 < 10^w
      BY <2>5, DigitWidthExact, Zenon
    <2> QED BY <2>4, <2>6, Zenon DEF n
  <1> QED BY <1>1, KeyInvariant, PTL

(* Seconds, milliseconds, a number and a string name one bucket. *)
THEOREM TimeKeysShareBucket == KeySpec => []TimeKeysAgree
  <1>1. KeyInv => TimeKeysAgree
    <2> SUFFICES ASSUME KeyInv, key # NoValue, cfg.axis = "time", key.kind = "int"
                 PROVE  /\ ID(Spec, [key EXCEPT !.kind = "digits"]) = ID(Spec, key)
                        /\ key.v <= unixSecondsYear3000 => ID(Spec, [key EXCEPT !.kind = "rfc3339"]) = ID(Spec, key)
                        /\ key.v \in ((unixSecondsYear3000 \div 1000) + 1)..unixSecondsYear3000
                           /\ key.v <= MaxInt \div 1000 =>
                              ID(Spec, [key EXCEPT !.v = 1000 * key.v]) = ID(Spec, key)
      BY DEF TimeKeysAgree
    <2> DEFINE v == key.v
               d == [key EXCEPT !.kind = "digits"]  r == [key EXCEPT !.kind = "rfc3339"]  m == [key EXCEPT !.v = 1000 * v]
    <2>1. v \in Int64 /\ key = [kind |-> "int", v |-> v]
      BY KeyInUse DEF ShardKey
    <2>2. v \in Int
      BY <2>1, IntRange DEF Int64
    <2>3. /\ d.kind = "digits" /\ d.v = v
          /\ r.kind = "rfc3339" /\ r.v = v
          /\ m.kind = "int" /\ m.v = 1000 * v
      BY <2>1
    <2> HIDE DEF d, r, m, v
    <2>4. key.kind = "int" /\ key.v = v
      BY DEF v
    <2>5. parseTimeKey(key) = {UnixTime(v)}
      BY <2>4, SMT DEF parseTimeKey
    <2>6. parseTimeKey(d) = {UnixTime(v)} /\ parseTimeKey(r) = {v} /\ parseTimeKey(m) = {UnixTime(1000 * v)}
      BY <2>3, SMT DEF parseTimeKey
    <2>7. v <= unixSecondsYear3000 => UnixTime(v) = v
      BY <2>2, ThresholdAssumption DEF UnixTime
    <2>8. v \in ((unixSecondsYear3000 \div 1000) + 1)..unixSecondsYear3000 => UnixTime(1000 * v) = UnixTime(v)
      BY <2>2, ThresholdAssumption DEF UnixTime
    <2>9. ASSUME NEW k, parseTimeKey(k) = parseTimeKey(key)
          PROVE  ID(Spec, k) = ID(Spec, key)
      <3>1. Spec.axis = "time"
        BY KeyInUse, RoutingConfig
      <3> QED BY <2>9, <3>1, Zenon DEF ID
    <2>10. ID(Spec, d) = ID(Spec, key)
      BY <2>5, <2>6, <2>9, Zenon
    <2>11. v <= unixSecondsYear3000 => ID(Spec, r) = ID(Spec, key)
      <3>1. UnixTime(v) = v => parseTimeKey(r) = parseTimeKey(key)
        BY <2>5, <2>6
      <3> QED BY <2>7, <2>9, <3>1, Zenon
    <2>12. v \in ((unixSecondsYear3000 \div 1000) + 1)..unixSecondsYear3000 => ID(Spec, m) = ID(Spec, key)
      <3> HIDE DEF UnixTime
      <3>1. UnixTime(1000 * v) = UnixTime(v) => parseTimeKey(m) = parseTimeKey(key)
        BY <2>5, <2>6
      <3> QED BY <2>8, <2>9, <3>1
    <2> QED BY <2>10, <2>11, <2>12 DEF d, r, m, v
  <1> QED BY <1>1, KeyInvariant, PTL

(* As the clock runs the index moves by one, exactly when the id changes. *)
THEOREM IndexesCountBuckets == KeySpec => IndexCountsBuckets
  <1> DEFINE A == Tick => CurrentIndex' - CurrentIndex =
                      IF CurrentID(Spec, now)' = CurrentID(Spec, now) THEN 0 ELSE 1
  <1>1. ASSUME KeyInv, Tick
        PROVE  CurrentIndex' - CurrentIndex = IF CurrentID(Spec, now)' = CurrentID(Spec, now) THEN 0 ELSE 1
    <2> DEFINE unit == Spec.unit  t == 3600 * hour  u == 3600 * (hour + 1)
    <2>1. cfg # NoValue /\ cfg.axis = "time" /\ cfg' = cfg /\ hour' = hour + 1
      BY <1>1 DEF Tick
    <2>2. hour \in Int /\ t \in Int /\ u \in Int
      <3>1. hour \in Int
        BY <1>1, HourAssumption, Zenon DEF KeyInv
      <3> QED BY <3>1
    <2>3. unit \in Units
      BY <1>1, <2>1, RoutingConfig
    <2>4. Spec' = Spec /\ now = t /\ now' = u
      BY <2>1 DEF Spec, now
    <2> HIDE DEF t, u
    <2>5. CurrentID(Spec, now) = timeID(unit, t) /\ CurrentID(Spec, now)' = timeID(unit, u)
      BY <2>4, Zenon DEF CurrentID
    <2>6. CurrentIndex = Index(unit, timeID(unit, t)) /\ CurrentIndex' = Index(unit, timeID(unit, u))
      <3>1. CurrentIndex = Index(Spec.unit, CurrentID(Spec, now))
        BY Zenon DEF CurrentIndex
      <3>2. CurrentIndex' = Index(Spec'.unit, CurrentID(Spec, now)')
        BY Zenon DEF CurrentIndex
      <3> QED BY <2>4, <2>5, <3>1, <3>2, Zenon
    <2>7. BucketNumber(unit, u) - BucketNumber(unit, t) \in {0, 1}
      <3>1. \A k \in Int : BucketNumber(unit, 3600 * (k + 1)) - BucketNumber(unit, 3600 * k) \in {0, 1}
        BY <2>3, NextHour
      <3> QED BY <2>2, <3>1 DEF t, u
    <2> HIDE DEF unit
    <2>8. /\ Index(unit, timeID(unit, t)) = BucketNumber(unit, t) /\ BucketNumber(unit, t) \in Int
          /\ Index(unit, timeID(unit, u)) = BucketNumber(unit, u) /\ BucketNumber(unit, u) \in Int
      BY <2>2, <2>3, IndexOfID
    <2>9. timeID(unit, u) = timeID(unit, t) <=> BucketNumber(unit, u) = BucketNumber(unit, t)
      BY <2>2, <2>3, SameIDSameBucket
    <2>10. BucketNumber(unit, u) - BucketNumber(unit, t) = IF timeID(unit, u) = timeID(unit, t) THEN 0 ELSE 1
      BY <2>7, <2>8, <2>9
    <2> QED BY <2>5, <2>6, <2>8, <2>10, Zenon
  <1>2. KeyInv => [A]_keyVars
    BY <1>1, Zenon
  <1> HIDE DEF A
  <1>3. KeySpec => [][A]_keyVars
    BY <1>2, KeyInvariant, PTL
  <1> QED BY <1>3 DEF A, IndexCountsBuckets

(* A time bucket in the window, by the instant at which it starts. *)
LEMMA InstantOfBucket ==
    ASSUME KeyInv, cfg # NoValue, cfg.axis = "time", NEW i \in Int, Dated(IDFromIndex(Spec.unit, i))
    PROVE  /\ Instant(i).kind = "rfc3339" /\ Instant(i).v \in Int
           /\ BucketNumber(Spec.unit, Instant(i).v) = i
           /\ HasIndex(Spec.unit, timeID(Spec.unit, Instant(i).v))
  <1> DEFINE unit == Spec.unit  id == IDFromIndex(unit, i)  v == Instant(i).v
  <1>1. unit \in Units
    BY RoutingConfig
  <1>2. Instant(i).kind = "rfc3339" /\ v = ParseDate(unit, IF unit = "month" THEN <<id[1], id[2], 1>> ELSE id)
    BY DEF Instant
  <1>3. id[1] >= 0 /\ id[1] <= 9999 /\ id[2] \in 1..12
    BY DEF Dated
  <1>4. CASE unit = "hour"
    <2>1. i * 3600 \in Int /\ HourOf(i * 3600) = i /\ HourOf(3600 * i) = i /\ 3600 * i \in Int
      BY DEF HourOf
    <2>2. id = timeID("hour", i * 3600)
      BY <1>4 DEF IDFromIndex
    <2>3. v = 3600 * i
      BY <1>2, <1>4, <2>1, <2>2, ParseOfID
    <2>4. BucketNumber("hour", v) = i /\ BucketNumber("hour", i * 3600) = i
      BY <2>1, <2>3 DEF BucketNumber
    <2>5. timeID("hour", v) = id
      BY <2>1, <2>2, <2>3, <2>4, SameIDSameBucket DEF Units
    <2> HIDE DEF unit, id, v
    <2>6. HasIndex(unit, id)
      BY <1>3, <1>4 DEF HasIndex
    <2> QED BY <1>2, <1>4, <2>1, <2>3, <2>4, <2>5, <2>6 DEF unit, v
  <1>5. CASE unit = "day"
    <2>1. i * 86400 \in Int /\ DayOf(i * 86400) = i /\ DayOf(86400 * i) = i /\ 86400 * i \in Int
      BY DEF DayOf
    <2>2. id = timeID("day", i * 86400)
      BY <1>5 DEF IDFromIndex
    <2>3. v = 86400 * i
      BY <1>2, <1>5, <2>1, <2>2, ParseOfID
    <2>4. BucketNumber("day", v) = i /\ BucketNumber("day", i * 86400) = i
      BY <2>1, <2>3 DEF BucketNumber
    <2>5. timeID("day", v) = id
      BY <2>1, <2>2, <2>3, <2>4, SameIDSameBucket DEF Units
    <2> HIDE DEF unit, id, v
    <2>6. HasIndex(unit, id)
      BY <1>3, <1>5 DEF HasIndex
    <2> QED BY <1>2, <1>5, <2>1, <2>3, <2>4, <2>5, <2>6 DEF unit, v
  <1>6. CASE unit = "month"
    <2>1. id = <<Quot(i, 12), Rem(i, 12) + 1>>
      BY <1>6 DEF IDFromIndex
    <2>2. Quot(i, 12) >= 0 /\ Rem(i, 12) + 1 \in 1..12
      BY <1>3, <2>1
    <2>3. 12 * Quot(i, 12) + (Rem(i, 12) + 1) - 1 = i /\ Quot(i, 12) = i \div 12
      BY <2>2 DEF Quot, Rem
    <2>4. v = 86400 * (FirstOfMonth(i) + 1 - 1) + 0
      <3>1. v = ParseDate("month", <<Quot(i, 12), Rem(i, 12) + 1, 1>>)
        BY <1>2, <1>6, <2>1
      <3> QED BY <2>3, <3>1 DEF ParseDate
    <2> DEFINE f == FirstOfMonth(i)
    <2>5. f \in Int
      BY FirstOfMonthType
    <2> HIDE DEF f
    <2>6. v = 86400 * f /\ v \in Int /\ DayOf(v) = f
      <3>1. v = 86400 * f
        BY <2>4, <2>5 DEF f
      <3> HIDE DEF v
      <3> QED BY <2>5, <3>1 DEF DayOf
    <2>7. MonthOf(f) = i
      BY MonthOfFirst DEF f
    <2> HIDE DEF unit, id, v
    <2>8. BucketNumber(unit, v) = i
      BY <1>6, <2>6, <2>7 DEF BucketNumber
    <2>9. timeID(unit, v) = MonthID(i)
      BY <1>6, <2>6, <2>7, TimeIDFields
    <2>10. MonthID(i)[1] = i \div 12
      BY DEF MonthID
    <2>11. HasIndex(unit, timeID(unit, v))
      BY <1>6, <2>2, <2>3, <2>9, <2>10 DEF HasIndex
    <2> QED BY <1>2, <2>6, <2>8, <2>11 DEF unit, v
  <1> QED BY <1>1, <1>4, <1>5, <1>6 DEF Units

(* The window has as many buckets as Bootstrap asks shards for, less the error shard
   and a spare. *)
THEOREM WindowFitsPool == KeySpec => []WindowFitsMinShards
  <1> DEFINE Written == {i \in Near : ClassifyWrite(now, Instant(i)) = {BucketRoute(i)}}
  <1>1. ASSUME KeyInv, cfg # NoValue, cfg.axis = "time", \A i \in Near : Dated(IDFromIndex(Spec.unit, i))
        PROVE  Cardinality(Written) + 2 = MinShards(retention, maxFuture)
    <2> DEFINE unit == Spec.unit  c == CurrentIndex  r == retention  f == maxFuture
    <2>1. unit \in Units /\ r \in Nat \ {0} /\ f \in Nat /\ Spec.axis = "time"
      BY <1>1, RoutingConfig
    <2>2. c \in Int /\ c = Index(unit, CurrentID(Spec, now))
      <3>1. now \in Int
        <4>1. hour \in Int
          BY <1>1, HourAssumption, Zenon DEF KeyInv
        <4> QED BY <4>1 DEF now
      <3>2. c = Index(unit, timeID(unit, now))
        BY DEF CurrentIndex, CurrentID
      <3> QED BY <2>1, <3>1, <3>2, IndexOfID DEF CurrentID
    <2>3. Near = (c - r)..(c + f + 1)
      BY DEF Near
    <2>4. ASSUME NEW i \in Near
          PROVE  ClassifyWrite(now, Instant(i)) = {routeTime(i, c)}
      <3> DEFINE k == Instant(i)
      <3>1. i \in Int
        <4> HIDE DEF c, r, f
        <4> QED BY <2>1, <2>2, <2>3
      <3>2. /\ k.kind = "rfc3339" /\ k.v \in Int
            /\ BucketNumber(unit, k.v) = i
            /\ HasIndex(unit, timeID(unit, k.v))
        BY <1>1, <3>1, InstantOfBucket
      <3>3. Index(unit, timeID(unit, k.v)) = i
        BY <2>1, <3>2, IndexOfID
      <3> HIDE DEF k, unit, c
      <3>4. parseTimeKey(k) = {k.v}
        BY <3>2, SMT DEF parseTimeKey
      <3>5. ID(Spec, k) = {timeID(unit, k.v)}
        <4>1. ID(Spec, k) = {timeID(unit, t) : t \in {k.v}}
          BY <2>1, <3>4, Zenon DEF ID, unit
        <4> QED BY <4>1, Zenon
      <3> DEFINE R(id) == IF HasIndex(unit, id) THEN routeTime(Index(unit, id), c)
                          ELSE ErrorRoute("invalid_shard_key")
      <3>6. ClassifyWrite(now, k) = {R(id) : id \in {timeID(unit, k.v)}}
        BY <1>1, <2>2, <3>5, Zenon DEF ClassifyWrite, unit
      <3>7. R(timeID(unit, k.v)) = routeTime(i, c)
        BY <3>2, <3>3, Zenon
      <3> HIDE DEF R
      <3>8. ClassifyWrite(now, k) = {routeTime(i, c)}
        BY <3>6, <3>7, Zenon
      <3> QED BY <3>8, Zenon DEF k
    <2>5. ASSUME NEW i \in Near
          PROVE  routeTime(i, c) = BucketRoute(i) <=> i \in (c - r + 1)..(c + f)
      <3> HIDE DEF c
      <3>1. i \in Int
        BY <2>1, <2>2, <2>3
      <3>2. BucketRoute(i) # ErrorRoute("bucket_evicted") /\ BucketRoute(i) # ErrorRoute("future_disallowed")
            /\ BucketRoute(i) # ErrorRoute("future_too_far")
        BY DEF BucketRoute, ErrorRoute
      <3> HIDE DEF BucketRoute, ErrorRoute
      <3>3. CASE i < c - r + 1
        BY <2>1, <2>2, <3>1, <3>2, <3>3 DEF routeTime
      <3>4. CASE i \in (c - r + 1)..c
        BY <2>1, <2>2, <3>1, <3>2, <3>4 DEF routeTime
      <3>5. CASE i > c /\ f = 0
        BY <2>1, <2>2, <3>1, <3>2, <3>5 DEF routeTime
      <3>6. CASE i \in (c + 1)..(c + f) /\ f # 0
        BY <2>1, <2>2, <3>1, <3>2, <3>6 DEF routeTime
      <3>7. CASE i > c + f /\ f # 0
        BY <2>1, <2>2, <3>1, <3>2, <3>7 DEF routeTime
      <3> QED BY <2>1, <2>2, <3>1, <3>3, <3>4, <3>5, <3>6, <3>7
    <2> HIDE DEF c, r, f
    <2>6. Written = (c - r + 1)..(c + f)
      <3>1. (c - r + 1)..(c + f) \subseteq Near
        BY <2>1, <2>2, <2>3
      <3>2. \A i \in Near : ClassifyWrite(now, Instant(i)) = {BucketRoute(i)} <=> routeTime(i, c) = BucketRoute(i)
        BY <2>4, Zenon
      <3>3. \A i \in Near : i \in Written <=> i \in (c - r + 1)..(c + f)
        BY <2>5, <3>2, Zenon
      <3> QED BY <3>1, <3>3, Zenon
    <2> HIDE DEF Written
    <2>7. Cardinality((c - r + 1)..(c + f)) = r + f
      <3>1. c - r + 1 \in Int /\ c + f \in Int /\ ~ (c - r + 1 > c + f) /\ (c + f) - (c - r + 1) + 1 = r + f
        BY <2>1, <2>2
      <3> QED BY <3>1, FS_Interval
    <2>8. MinShards(retention, maxFuture) = r + 1 + f + 1
      BY DEF MinShards, r, f
    <2> QED BY <2>1, <2>6, <2>7, <2>8
  <1>2. KeyInv => WindowFitsMinShards
    BY <1>1, Zenon DEF WindowFitsMinShards
  <1> QED BY <1>2, KeyInvariant, PTL
=============================================================================
