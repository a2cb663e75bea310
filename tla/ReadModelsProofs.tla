-------------------------- MODULE ReadModelsProofs --------------------------
(***************************************************************************)
(* Proofs about what is computed from expenses and events: the calendar,    *)
(* the reports, the projections (analytics, audit, budget usage) and the    *)
(* queries that read them.                                                  *)
(***************************************************************************)
EXTENDS Projections, Reports, FiniteSetTheorems, SequenceTheorems, TLAPS

-----------------------------------------------------------------------------
(* The calendar, for every day.  Days and months are numbered; a month k is *)
(* the (k % 12 + 1)-th of year k \div 12.                                   *)

(* Division rounds down. *)
LEMMA DivideBy4 == \A n \in Int : n \div 4 \in Int /\ 4 * (n \div 4) <= n /\ n < 4 * (n \div 4) + 4
OBVIOUS

LEMMA DivideBy100 ==
    \A n \in Int : n \div 100 \in Int /\ 100 * (n \div 100) <= n /\ n < 100 * (n \div 100) + 100
OBVIOUS

LEMMA DivideBy400 ==
    \A n \in Int : n \div 400 \in Int /\ 400 * (n \div 400) <= n /\ n < 400 * (n \div 400) + 400
OBVIOUS

(* Years: they begin in order, are 365 or 366 days long, and every day is in*)
(* one, the one Year finds.                                                 *)
LEMMA YearDaysType == \A y \in Int : DaysBeforeYear(y) \in Int
BY DivideBy4, DivideBy100, DivideBy400 DEF DaysBeforeYear

LEMMA YearsRise ==
    ASSUME NEW a \in Int, NEW b \in Int, a < b
    PROVE  DaysBeforeYear(a) < DaysBeforeYear(b)
<1> DEFINE p == a - 1
           q == b - 1
<1>1. p \in Int /\ q \in Int /\ p < q
  OBVIOUS
<1>2. PICK p4 \in Int, p100 \in Int, p400 \in Int :
          p4 = p \div 4 /\ p100 = p \div 100 /\ p400 = p \div 400
  BY <1>1, DivideBy4, DivideBy100, DivideBy400
<1>3. PICK q4 \in Int, q100 \in Int, q400 \in Int :
          q4 = q \div 4 /\ q100 = q \div 100 /\ q400 = q \div 400
  BY <1>1, DivideBy4, DivideBy100, DivideBy400
<1>4. /\ 4 * p4 <= p /\ p < 4 * p4 + 4 /\ 100 * p100 <= p /\ p < 100 * p100 + 100
      /\ 400 * p400 <= p /\ p < 400 * p400 + 400
  BY <1>1, <1>2, DivideBy4, DivideBy100, DivideBy400
<1>5. /\ 4 * q4 <= q /\ q < 4 * q4 + 4 /\ 100 * q100 <= q /\ q < 100 * q100 + 100
      /\ 400 * q400 <= q /\ q < 400 * q400 + 400
  BY <1>1, <1>3, DivideBy4, DivideBy100, DivideBy400
<1>6. /\ DaysBeforeYear(a) = 365 * p + p4 - p100 + p400
      /\ DaysBeforeYear(b) = 365 * q + q4 - q100 + q400
  BY <1>2, <1>3 DEF DaysBeforeYear
<1> HIDE DEF p, q
<1>7. p4 <= q4 /\ p400 <= q400
  BY <1>1, <1>4, <1>5
<1>8. 100 * q100 - 100 * p100 < q - p + 100
  BY <1>1, <1>4, <1>5
<1>9. q100 - p100 <= q - p
  BY <1>1, <1>8
<1>10. QED
  BY <1>1, <1>6, <1>7, <1>9

LEMMA YearLength ==
    ASSUME NEW y \in Int
    PROVE  DaysBeforeYear(y + 1) = DaysBeforeYear(y) + IF IsLeap(y) THEN 366 ELSE 365
<1>1. y \div 4 = ((y - 1) \div 4) + IF y % 4 = 0 THEN 1 ELSE 0
  OBVIOUS
<1>2. y \div 100 = ((y - 1) \div 100) + IF y % 100 = 0 THEN 1 ELSE 0
  OBVIOUS
<1>3. y \div 400 = ((y - 1) \div 400) + IF y % 400 = 0 THEN 1 ELSE 0
  OBVIOUS
<1>4. (y % 100 = 0 => y % 4 = 0) /\ (y % 400 = 0 => y % 100 = 0)
  OBVIOUS
<1>5. (y + 1) - 1 = y
  OBVIOUS
<1>6. PICK a \in Int, b \in Int, c \in Int :
         a = (y - 1) \div 4 /\ b = (y - 1) \div 100 /\ c = (y - 1) \div 400
  BY DivideBy4, DivideBy100, DivideBy400
<1>7. DaysBeforeYear(y) = 365 * (y - 1) + a - b + c
  BY <1>6 DEF DaysBeforeYear
<1>8. DaysBeforeYear(y + 1) = 365 * y + (a + IF y % 4 = 0 THEN 1 ELSE 0)
          - (b + IF y % 100 = 0 THEN 1 ELSE 0) + (c + IF y % 400 = 0 THEN 1 ELSE 0)
  BY <1>1, <1>2, <1>3, <1>5, <1>6 DEF DaysBeforeYear
<1>9. QED
  BY <1>4, <1>7, <1>8 DEF IsLeap

LEMMA YearExists ==
    ASSUME NEW t \in Int
    PROVE  \E y \in (400 * t) \div 146097 .. ((400 * t) \div 146097) + 2 :
              DaysBeforeYear(y) <= t /\ t < DaysBeforeYear(y + 1)
<1>1. PICK g \in Int : g = (400 * t) \div 146097
  OBVIOUS
<1>2. 146097 * g <= 400 * t /\ 400 * t < 146097 * g + 146097
  BY <1>1
<1>3. DaysBeforeYear(g) <= t
  <2>1. PICK a \in Int, b \in Int, c \in Int :
           a = (g - 1) \div 4 /\ b = (g - 1) \div 100 /\ c = (g - 1) \div 400
    BY DivideBy4, DivideBy100, DivideBy400
  <2>2. /\ 4 * a <= g - 1 /\ g - 1 < 100 * b + 100 /\ 400 * c <= g - 1
    BY <2>1, DivideBy4, DivideBy100, DivideBy400
  <2>3. DaysBeforeYear(g) = 365 * (g - 1) + a - b + c
    BY <2>1 DEF DaysBeforeYear
  <2>4. QED
    BY <1>2, <2>2, <2>3
<1>4. t < DaysBeforeYear(g + 3)
  <2>1. PICK a \in Int, b \in Int, c \in Int :
           a = (g + 3 - 1) \div 4 /\ b = (g + 3 - 1) \div 100 /\ c = (g + 3 - 1) \div 400
    BY DivideBy4, DivideBy100, DivideBy400
  <2>2. /\ g + 3 - 1 < 4 * a + 4 /\ 100 * b <= g + 3 - 1 /\ g + 3 - 1 < 400 * c + 400
    BY <2>1, DivideBy4, DivideBy100, DivideBy400
  <2>3. DaysBeforeYear(g + 3) = 365 * (g + 3 - 1) + a - b + c
    BY <2>1 DEF DaysBeforeYear
  <2>4. QED
    BY <1>2, <2>2, <2>3
<1>5. g + 1 \in Int /\ g + 2 \in Int /\ g + 3 = (g + 2) + 1 /\ g + 2 = (g + 1) + 1
  OBVIOUS
<1>6. DaysBeforeYear(g + 1) \in Int /\ DaysBeforeYear(g + 2) \in Int
  BY <1>5, YearDaysType
<1>7. \E y \in g .. g + 2 : DaysBeforeYear(y) <= t /\ t < DaysBeforeYear(y + 1)
  <2>1. CASE t < DaysBeforeYear(g + 1)
    BY <2>1, <1>3
  <2>2. CASE DaysBeforeYear(g + 1) <= t /\ t < DaysBeforeYear(g + 2)
    BY <2>2, <1>5
  <2>3. CASE DaysBeforeYear(g + 2) <= t
    BY <2>3, <1>4, <1>5
  <2>4. QED
    BY <1>6, <2>1, <2>2, <2>3
<1>8. QED
  BY <1>1, <1>7

LEMMA YearHolds ==
    ASSUME NEW t \in Int
    PROVE  Year(t) \in Int /\ DaysBeforeYear(Year(t)) <= t /\ t < DaysBeforeYear(Year(t) + 1)
<1>1. PICK g \in Int : g = (400 * t) \div 146097
  OBVIOUS
<1>2. Year(t) = CHOOSE y \in g .. g + 2 : DaysBeforeYear(y) <= t /\ t < DaysBeforeYear(y + 1)
  BY <1>1 DEF Year
<1>3. \E y \in g .. g + 2 : DaysBeforeYear(y) <= t /\ t < DaysBeforeYear(y + 1)
  BY <1>1, YearExists
<1>4. Year(t) \in g .. g + 2 /\ DaysBeforeYear(Year(t)) <= t /\ t < DaysBeforeYear(Year(t) + 1)
  BY <1>2, <1>3
<1>5. QED
  BY <1>4

LEMMA YearUnique ==
    ASSUME NEW t \in Int, NEW y \in Int, DaysBeforeYear(y) <= t, t < DaysBeforeYear(y + 1)
    PROVE  Year(t) = y
<1>1. PICK z \in Int : z = Year(t) /\ DaysBeforeYear(z) <= t /\ t < DaysBeforeYear(z + 1)
  BY YearHolds
<1>2. /\ DaysBeforeYear(y) \in Int /\ DaysBeforeYear(z) \in Int
      /\ DaysBeforeYear(y + 1) \in Int /\ DaysBeforeYear(z + 1) \in Int
  BY YearDaysType
<1>3. ~(y + 1 <= z)
  <2>1. y + 1 < z => DaysBeforeYear(y + 1) < DaysBeforeYear(z)
    BY YearsRise
  <2>2. QED
    BY <1>1, <1>2, <2>1
<1>4. ~(z + 1 <= y)
  <2>1. z + 1 < y => DaysBeforeYear(z + 1) < DaysBeforeYear(y)
    BY YearsRise
  <2>2. QED
    BY <1>1, <1>2, <2>1
<1>5. QED
  BY <1>1, <1>3, <1>4

Leap(y) == IF IsLeap(y) THEN 1 ELSE 0

(* Months: where they begin in their year, and that Month finds the one a day*)
(* is in.                                                                   *)
LEMMA MonthTable ==
    ASSUME NEW y
    PROVE  /\ Leap(y) \in 0 .. 1
           /\ DaysBeforeMonth(y, 1) = 0
           /\ DaysBeforeMonth(y, 2) = 31
           /\ DaysBeforeMonth(y, 3) = 59 + Leap(y)
           /\ DaysBeforeMonth(y, 4) = 90 + Leap(y)
           /\ DaysBeforeMonth(y, 5) = 120 + Leap(y)
           /\ DaysBeforeMonth(y, 6) = 151 + Leap(y)
           /\ DaysBeforeMonth(y, 7) = 181 + Leap(y)
           /\ DaysBeforeMonth(y, 8) = 212 + Leap(y)
           /\ DaysBeforeMonth(y, 9) = 243 + Leap(y)
           /\ DaysBeforeMonth(y, 10) = 273 + Leap(y)
           /\ DaysBeforeMonth(y, 11) = 304 + Leap(y)
           /\ DaysBeforeMonth(y, 12) = 334 + Leap(y)
BY DEF DaysBeforeMonth, Leap

LEMMA MonthDaysType ==
    ASSUME NEW y, NEW m \in 1 .. 12
    PROVE  DaysBeforeMonth(y, m) \in 0 .. 335
BY MonthTable

LEMMA MonthExists ==
    ASSUME NEW y \in Int, NEW n \in Nat, n < 365 + Leap(y)
    PROVE  \E m \in (n \div 31) + 1 .. 12 :
              /\ DaysBeforeMonth(y, m) <= n
              /\ m = 12 \/ n < DaysBeforeMonth(y, m + 1)
<1> DEFINE Fits(m) == DaysBeforeMonth(y, m) <= n /\ (m = 12 \/ n < DaysBeforeMonth(y, m + 1))
<1>1. PICK l \in 0 .. 1 : l = Leap(y)
  BY MonthTable
<1>2. n < 31 => n \div 31 <= 0 /\ Fits(1)
  BY <1>1, MonthTable
<1>3. 31 <= n /\ n < 59 + l => n \div 31 <= 1 /\ Fits(2)
  BY <1>1, MonthTable
<1>4. 59 + l <= n /\ n < 90 + l => n \div 31 <= 2 /\ Fits(3)
  BY <1>1, MonthTable
<1>5. 90 + l <= n /\ n < 120 + l => n \div 31 <= 3 /\ Fits(4)
  BY <1>1, MonthTable
<1>6. 120 + l <= n /\ n < 151 + l => n \div 31 <= 4 /\ Fits(5)
  BY <1>1, MonthTable
<1>7. 151 + l <= n /\ n < 181 + l => n \div 31 <= 5 /\ Fits(6)
  BY <1>1, MonthTable
<1>8. 181 + l <= n /\ n < 212 + l => n \div 31 <= 6 /\ Fits(7)
  BY <1>1, MonthTable
<1>9. 212 + l <= n /\ n < 243 + l => n \div 31 <= 7 /\ Fits(8)
  BY <1>1, MonthTable
<1>10. 243 + l <= n /\ n < 273 + l => n \div 31 <= 8 /\ Fits(9)
  BY <1>1, MonthTable
<1>11. 273 + l <= n /\ n < 304 + l => n \div 31 <= 9 /\ Fits(10)
  BY <1>1, MonthTable
<1>12. 304 + l <= n /\ n < 334 + l => n \div 31 <= 10 /\ Fits(11)
  BY <1>1, MonthTable
<1>13. 334 + l <= n => n \div 31 <= 11 /\ Fits(12)
  BY <1>1, MonthTable
<1>14. \E m \in 1 .. 12 : n \div 31 <= m - 1 /\ Fits(m)
  BY <1>1, <1>2, <1>3, <1>4, <1>5, <1>6, <1>7, <1>8, <1>9, <1>10, <1>11, <1>12, <1>13
<1>15. n \div 31 \in Int
  OBVIOUS
<1>16. QED
  BY <1>14, <1>15

LEMMA MonthHolds ==
    ASSUME NEW t \in Int
    PROVE  /\ Month(t) \in 1 .. 12
           /\ DaysBeforeMonth(Year(t), Month(t)) <= t - DaysBeforeYear(Year(t))
           /\ \/ Month(t) = 12
              \/ t - DaysBeforeYear(Year(t)) < DaysBeforeMonth(Year(t), Month(t) + 1)
<1>1. PICK y \in Int : y = Year(t) /\ DaysBeforeYear(y) <= t /\ t < DaysBeforeYear(y + 1)
  BY YearHolds
<1>2. PICK n \in Nat : n = t - DaysBeforeYear(y)
  BY <1>1, YearDaysType
<1>3. n < 365 + Leap(y)
  BY <1>1, <1>2, YearLength, YearDaysType DEF Leap
<1>4. \E m \in (n \div 31) + 1 .. 12 :
         DaysBeforeMonth(y, m) <= n /\ (m = 12 \/ n < DaysBeforeMonth(y, m + 1))
  BY <1>3, MonthExists
<1>5. Month(t) = CHOOSE m \in (n \div 31) + 1 .. 12 :
         DaysBeforeMonth(y, m) <= n /\ (m = 12 \/ n < DaysBeforeMonth(y, m + 1))
  BY <1>1, <1>2 DEF Month
<1>6. /\ Month(t) \in (n \div 31) + 1 .. 12
      /\ DaysBeforeMonth(y, Month(t)) <= n
      /\ Month(t) = 12 \/ n < DaysBeforeMonth(y, Month(t) + 1)
  BY <1>4, <1>5
<1>7. n \div 31 \in Nat
  OBVIOUS
<1>8. Month(t) \in 1 .. 12
  BY <1>6, <1>7
<1>9. QED
  BY <1>1, <1>2, <1>6, <1>8

MonthStart(k) == DaysBeforeYear(k \div 12) + DaysBeforeMonth(k \div 12, (k % 12) + 1)

MonthIndex(t) == 12 * Year(t) + Month(t) - 1

(* Months counted through the years. *)
LEMMA DivideBy12 ==
    ASSUME NEW k \in Int
    PROVE  k \div 12 \in Int /\ k % 12 \in 0 .. 11 /\ k = 12 * (k \div 12) + (k % 12)
OBVIOUS

LEMMA SplitBy12 ==
    ASSUME NEW y \in Int, NEW i \in 0 .. 11
    PROVE  (12 * y + i) \div 12 = y /\ (12 * y + i) % 12 = i
OBVIOUS

(* Where the month with a number begins, by its year. *)
LEMMA MonthStartIs ==
    ASSUME NEW y \in Int, NEW m \in 1 .. 12
    PROVE  MonthStart(12 * y + m - 1) = DaysBeforeYear(y) + DaysBeforeMonth(y, m)
<1>1. PICK i \in 0 .. 11 : i = m - 1 /\ m = i + 1
  OBVIOUS
<1>2. 12 * y + m - 1 = 12 * y + i
  BY <1>1
<1>3. QED
  BY <1>1, <1>2, SplitBy12 DEF MonthStart

LEMMA MonthStartType == \A k \in Int : MonthStart(k) \in Int
<1> TAKE k \in Int
<1>1. PICK y \in Int, m \in 1 .. 12 : y = k \div 12 /\ m = (k % 12) + 1
  BY DivideBy12
<1>2. DaysBeforeYear(y) \in Int /\ DaysBeforeMonth(y, m) \in 0 .. 335
  BY YearDaysType, MonthDaysType
<1>3. QED
  BY <1>1, <1>2 DEF MonthStart

(* Date normalises a month outside the year, as time.Date does. *)
LEMMA DateIs ==
    ASSUME NEW y \in Int, NEW m \in Int, NEW d \in Int
    PROVE  Date(y, m, d) = MonthStart(12 * y + m - 1) + d - 1
<1>1. PICK q \in Int, i \in 0 .. 11 : q = (m - 1) \div 12 /\ i = (m - 1) % 12 /\ m - 1 = 12 * q + i
  BY DivideBy12
<1>2. 12 * y + m - 1 = 12 * (y + q) + i /\ y + q \in Int
  BY <1>1
<1>3. (12 * y + m - 1) \div 12 = y + q /\ (12 * y + m - 1) % 12 = i
  BY <1>2, SplitBy12
<1>4. QED
  BY <1>1, <1>3 DEF Date, MonthStart

LEMMA YearStartIs ==
    ASSUME NEW y \in Int
    PROVE  MonthStart(12 * y) = DaysBeforeYear(y)
<1>1. 12 * y = 12 * y + 1 - 1 /\ 1 \in 1 .. 12
  OBVIOUS
<1>2. QED
  BY <1>1, MonthStartIs, MonthTable, YearDaysType

(* A month has 28 to 31 days. *)
LEMMA MonthLength ==
    ASSUME NEW k \in Int
    PROVE  MonthStart(k + 1) - MonthStart(k) \in 28 .. 31
<1>1. PICK y \in Int, m \in 1 .. 12 : k = 12 * y + m - 1
  <2>1. PICK q \in Int, i \in 0 .. 11 : k = 12 * q + i
    BY DivideBy12
  <2>2. i + 1 \in 1 .. 12 /\ k = 12 * q + (i + 1) - 1
    BY <2>1
  <2>3. QED
    BY <2>2
<1>2. MonthStart(k) = DaysBeforeYear(y) + DaysBeforeMonth(y, m)
  BY <1>1, MonthStartIs
<1>3. CASE m = 12
  <2>1. k + 1 = 12 * (y + 1) /\ y + 1 \in Int
    BY <1>1, <1>3
  <2>2. MonthStart(k + 1) = DaysBeforeYear(y + 1)
    BY <2>1, YearStartIs
  <2>3. DaysBeforeYear(y + 1) = DaysBeforeYear(y) + 365 + Leap(y)
    BY YearLength, YearDaysType DEF Leap
  <2>4. DaysBeforeMonth(y, m) = 334 + Leap(y) /\ Leap(y) \in 0 .. 1
    BY <1>3, MonthTable
  <2>5. QED
    BY <1>2, <2>2, <2>3, <2>4, YearDaysType
<1>4. CASE m # 12
  <2>1. m + 1 \in 1 .. 12 /\ k + 1 = 12 * y + (m + 1) - 1
    BY <1>1, <1>4
  <2>2. MonthStart(k + 1) = DaysBeforeYear(y) + DaysBeforeMonth(y, m + 1)
    BY <2>1, MonthStartIs
  <2>3. DaysBeforeMonth(y, m + 1) - DaysBeforeMonth(y, m) \in 28 .. 31
    BY <1>4, MonthTable
  <2>4. PICK d \in Int, a \in 0 .. 335, b \in 0 .. 335 :
           d = DaysBeforeYear(y) /\ a = DaysBeforeMonth(y, m) /\ b = DaysBeforeMonth(y, m + 1)
    <3>1. DaysBeforeMonth(y, m) \in 0 .. 335
      BY MonthDaysType
    <3>2. DaysBeforeMonth(y, m + 1) \in 0 .. 335
      BY <2>1, MonthDaysType
    <3>3. QED
      BY <3>1, <3>2, YearDaysType
  <2>5. MonthStart(k) = d + a /\ MonthStart(k + 1) = d + b /\ b - a \in 28 .. 31
    BY <1>2, <2>2, <2>3, <2>4
  <2>6. QED
    BY <2>5
<1>5. QED
  BY <1>3, <1>4

(* A day lies in the month its index names, and in no other. *)
LEMMA MonthIndexHolds ==
    ASSUME NEW t \in Int
    PROVE  /\ MonthIndex(t) \in Int
           /\ MonthStart(MonthIndex(t)) <= t /\ t < MonthStart(MonthIndex(t) + 1)
<1>1. PICK y \in Int, m \in 1 .. 12 :
         /\ y = Year(t) /\ m = Month(t) /\ DaysBeforeYear(y) <= t /\ t < DaysBeforeYear(y + 1)
         /\ DaysBeforeMonth(y, m) <= t - DaysBeforeYear(y)
         /\ m = 12 \/ t - DaysBeforeYear(y) < DaysBeforeMonth(y, m + 1)
  BY YearHolds, MonthHolds
<1>2. MonthIndex(t) = 12 * y + m - 1
  BY <1>1 DEF MonthIndex
<1>3. MonthStart(MonthIndex(t)) = DaysBeforeYear(y) + DaysBeforeMonth(y, m)
  BY <1>2, MonthStartIs
<1>4. t < MonthStart(12 * y + m - 1 + 1)
  <2>1. CASE m = 12
    <3>1. 12 * y + m - 1 + 1 = 12 * (y + 1) /\ y + 1 \in Int
      BY <2>1
    <3>2. QED
      BY <1>1, <3>1, YearStartIs
  <2>2. CASE m # 12
    <3>1. m + 1 \in 1 .. 12 /\ 12 * y + m - 1 + 1 = 12 * y + (m + 1) - 1
      BY <2>2
    <3>2. MonthStart(12 * y + m - 1 + 1) = DaysBeforeYear(y) + DaysBeforeMonth(y, m + 1)
      BY <3>1, MonthStartIs
    <3>3. PICK d \in Int, b \in Int : d = DaysBeforeYear(y) /\ b = DaysBeforeMonth(y, m + 1)
      BY <3>1, YearDaysType, MonthDaysType, SMTT(30)
    <3>4. t - d < b /\ MonthStart(12 * y + m - 1 + 1) = d + b
      BY <1>1, <2>2, <3>2, <3>3
    <3>5. QED
      BY <3>4
  <2>3. QED
    BY <2>1, <2>2
<1>5. PICK d \in Int, a \in Int : d = DaysBeforeYear(y) /\ a = DaysBeforeMonth(y, m)
  BY YearDaysType, MonthDaysType, SMTT(30)
<1>6. MonthStart(MonthIndex(t)) <= t
  <2>1. a <= t - d /\ MonthStart(MonthIndex(t)) = d + a
    BY <1>1, <1>3, <1>5
  <2>2. QED
    BY <2>1
<1>7. QED
  BY <1>2, <1>4, <1>6

LEMMA MonthsRise ==
    ASSUME NEW j \in Int, NEW k \in Int, j < k
    PROVE  MonthStart(j) < MonthStart(k)
<1>1. PICK y \in Int, m \in 0 .. 11 : j = 12 * y + m
  BY DivideBy12
<1>2. PICK z \in Int, n \in 0 .. 11 : k = 12 * z + n
  BY DivideBy12
<1>3. /\ m + 1 \in 1 .. 12 /\ n + 1 \in 1 .. 12
      /\ j = 12 * y + (m + 1) - 1 /\ k = 12 * z + (n + 1) - 1
  BY <1>1, <1>2
<1>4. /\ MonthStart(j) = DaysBeforeYear(y) + DaysBeforeMonth(y, m + 1)
      /\ MonthStart(k) = DaysBeforeYear(z) + DaysBeforeMonth(z, n + 1)
  BY <1>3, MonthStartIs
<1>5. PICK a \in 0 .. 335, b \in 0 .. 335, c \in Int, d \in Int, e \in Int :
         /\ a = DaysBeforeMonth(y, m + 1) /\ b = DaysBeforeMonth(z, n + 1)
         /\ c = DaysBeforeYear(y) /\ d = DaysBeforeYear(z) /\ e = DaysBeforeYear(y + 1)
  <2>1. DaysBeforeMonth(y, m + 1) \in 0 .. 335
    BY <1>3, MonthDaysType
  <2>2. DaysBeforeMonth(z, n + 1) \in 0 .. 335
    BY <1>3, MonthDaysType
  <2>3. DaysBeforeYear(y) \in Int /\ DaysBeforeYear(z) \in Int /\ DaysBeforeYear(y + 1) \in Int
    BY YearDaysType
  <2>4. QED
    BY <2>1, <2>2, <2>3
<1>a. MonthStart(j) = c + a /\ MonthStart(k) = d + b
  BY <1>4, <1>5
<1>6. CASE y = z
  <2>1. m < n
    BY <1>1, <1>2, <1>6
  <2>2. DaysBeforeMonth(y, m + 1) < DaysBeforeMonth(y, n + 1)
    BY <2>1, MonthTable
  <2>3. a < b /\ c = d
    BY <1>5, <1>6, <2>2
  <2>4. QED
    BY <1>a, <2>3
<1>7. CASE y < z
  <2>1. DaysBeforeYear(y + 1) <= DaysBeforeYear(z)
    <3>1. y + 1 < z => DaysBeforeYear(y + 1) < DaysBeforeYear(z)
      BY YearsRise
    <3>2. QED
      BY <1>5, <1>7, <3>1
  <2>2. DaysBeforeYear(y) + 365 <= DaysBeforeYear(y + 1)
    BY YearLength, <1>5
  <2>3. e <= d /\ c + 365 <= e
    BY <1>5, <2>1, <2>2
  <2>4. QED
    BY <1>a, <2>3
<1>8. ~(z < y)
  BY <1>1, <1>2
<1>9. QED
  BY <1>6, <1>7, <1>8

LEMMA MonthIndexUnique ==
    ASSUME NEW t \in Int, NEW k \in Int, MonthStart(k) <= t, t < MonthStart(k + 1)
    PROVE  MonthIndex(t) = k
<1>1. PICK j \in Int : j = MonthIndex(t) /\ MonthStart(j) <= t /\ t < MonthStart(j + 1)
  BY MonthIndexHolds
<1>2. /\ MonthStart(k) \in Int /\ MonthStart(j) \in Int
      /\ MonthStart(k + 1) \in Int /\ MonthStart(j + 1) \in Int
  BY MonthStartType
<1>3. k + 1 < j => MonthStart(k + 1) < MonthStart(j)
  BY MonthsRise
<1>4. j + 1 < k => MonthStart(j + 1) < MonthStart(k)
  BY MonthsRise
<1>5. ~(k + 1 <= j)
  BY <1>1, <1>2, <1>3
<1>6. ~(j + 1 <= k)
  BY <1>1, <1>2, <1>4
<1>7. QED
  BY <1>1, <1>5, <1>6

LEMMA YearMonthType == \A t \in Int : Year(t) \in Int /\ Month(t) \in Int
<1> TAKE t \in Int
<1>1. Month(t) \in 1 .. 12
  BY MonthHolds
<1>2. QED
  BY <1>1, YearHolds

LEMMA MonthOfDay ==
    ASSUME NEW k \in Int, NEW d \in Int, 0 <= d, d < MonthStart(k + 1) - MonthStart(k)
    PROVE  MonthIndex(MonthStart(k) + d) = k /\ Day(MonthStart(k) + d) = d + 1
<1>1. PICK a \in Int, b \in Int : a = MonthStart(k) /\ b = MonthStart(k + 1)
  BY MonthStartType
<1>2. PICK t \in Int : t = MonthStart(k) + d /\ t = a + d
  BY <1>1
<1>3. a <= t /\ t < b
  BY <1>1, <1>2
<1>4. MonthIndex(t) = k
  BY <1>1, <1>3, MonthIndexUnique
<1>5. PICK y \in Int, m \in Int : y = Year(t) /\ m = Month(t)
  BY YearMonthType
<1>6. Date(y, m, 1) = a + 1 - 1
  <2>1. Date(y, m, 1) = MonthStart(12 * y + m - 1) + 1 - 1
    BY DateIs
  <2>2. 12 * y + m - 1 = k
    BY <1>4, <1>5 DEF MonthIndex
  <2>3. QED
    BY <1>1, <2>1, <2>2
<1>7. Day(t) = t - a + 1
  BY <1>5, <1>6 DEF Day
<1>8. QED
  BY <1>2, <1>4, <1>7

(* The day of the month counts from the first. *)
LEMMA DayIs ==
    ASSUME NEW t \in Int
    PROVE  /\ Year(t) \in Int /\ Month(t) \in Int /\ MonthIndex(t) \in Int
           /\ Day(t) = t - MonthStart(MonthIndex(t)) + 1
           /\ Day(t) \in Int /\ Day(t) \in 1 .. 31
<1>1. PICK k \in Int : k = MonthIndex(t) /\ MonthStart(k) <= t /\ t < MonthStart(k + 1)
  BY MonthIndexHolds
<1>2. PICK a \in Int, b \in Int : a = MonthStart(k) /\ b = MonthStart(k + 1) /\ b - a \in 28 .. 31
  <2>1. MonthStart(k) \in Int /\ MonthStart(k + 1) \in Int
    BY MonthStartType
  <2>2. MonthStart(k + 1) - MonthStart(k) \in 28 .. 31
    BY MonthLength
  <2>3. QED
    BY <2>1, <2>2
<1>3. PICK d \in Int : d = t - a /\ 0 <= d /\ d < b - a /\ t = a + d
  BY <1>1, <1>2
<1>4. Day(t) = d + 1
  BY <1>2, <1>3, MonthOfDay
<1>5. d + 1 \in Int /\ d + 1 \in 1 .. 31 /\ d + 1 = t - a + 1
  BY <1>2, <1>3
<1>6. Day(t) = t - MonthStart(MonthIndex(t)) + 1 /\ Day(t) \in Int /\ Day(t) \in 1 .. 31
  BY <1>1, <1>2, <1>4, <1>5
<1>7. QED
  BY <1>1, <1>6, YearMonthType

(* AddDate moves the month and then the days. *)
LEMMA AddDateIs ==
    ASSUME NEW t \in Int, NEW years \in Int, NEW months \in Int, NEW days \in Int
    PROVE  AddDate(t, years, months, days)
              = MonthStart(MonthIndex(t) + 12 * years + months) + Day(t) + days - 1
<1>1. PICK y \in Int, m \in Int, d \in Int : y = Year(t) /\ m = Month(t) /\ d = Day(t)
  BY DayIs
<1>2. AddDate(t, years, months, days)
         = MonthStart(12 * (y + years) + (m + months) - 1) + (d + days) - 1
  <2>1. y + years \in Int /\ m + months \in Int /\ d + days \in Int
    OBVIOUS
  <2>2. Date(y + years, m + months, d + days)
           = MonthStart(12 * (y + years) + (m + months) - 1) + (d + days) - 1
    BY <2>1, DateIs
  <2>3. QED
    BY <1>1, <2>2 DEF AddDate
<1>3. 12 * (y + years) + (m + months) - 1 = (12 * y + m - 1) + 12 * years + months
  OBVIOUS
<1>4. PICK s \in Int : s = MonthStart((12 * y + m - 1) + 12 * years + months)
  BY MonthStartType
<1>5. s + (d + days) - 1 = s + d + days - 1
  OBVIOUS
<1>6. QED
  BY <1>1, <1>2, <1>3, <1>4, <1>5 DEF MonthIndex

LEMMA AddDays ==
    ASSUME NEW t \in Int, NEW days \in Int
    PROVE  AddDate(t, 0, 0, days) = t + days
<1>1. PICK k \in Int, s \in Int : k = MonthIndex(t) /\ s = MonthStart(k) /\ Day(t) = t - s + 1
  BY DayIs, MonthStartType
<1>2. AddDate(t, 0, 0, days) = MonthStart(k + 12 * 0 + 0) + Day(t) + days - 1
  BY <1>1, AddDateIs
<1>3. k + 12 * 0 + 0 = k
  OBVIOUS
<1>4. AddDate(t, 0, 0, days) = s + (t - s + 1) + days - 1
  BY <1>1, <1>2, <1>3
<1>5. QED
  BY <1>4

LEMMA StartOfMonth ==
    ASSUME NEW k \in Int
    PROVE  MonthIndex(MonthStart(k)) = k /\ Day(MonthStart(k)) = 1
<1>1. MonthStart(k) \in Int /\ MonthStart(k + 1) \in Int /\ MonthStart(k) + 0 = MonthStart(k)
  BY MonthStartType
<1>2. 0 < MonthStart(k + 1) - MonthStart(k)
  BY <1>1, MonthLength
<1>3. QED
  BY <1>1, <1>2, MonthOfDay

(* From the first of a month it moves by whole months. *)
LEMMA AddMonths ==
    ASSUME NEW k \in Int, NEW years \in Int, NEW months \in Int
    PROVE  AddDate(MonthStart(k), years, months, 0) = MonthStart(k + 12 * years + months)
<1>1. PICK t \in Int : t = MonthStart(k) /\ MonthIndex(t) = k /\ Day(t) = 1
  BY MonthStartType, StartOfMonth
<1>2. PICK s \in Int : s = MonthStart(k + 12 * years + months)
  BY MonthStartType
<1>3. AddDate(t, years, months, 0)
         = MonthStart(MonthIndex(t) + 12 * years + months) + Day(t) + 0 - 1
  BY AddDateIs
<1>4. QED
  BY <1>1, <1>2, <1>3

(* The cases of the calendar functions. *)
LEMMA RollupIs ==
    ASSUME NEW t
    PROVE  /\ RollupPeriodStart("day", t) = t
           /\ RollupPeriodStart("week", t) = AddDate(t, 0, 0, -((Weekday(t) + 6) % 7))
           /\ RollupPeriodStart("month", t) = Date(Year(t), Month(t), 1)
           /\ RollupPeriodStart("year", t) = Date(Year(t), 1, 1)
BY Zenon DEF RollupPeriodStart

LEMMA PeriodEndIs ==
    ASSUME NEW t
    PROVE  /\ periodEnd("day", t) = AddDate(t, 0, 0, 1)
           /\ periodEnd("week", t) = AddDate(t, 0, 0, 7)
           /\ periodEnd("month", t) = AddDate(t, 0, 1, 0)
           /\ periodEnd("year", t) = AddDate(t, 1, 0, 0)
           /\ ReportPeriodEnd("week", t) = AddDate(t, 0, 0, 7)
           /\ ReportPeriodEnd("month", t) = AddDate(t, 0, 1, 0)
           /\ ReportPeriodEnd("year", t) = AddDate(t, 1, 0, 0)
<1>1. /\ ReportPeriodEnd("week", t) = AddDate(t, 0, 0, 7)
      /\ ReportPeriodEnd("month", t) = AddDate(t, 0, 1, 0)
      /\ ReportPeriodEnd("year", t) = AddDate(t, 1, 0, 0)
  BY Zenon DEF ReportPeriodEnd
<1>2. QED
  BY <1>1 DEF periodEnd

LEMMA PreviousIs ==
    ASSUME NEW t
    PROVE  /\ previousPeriodStart("day", t) = AddDate(t, 0, 0, -1)
           /\ previousPeriodStart("week", t) = AddDate(t, 0, 0, -7)
           /\ previousPeriodStart("month", t) = AddDate(t, 0, -1, 0)
           /\ previousPeriodStart("year", t) = AddDate(t, -1, 0, 0)
BY Zenon DEF previousPeriodStart

LEMMA LastCompletedIs ==
    ASSUME NEW t
    PROVE  /\ LastCompletedReportPeriod("week", t)
                 = AddDate(RollupPeriodStart("week", t), 0, 0, -7)
           /\ LastCompletedReportPeriod("month", t)
                 = AddDate(RollupPeriodStart("month", t), 0, -1, 0)
           /\ LastCompletedReportPeriod("year", t)
                 = AddDate(RollupPeriodStart("year", t), -1, 0, 0)
BY Zenon DEF LastCompletedReportPeriod

LEMMA BudgetPeriodIs ==
    /\ budgetPeriodFor("day") = "daily" /\ budgetPeriodFor("week") = "weekly"
    /\ budgetPeriodFor("month") = "monthly" /\ budgetPeriodFor("year") = "yearly"
BY Zenon DEF budgetPeriodFor

(* Where the period a day is in begins. *)
LEMMA WeekStart == \A t \in Int : RollupPeriodStart("week", t) = t - (t % 7)
<1> TAKE t \in Int
<1>1. PICK d \in Int : d = -((((t + 1) % 7) + 6) % 7) /\ d = -(t % 7)
  OBVIOUS
<1>2. RollupPeriodStart("week", t) = AddDate(t, 0, 0, d)
  BY <1>1, RollupIs DEF Weekday
<1>3. RollupPeriodStart("week", t) = t + d
  BY <1>2, AddDays
<1>4. QED
  BY <1>1, <1>3

LEMMA MonthPeriodStart == \A t \in Int : RollupPeriodStart("month", t) = MonthStart(MonthIndex(t))
<1> TAKE t \in Int
<1>1. PICK y \in Int, m \in Int : y = Year(t) /\ m = Month(t)
  BY YearMonthType
<1>2. Date(y, m, 1) = MonthStart(12 * y + m - 1) + 1 - 1
  BY DateIs
<1>3. MonthStart(12 * y + m - 1) \in Int
  BY MonthStartType
<1>4. RollupPeriodStart("month", t) = Date(y, m, 1)
  BY <1>1, RollupIs
<1>5. QED
  BY <1>1, <1>2, <1>3, <1>4 DEF MonthIndex

LEMMA YearPeriodStart == \A t \in Int : RollupPeriodStart("year", t) = MonthStart(12 * Year(t))
<1> TAKE t \in Int
<1>1. PICK y \in Int : y = Year(t)
  BY YearMonthType
<1>2. Date(y, 1, 1) = MonthStart(12 * y + 1 - 1) + 1 - 1
  BY DateIs
<1>3. 12 * y + 1 - 1 = 12 * y /\ MonthStart(12 * y) \in Int
  BY MonthStartType
<1>4. RollupPeriodStart("year", t) = Date(y, 1, 1)
  BY <1>1, RollupIs
<1>5. QED
  BY <1>1, <1>2, <1>3, <1>4

Tiles(p, t, start, end) ==
    /\ start \in Int /\ end \in Int
    /\ RollupPeriodStart(p, t) = start /\ periodEnd(p, start) = end
    /\ start <= t /\ t < end
    /\ RollupPeriodStart(p, start) = start
    /\ RollupPeriodStart(p, end - 1) = start /\ RollupPeriodStart(p, end) = end
    /\ periodEnd(p, previousPeriodStart(p, start)) = start

LastEnds(p, t, start) ==
    /\ ReportPeriodEnd(p, LastCompletedReportPeriod(p, t)) = start
    /\ LastCompletedReportPeriod(p, t) = previousPeriodStart(p, start)

(* The periods of each kind tile the calendar. *)
LEMMA DaysTile == \A t \in Int : Tiles("day", t, t, t + 1)
<1> TAKE t \in Int
<1>1. PICK u \in Int : u = t - 1 /\ u + 1 = t
  OBVIOUS
<1>2. periodEnd("day", t) = t + 1 /\ periodEnd("day", u) = u + 1
  BY PeriodEndIs, AddDays
<1>3. previousPeriodStart("day", t) = t + (-1)
  BY PreviousIs, AddDays
<1>4. t + (-1) = u /\ t + 1 - 1 = t
  BY <1>1
<1>5. \A x : RollupPeriodStart("day", x) = x
  BY RollupIs
<1>6. QED
  BY <1>1, <1>2, <1>3, <1>4, <1>5 DEF Tiles

LEMMA WeeksTile ==
    \A t \in Int : \E s \in Int : Tiles("week", t, s, s + 7) /\ LastEnds("week", t, s)
<1> TAKE t \in Int
<1>1. PICK s \in Int : s = t - (t % 7) /\ s % 7 = 0 /\ s <= t /\ t < s + 7
  OBVIOUS
<1>2. PICK u \in Int, e \in Int, f \in Int : u = s + (-7) /\ e = s + 7 /\ f = e - 1
  OBVIOUS
<1>3. e % 7 = 0 /\ f % 7 = 6
  BY <1>1, <1>2
<1>4. /\ RollupPeriodStart("week", t) = s /\ RollupPeriodStart("week", s) = s
      /\ RollupPeriodStart("week", e) = e /\ RollupPeriodStart("week", f) = s
  BY <1>1, <1>2, <1>3, WeekStart
<1>5. periodEnd("week", s) = e
  BY <1>2, PeriodEndIs, AddDays
<1>6. previousPeriodStart("week", s) = u /\ LastCompletedReportPeriod("week", t) = u
  BY <1>2, <1>4, PreviousIs, LastCompletedIs, AddDays
<1>7. periodEnd("week", u) = s /\ ReportPeriodEnd("week", u) = s
  <2>1. AddDate(u, 0, 0, 7) = u + 7 /\ u + 7 = s
    BY <1>2, AddDays
  <2>2. QED
    BY <2>1, PeriodEndIs
<1>8. Tiles("week", t, s, e)
  BY <1>1, <1>2, <1>4, <1>5, <1>6, <1>7 DEF Tiles
<1>9. QED
  BY <1>2, <1>6, <1>7, <1>8 DEF LastEnds

LEMMA MonthsTile ==
    \A t \in Int : \E s, e \in Int : Tiles("month", t, s, e) /\ LastEnds("month", t, s)
<1> TAKE t \in Int
<1>1. PICK k \in Int : k = MonthIndex(t) /\ MonthStart(k) <= t /\ t < MonthStart(k + 1)
  BY MonthIndexHolds
<1>2. PICK s \in Int, e \in Int, u \in Int :
         s = MonthStart(k) /\ e = MonthStart(k + 1) /\ u = MonthStart(k - 1)
  BY MonthStartType
<1>3. s < e
  BY <1>2, MonthsRise
<1>4. e - 1 \in Int /\ MonthIndex(s) = k /\ MonthIndex(e) = k + 1 /\ MonthIndex(e - 1) = k
  <2>1. MonthIndex(e - 1) = k
    BY <1>2, <1>3, MonthIndexUnique
  <2>2. QED
    BY <1>2, <2>1, StartOfMonth
<1>5. /\ RollupPeriodStart("month", t) = s /\ RollupPeriodStart("month", s) = s
      /\ RollupPeriodStart("month", e) = e /\ RollupPeriodStart("month", e - 1) = s
  BY <1>1, <1>2, <1>4, MonthPeriodStart
<1>6. AddDate(s, 0, 1, 0) = e
  <2>1. k + 12 * 0 + 1 = k + 1
    OBVIOUS
  <2>2. QED
    BY <1>2, <2>1, AddMonths
<1>7. AddDate(s, 0, -1, 0) = u
  <2>1. k + 12 * 0 + (-1) = k - 1
    OBVIOUS
  <2>2. QED
    BY <1>2, <2>1, AddMonths
<1>8. AddDate(u, 0, 1, 0) = s
  <2>1. k - 1 \in Int /\ (k - 1) + 12 * 0 + 1 = k
    OBVIOUS
  <2>2. QED
    BY <1>2, <2>1, AddMonths
<1>9. /\ previousPeriodStart("month", s) = u /\ LastCompletedReportPeriod("month", t) = u
      /\ periodEnd("month", u) = s /\ ReportPeriodEnd("month", u) = s /\ periodEnd("month", s) = e
  BY <1>5, <1>6, <1>7, <1>8, PreviousIs, LastCompletedIs, PeriodEndIs
<1>10. Tiles("month", t, s, e) /\ LastEnds("month", t, s)
  BY <1>1, <1>2, <1>5, <1>9 DEF Tiles, LastEnds
<1>11. QED
  BY <1>10

LEMMA YearsTile ==
    \A t \in Int : \E s, e \in Int : Tiles("year", t, s, e) /\ LastEnds("year", t, s)
<1> TAKE t \in Int
<1>1. PICK y \in Int : y = Year(t) /\ DaysBeforeYear(y) <= t /\ t < DaysBeforeYear(y + 1)
  BY YearHolds
<1>2. PICK s \in Int, e \in Int, u \in Int :
         s = DaysBeforeYear(y) /\ e = DaysBeforeYear(y + 1) /\ u = DaysBeforeYear(y - 1)
  BY YearDaysType
<1>3. s < e /\ e < DaysBeforeYear(y + 1 + 1)
  BY <1>2, YearsRise
<1>4. s = MonthStart(12 * y) /\ e = MonthStart(12 * (y + 1)) /\ u = MonthStart(12 * (y - 1))
  BY <1>2, YearStartIs
<1>5. e - 1 \in Int /\ Year(s) = y /\ Year(e) = y + 1 /\ Year(e - 1) = y
  <2>1. Year(e - 1) = y
    BY <1>2, <1>3, YearUnique
  <2>2. Year(s) = y
    BY <1>2, <1>3, YearUnique
  <2>3. Year(e) = y + 1
    BY <1>2, <1>3, YearUnique
  <2>4. QED
    BY <2>1, <2>2, <2>3
<1>6. /\ RollupPeriodStart("year", t) = s /\ RollupPeriodStart("year", s) = s
      /\ RollupPeriodStart("year", e) = e /\ RollupPeriodStart("year", e - 1) = s
  BY <1>1, <1>4, <1>5, YearPeriodStart
<1>7. AddDate(s, 1, 0, 0) = e
  <2>1. 12 * y \in Int /\ 12 * y + 12 * 1 + 0 = 12 * (y + 1)
    OBVIOUS
  <2>2. QED
    BY <1>4, <2>1, AddMonths
<1>8. AddDate(s, -1, 0, 0) = u
  <2>1. 12 * y \in Int /\ 12 * y + 12 * (-1) + 0 = 12 * (y - 1)
    OBVIOUS
  <2>2. QED
    BY <1>4, <2>1, AddMonths
<1>9. AddDate(u, 1, 0, 0) = s
  <2>1. 12 * (y - 1) \in Int /\ 12 * (y - 1) + 12 * 1 + 0 = 12 * y
    OBVIOUS
  <2>2. QED
    BY <1>4, <2>1, AddMonths
<1>10. /\ previousPeriodStart("year", s) = u /\ LastCompletedReportPeriod("year", t) = u
       /\ periodEnd("year", u) = s /\ ReportPeriodEnd("year", u) = s /\ periodEnd("year", s) = e
  BY <1>6, <1>7, <1>8, <1>9, PreviousIs, LastCompletedIs, PeriodEndIs
<1>11. Tiles("year", t, s, e) /\ LastEnds("year", t, s)
  BY <1>1, <1>2, <1>6, <1>10 DEF Tiles, LastEnds
<1>12. QED
  BY <1>11

(* A budget of a calendar period has the window of the analytics period. *)
LEMMA WindowIs ==
    ASSUME NEW p \in AnalyticsPeriods, NEW t
    PROVE  BudgetWindow([period |-> budgetPeriodFor(p)], t)
              = [from |-> RollupPeriodStart(p, t), to |-> periodEnd(p, RollupPeriodStart(p, t))]
<1> DEFINE b == [period |-> budgetPeriodFor(p)]
           kind == CHOOSE k \in AnalyticsPeriods : budgetPeriodFor(k) = b.period
<1>1. b.period = budgetPeriodFor(p)
  OBVIOUS
<1>2. kind \in AnalyticsPeriods /\ budgetPeriodFor(kind) = budgetPeriodFor(p)
  BY <1>1, Zenon
<1>3. kind = p /\ budgetPeriodFor(p) # "custom"
  <2> HIDE DEF kind
  <2>1. QED
    BY <1>2, BudgetPeriodIs DEF AnalyticsPeriods
<1> HIDE DEF b
<1>4. BudgetWindow(b, t) = [from |-> RollupPeriodStart(kind, t),
                            to |-> periodEnd(kind, RollupPeriodStart(kind, t))]
  BY <1>1, <1>3 DEF BudgetWindow
<1>5. QED
  BY <1>3, <1>4 DEF b

(* So does every period the services use, and the last completed one ends   *)
(* where the current one begins.                                            *)
LEMMA PeriodsAreTiled ==
    ASSUME clock \in Int
    PROVE  PeriodsTile
<1>1. \A p \in AnalyticsPeriods : \E s, e \in Int :
         Tiles(p, clock, s, e) /\ (p \in ReportPeriods => LastEnds(p, clock, s))
  <2> TAKE p \in AnalyticsPeriods
  <2>1. CASE p = "day"
    <3>1. clock + 1 \in Int
      OBVIOUS
    <3>2. QED
      BY <2>1, <3>1, DaysTile DEF ReportPeriods
  <2>2. CASE p = "week"
    <3>1. PICK s \in Int : Tiles("week", clock, s, s + 7) /\ LastEnds("week", clock, s)
      BY WeeksTile
    <3>2. s + 7 \in Int
      OBVIOUS
    <3>3. QED
      BY <2>2, <3>1, <3>2
  <2>3. CASE p = "month"
    BY <2>3, MonthsTile
  <2>4. CASE p = "year"
    BY <2>4, YearsTile
  <2>5. QED
    BY <2>1, <2>2, <2>3, <2>4 DEF AnalyticsPeriods
<1>2. SUFFICES ASSUME NEW p \in AnalyticsPeriods
               PROVE  LET start == RollupPeriodStart(p, clock)
                          end   == periodEnd(p, start)
                      IN  /\ start <= clock /\ clock < end
                          /\ RollupPeriodStart(p, start) = start
                          /\ RollupPeriodStart(p, end - 1) = start
                          /\ RollupPeriodStart(p, end) = end
                          /\ periodEnd(p, previousPeriodStart(p, start)) = start
                          /\ p \in ReportPeriods =>
                                /\ ReportPeriodEnd(p, LastCompletedReportPeriod(p, clock)) = start
                                /\ LastCompletedReportPeriod(p, clock)
                                      = previousPeriodStart(p, start)
                          /\ BudgetWindow([period |-> budgetPeriodFor(p)], clock)
                                = [from |-> start, to |-> end]
  BY Zenon DEF PeriodsTile
<1>3. PICK s \in Int, e \in Int :
         Tiles(p, clock, s, e) /\ (p \in ReportPeriods => LastEnds(p, clock, s))
  BY <1>1
<1>4. RollupPeriodStart(p, clock) = s /\ periodEnd(p, s) = e
  BY <1>3 DEF Tiles
<1>5. BudgetWindow([period |-> budgetPeriodFor(p)], clock) = [from |-> s, to |-> e]
  BY <1>4, WindowIs
<1>6. QED
  BY <1>3, <1>4, <1>5 DEF Tiles, LastEnds

MonthDays(k) == MonthStart(k + 1) - MonthStart(k)

Clamped(k, day) == MonthStart(k) + (IF day > MonthDays(k) THEN MonthDays(k) ELSE day) - 1

LEMMA MonthDaysIs == \A k \in Int : MonthDays(k) \in Int /\ 28 <= MonthDays(k) /\ MonthDays(k) <= 31
<1> TAKE k \in Int
<1>1. MonthStart(k + 1) - MonthStart(k) \in 28 .. 31
  BY MonthLength
<1>2. QED
  BY <1>1 DEF MonthDays

(* The last day of a month is the day before the next. *)
LEMMA LastDayIs ==
    ASSUME NEW k \in Int
    PROVE  MonthStart(k + 1) - 1 \in Int /\ Day(MonthStart(k + 1) - 1) = MonthDays(k)
<1>1. PICK a \in Int, b \in Int : a = MonthStart(k) /\ b = MonthStart(k + 1)
  BY MonthStartType
<1>2. 28 <= b - a
  BY <1>1, MonthDaysIs DEF MonthDays
<1>3. PICK d \in Int : d = b - a - 1 /\ 0 <= d /\ d < b - a /\ a + d = b - 1
  BY <1>2
<1>4. Day(a + d) = d + 1
  BY <1>1, <1>3, MonthOfDay
<1>5. QED
  BY <1>1, <1>3, <1>4 DEF MonthDays

(* The month a recurrence moves to. *)
LEMMA TargetIs ==
    ASSUME NEW t \in Int, NEW n \in Int, NEW k \in Int, k = MonthIndex(t) + n
    PROVE  /\ Date(Year(t), Month(t) + n, 1) = MonthStart(k)
           /\ 12 * Year(MonthStart(k)) + Month(MonthStart(k)) - 1 = k
           /\ Year(MonthStart(k)) \in Int /\ Month(MonthStart(k)) \in Int
<1>1. PICK y \in Int, m \in Int : y = Year(t) /\ m = Month(t) /\ MonthIndex(t) = 12 * y + m - 1
  BY YearMonthType DEF MonthIndex
<1>2. m + n \in Int /\ 12 * y + (m + n) - 1 = k
  BY <1>1
<1>3. Date(y, m + n, 1) = MonthStart(12 * y + (m + n) - 1) + 1 - 1
  BY <1>2, DateIs
<1>4. MonthStart(k) \in Int
  BY MonthStartType
<1>5. MonthIndex(MonthStart(k)) = k
  BY StartOfMonth
<1>6. QED
  BY <1>1, <1>2, <1>3, <1>4, <1>5, YearMonthType DEF MonthIndex

LEMMA DateInMonth ==
    \A y, m, d \in Int :
       /\ Date(y, m, d) = MonthStart(12 * y + m - 1) + d - 1
       /\ Date(y, m + 1, d) = MonthStart(12 * y + m - 1 + 1) + d - 1
<1> TAKE y, m, d \in Int
<1>1. PICK n \in Int : n = m + 1 /\ 12 * y + n - 1 = 12 * y + m - 1 + 1
  OBVIOUS
<1>2. Date(y, m, d) = MonthStart(12 * y + m - 1) + d - 1
  BY DateIs
<1>3. Date(y, n, d) = MonthStart(12 * y + n - 1) + d - 1
  BY DateIs
<1>4. QED
  BY <1>1, <1>2, <1>3

(* AddMonthsClamped gives the anchor day of that month, or its last day. *)
LEMMA AddMonthsClampedIs ==
    ASSUME NEW at \in Int, NEW n \in Int, NEW day \in 1 .. 31
    PROVE  AddMonthsClamped(at, n, day) = Clamped(MonthIndex(at) + n, day)
<1>1. PICK k \in Int : k = MonthIndex(at) + n
  BY DayIs
<1>2. PICK y \in Int, m \in Int :
         /\ y = Year(MonthStart(k)) /\ m = Month(MonthStart(k)) /\ 12 * y + m - 1 = k
         /\ Date(Year(at), Month(at) + n, 1) = MonthStart(k)
  BY <1>1, TargetIs
<1>a. 12 * y + m - 1 = k
  BY <1>2
<1>b. \A d \in Int : /\ Date(y, m, d) = MonthStart(k) + d - 1
                     /\ Date(y, m + 1, d) = MonthStart(k + 1) + d - 1
  <2>1. TAKE d \in Int
  <2>2. Date(y, m, d) = MonthStart(12 * y + m - 1) + d - 1
    BY DateInMonth
  <2>3. Date(y, m + 1, d) = MonthStart(12 * y + m - 1 + 1) + d - 1
    BY DateInMonth
  <2>4. QED
    BY <1>a, <2>2, <2>3
<1>3. daysInMonth(y, m) = MonthDays(k)
  <2>1. Date(y, m + 1, 0) = MonthStart(k + 1) + 0 - 1
    BY <1>b
  <2>2. MonthStart(k + 1) + 0 - 1 = MonthStart(k + 1) - 1
    BY MonthStartType
  <2>3. QED
    BY <2>1, <2>2, LastDayIs DEF daysInMonth
<1>4. PICK d \in Int : d = IF day > MonthDays(k) THEN MonthDays(k) ELSE day
  BY MonthDaysIs
<1>5. ~(day < 1)
  OBVIOUS
<1>6. AddMonthsClamped(at, n, day) = Date(y, m, d)
  BY <1>2, <1>3, <1>4, <1>5 DEF AddMonthsClamped
<1>7. Date(y, m, d) = MonthStart(k) + d - 1
  BY <1>b
<1>8. QED
  BY <1>1, <1>4, <1>6, <1>7 DEF Clamped

LEMMA ClampedStays ==
    ASSUME NEW k \in Int, NEW day \in 1 .. 31
    PROVE  Clamped(k, day) \in Int /\ MonthIndex(Clamped(k, day)) = k
<1>1. PICK a \in Int, l \in Int : a = MonthStart(k) /\ l = MonthDays(k) /\ 28 <= l
  BY MonthStartType, MonthDaysIs
<1>2. PICK d \in Int : d = (IF day > l THEN l ELSE day) - 1 /\ 0 <= d /\ d < l
  BY <1>1
<1>3. Clamped(k, day) = a + d
  BY <1>1, <1>2 DEF Clamped
<1>4. MonthIndex(a + d) = k
  BY <1>1, <1>2, MonthOfDay DEF MonthDays
<1>5. QED
  BY <1>1, <1>3, <1>4

(* The next due date of a payment that is not custom. *)
LEMMA FrequencyMonthsIs ==
    /\ PaymentFrequencyMonths("monthly") = 1
    /\ PaymentFrequencyMonths("quarterly") = 3
    /\ PaymentFrequencyMonths("yearly") = 12
BY Zenon DEF PaymentFrequencyMonths

LEMMA NextDueIs ==
    ASSUME NEW f \in Frequencies \ {"custom"}, NEW t \in Int, NEW at \in Int
    PROVE  /\ PaymentFrequencyMonths(f) \in Int
           /\ NextDueFor([frequency |-> f, interval |-> 0, start |-> t], at)
                 = Clamped(MonthIndex(at) + PaymentFrequencyMonths(f), Day(t))
<1>1. PICK n \in Int : n = PaymentFrequencyMonths(f) /\ n > 0
  BY FrequencyMonthsIs DEF Frequencies
<1>2. \A interval, day :
         NextPaymentDue(f, interval, day, at) = AddMonthsClamped(at, n, day)
  <2>1. PaymentFrequencyMonths(f) > 0 /\ f # "custom"
    BY <1>1
  <2>2. \A interval, day : NextPaymentDue(f, interval, day, at)
            = AddMonthsClamped(at, PaymentFrequencyMonths(f), day)
    BY <2>1, Zenon DEF NextPaymentDue
  <2>3. QED
    BY <1>1, <2>2, Zenon
<1>3. NextDueFor([frequency |-> f, interval |-> 0, start |-> t], at)
         = AddMonthsClamped(at, n, Day(t))
  BY <1>2 DEF NextDueFor
<1>4. Day(t) \in 1 .. 31
  BY DayIs
<1>5. QED
  BY <1>1, <1>3, <1>4, AddMonthsClampedIs

(* A payment on the 31st is due on the last day of a short month and on the *)
(* 31st again after it.                                                     *)
LEMMA RecurrenceKept ==
    ASSUME clock \in Int
    PROVE  RecurrenceKeepsDay
<1> SUFFICES ASSUME NEW f \in Frequencies \ {"custom"}
             PROVE  LET pay   == [frequency |-> f, interval |-> 0, start |-> clock]
                        step  == PaymentFrequencyMonths(f)
                        first == NextDueFor(pay, clock)
                        due   == <<first, NextDueFor(pay, first),
                                   NextDueFor(pay, NextDueFor(pay, first))>>
                    IN  \A n \in 1 .. 3 :
                           LET target == Date(Year(clock), Month(clock) + n * step, 1)
                               last   == Day(Date(Year(target), Month(target) + 1, 1) - 1)
                           IN  due[n] = target + Min({Day(clock), last}) - 1
  BY Zenon DEF RecurrenceKeepsDay
<1> DEFINE pay  == [frequency |-> f, interval |-> 0, start |-> clock]
           step == PaymentFrequencyMonths(f)
           a    == NextDueFor(pay, clock)
           b    == NextDueFor(pay, a)
           due  == <<a, b, NextDueFor(pay, b)>>
           k    == MonthIndex(clock)
           day  == Day(clock)
<1>1. step \in Int /\ k \in Int /\ day \in Int /\ day \in 1 .. 31
  BY NextDueIs, DayIs
<1>2. \A at \in Int : NextDueFor(pay, at) = Clamped(MonthIndex(at) + step, day)
  BY NextDueIs
<1> HIDE DEF pay, step, k, day
<1>3. \A j \in Int : Clamped(j, day) \in Int /\ MonthIndex(Clamped(j, day)) = j
  BY <1>1, ClampedStays
<1>4. k + step \in Int /\ k + step + step \in Int
  BY <1>1
<1>5. a = Clamped(k + step, day)
  BY <1>2 DEF k
<1>6. b = Clamped(k + step + step, day)
  <2>1. a \in Int /\ MonthIndex(a) = k + step
    BY <1>3, <1>4, <1>5
  <2> HIDE DEF a
  <2>2. QED
    BY <1>2, <2>1
<1>7. NextDueFor(pay, b) = Clamped(k + step + step + step, day)
  <2>1. b \in Int /\ MonthIndex(b) = k + step + step
    BY <1>3, <1>4, <1>6
  <2> HIDE DEF b
  <2>2. QED
    BY <1>2, <2>1
<1> HIDE DEF a, b
<1>10. \A n \in 1 .. 3 : due[n] = Clamped(k + n * step, day)
  <2>1. k + 1 * step = k + step /\ k + 2 * step = k + step + step
          /\ k + 3 * step = k + step + step + step
    BY <1>1
  <2>2. due[1] = a /\ due[2] = b /\ due[3] = NextDueFor(pay, b)
    OBVIOUS
  <2>3. /\ due[1] = Clamped(k + 1 * step, day) /\ due[2] = Clamped(k + 2 * step, day)
        /\ due[3] = Clamped(k + 3 * step, day)
    BY <1>5, <1>6, <1>7, <2>1, <2>2
  <2>4. QED
    BY <2>3
<1>11. ASSUME NEW n \in 1 .. 3
       PROVE  LET target == Date(Year(clock), Month(clock) + n * step, 1)
                  last   == Day(Date(Year(target), Month(target) + 1, 1) - 1)
              IN  Clamped(k + n * step, day) = target + Min({day, last}) - 1
  <2>1. PICK i \in Int, m \in Int : i = n * step /\ m = k + i
    BY <1>1
  <2>2. PICK t \in Int : t = MonthStart(m)
    BY MonthStartType
  <2>3. /\ Date(Year(clock), Month(clock) + i, 1) = t
        /\ Year(t) \in Int /\ Month(t) \in Int /\ 12 * Year(t) + Month(t) - 1 = m
    BY <2>1, <2>2, TargetIs DEF k
  <2>4. Date(Year(t), Month(t) + 1, 1) = MonthStart(m + 1) + 1 - 1
    <3>1. PICK y \in Int, c \in Int : y = Year(t) /\ c = Month(t) /\ 12 * y + c - 1 = m
      BY <2>3
    <3>2. Date(y, c + 1, 1) = MonthStart(12 * y + c - 1 + 1) + 1 - 1
      BY DateInMonth
    <3>3. QED
      BY <3>1, <3>2
  <2>5. PICK l \in Int : l = MonthDays(m) /\ Day(Date(Year(t), Month(t) + 1, 1) - 1) = l
    <3>1. MonthStart(m + 1) + 1 - 1 = MonthStart(m + 1)
      BY MonthStartType
    <3>2. QED
      BY <2>4, <3>1, LastDayIs, MonthDaysIs
  <2>6. Min({day, l}) = IF day > l THEN l ELSE day
    BY <1>1 DEF Min
  <2>7. Clamped(m, day) = t + Min({day, l}) - 1
    BY <2>2, <2>5, <2>6 DEF Clamped
  <2>8. QED
    BY <2>1, <2>3, <2>5, <2>7
<1>12. \A n \in 1 .. 3 :
          LET target == Date(Year(clock), Month(clock) + n * step, 1)
              last   == Day(Date(Year(target), Month(target) + 1, 1) - 1)
          IN  due[n] = target + Min({day, last}) - 1
  BY <1>10, <1>11
<1>13. QED
  BY <1>12, Zenon DEF pay, step, a, b, day

-----------------------------------------------------------------------------
(* Listing expenses in pages. *)

(* How many come before x, and what makes that a place. *)
Rank(all, x) == Cardinality({y \in all : Before(y, x)})

Listable(all) ==
    /\ IsFiniteSet(all)
    /\ \A x \in all : x.id \in Int /\ x.day \in Int
    /\ \A x, y \in all : x.id = y.id => x = y

(* The place of an expense in the listing, which no two share. *)
LEMMA RankType ==
    ASSUME NEW all, Listable(all), NEW x \in all
    PROVE  Rank(all, x) \in 0 .. Cardinality(all) - 1
<1> DEFINE low == {y \in all : Before(y, x)}
<1>1. IsFiniteSet(all) /\ x.id \in Int /\ x.day \in Int
  BY DEF Listable
<1>2. ~Before(x, x)
  BY <1>1 DEF Before
<1>3. low \in SUBSET all /\ low # all
  BY <1>2
<1> HIDE DEF low
<1>4. /\ IsFiniteSet(low) /\ Cardinality(low) <= Cardinality(all)
      /\ Cardinality(low) # Cardinality(all)
  BY <1>1, <1>3, FS_Subset
<1>5. Cardinality(low) \in Nat
  BY <1>4, FS_CardinalityType
<1>6. Cardinality(all) \in Nat
  BY <1>1, FS_CardinalityType
<1>7. Cardinality(low) \in 0 .. Cardinality(all) - 1
  BY <1>4, <1>5, <1>6
<1>8. QED
  BY <1>7 DEF Rank, low

LEMMA RankRises ==
    ASSUME NEW all, Listable(all), NEW x \in all, NEW y \in all, Before(x, y)
    PROVE  Rank(all, x) # Rank(all, y)
<1> DEFINE low  == {z \in all : Before(z, x)}
           high == {z \in all : Before(z, y)}
<1>1. IsFiniteSet(all) /\ \A z \in all : z.id \in Int /\ z.day \in Int
  BY DEF Listable
<1>2. \A z \in all : Before(z, x) => Before(z, y)
  BY <1>1 DEF Before
<1>3. ~Before(x, x)
  BY <1>1 DEF Before
<1>4. low \in SUBSET high /\ low # high /\ high \in SUBSET all
  BY <1>2, <1>3
<1> HIDE DEF low, high
<1>5. IsFiniteSet(high)
  BY <1>1, <1>4, FS_Subset
<1>6. Cardinality(low) # Cardinality(high)
  BY <1>4, <1>5, FS_Subset
<1>7. QED
  BY <1>6 DEF Rank, low, high

LEMMA RankInjective ==
    ASSUME NEW all, Listable(all)
    PROVE  \A x, y \in all : Rank(all, x) = Rank(all, y) => x = y
<1> SUFFICES ASSUME NEW x \in all, NEW y \in all, x # y
             PROVE  Rank(all, x) # Rank(all, y)
  OBVIOUS
<1>1. /\ x.id \in Int /\ x.day \in Int /\ y.id \in Int /\ y.day \in Int /\ x.id # y.id
  BY DEF Listable
<1>2. Before(x, y) \/ Before(y, x)
  BY <1>1 DEF Before
<1>3. QED
  BY <1>2, RankRises

(* The rows of a list in order are the rows of the list, each once. *)
LEMMA NthIs ==
    ASSUME NEW all, Listable(all)
    PROVE  /\ Cardinality(all) \in Nat
           /\ \A i \in 1 .. Cardinality(all) : Nth(all, i) \in all
           /\ \A x \in all : \E i \in 1 .. Cardinality(all) : Nth(all, i) = x
<1>1. IsFiniteSet(all)
  BY DEF Listable
<1>2. PICK n \in Nat : n = Cardinality(all)
  BY <1>1, FS_CardinalityType
<1> DEFINE f == [x \in all |-> Rank(all, x)]
<1>3. f \in [all -> 0 .. n - 1]
  BY <1>2, RankType
<1>4. \A x, y \in all : f[x] = f[y] => x = y
  BY RankInjective
<1>5. f \in Injection(all, 0 .. n - 1)
  BY <1>3, <1>4 DEF Injection, IsInjective
<1>6. IsFiniteSet(0 .. n - 1) /\ Cardinality(0 .. n - 1) = n
  <2>1. 0 \in Int /\ n - 1 \in Int /\ (0 > n - 1 => n = 0) /\ n - 1 - 0 + 1 = n
    OBVIOUS
  <2>2. QED
    BY <2>1, FS_Interval
<1>7. f \in Surjection(all, 0 .. n - 1)
  <2> HIDE DEF f
  <2>1. QED
    BY <1>2, <1>5, <1>6, FS_Injection
<1>8. \A j \in 0 .. n - 1 : \E x \in all : f[x] = j
  <2> HIDE DEF f
  <2>1. QED
    BY <1>7 DEF Surjection
<1>9. ASSUME NEW i \in 1 .. n
      PROVE  Nth(all, i) \in all /\ Rank(all, Nth(all, i)) = i - 1
  <2>1. i - 1 \in 0 .. n - 1
    OBVIOUS
  <2>2. \E x \in all : Rank(all, x) = i - 1
    BY <1>8, <2>1
  <2>3. Nth(all, i) = CHOOSE x \in all : Rank(all, x) = i - 1
    BY DEF Nth, Rank
  <2>4. QED
    BY <2>2, <2>3, Zenon
<1>10. ASSUME NEW x \in all
       PROVE  \E i \in 1 .. n : Nth(all, i) = x
  <2>1. PICK j \in 0 .. n - 1 : j = Rank(all, x)
    BY <1>2, RankType
  <2>2. j + 1 \in 1 .. n /\ (j + 1) - 1 = j
    OBVIOUS
  <2>3. Nth(all, j + 1) \in all /\ Rank(all, Nth(all, j + 1)) = Rank(all, x)
    BY <1>9, <2>1, <2>2
  <2>4. Nth(all, j + 1) = x
    BY <2>3, RankInjective
  <2>5. QED
    BY <2>2, <2>4
<1>11. QED
  BY <1>2, <1>9, <1>10

-----------------------------------------------------------------------------
(* Reports: the inductive invariant.  rows, files and expenses_ stand for   *)
(* reports, DOMAIN objects and expenses, now or after a step.               *)

VisitFields == {"pc", "now", "owners", "clean", "id", "owner", "done", "kinds", "start", "rows",
                "offset", "created", "torn", "want", "formats"}

KeysOf(rows) == {r.key : r \in rows}

(* A report was written by that run. *)
Earned(rows, by, owner, kind, start) ==
    \E r \in rows : r.by = by /\ r.key.owner = owner /\ r.key.kind = kind /\ r.key.start = start

(* The owner has both files of the i-th kind for the period before day. *)
BothFiles(rows, owner, day, i) ==
    \A j \in 1 .. 2 :
       Key(owner, Kinds[i], LastCompletedReportPeriod(Kinds[i], day), Formats[j]) \in KeysOf(rows)

(* The expenses a report is about. *)
Selected(x, owner, start, end) == {y \in x : y.owner = owner /\ y.day >= start /\ y.day < end}

(* The first n of the listing were read. *)
Read(rows, all, n) ==
    /\ DOMAIN rows = 1 .. n /\ rows = [i \in 1 .. n |-> rows[i]] /\ n <= Cardinality(all)
    /\ \A i \in 1 .. n : rows[i] = Nth(all, i)

(* Everything was read, once. *)
Whole(rows, want) == {rows[i] : i \in DOMAIN rows} = want /\ Len(rows) = Cardinality(want)

(* A run between two owners. *)
UsersOK(v) ==
    /\ v = [pc |-> "users", now |-> v.now, owners |-> v.owners, clean |-> v.clean, id |-> v.id]
    /\ v.clean \in BOOLEAN

(* The kinds still to do are missing; the others, in a clean run, are there. *)
QueueOK(v, rows) ==
    /\ DOMAIN v = VisitFields /\ v.clean \in BOOLEAN
    /\ v.kinds \subseteq 1 .. 3
    /\ v.done \subseteq KeysOf(rows)
    /\ \A i \in v.kinds :
          Missing(v.done, v.owner, Kinds[i], LastCompletedReportPeriod(Kinds[i], v.now))
    /\ v.clean => \A i \in (1 .. 3) \ v.kinds : BothFiles(rows, v.owner, v.now, i)

(* The files done so far have their rows, and a file is stored before its row. *)
FormatsOK(v, rows, files) ==
    /\ v.formats \subseteq 1 .. 2 /\ (v.formats = {} <=> v.pc = "notify")
    /\ \A j \in (1 .. 2) \ v.formats : Key(v.owner, Kind(v), v.start, Formats[j]) \in KeysOf(rows)
    /\ v.pc = "save" => Current(v) \in files

(* Unless expenses were edited meanwhile, what was read is the listing so far,*)
(* and in the end all of it.                                                *)
PagesOK(v, expenses_) ==
    IF v.pc = "collect"
    THEN /\ v.offset \in Nat
         /\ v.torn \/ Read(v.rows, Selected(expenses_, v.owner, v.start,
                                            ReportPeriodEnd(Kind(v), v.start)), v.offset)
    ELSE v.torn \/ Whole(v.rows, v.want)

(* A run that is visiting an owner. *)
VisitOK(v, rows, files, expenses_) ==
    /\ QueueOK(v, rows) /\ v.kinds # {} /\ v.pc \in {"collect", "render", "save", "notify"}
    /\ v.start = LastCompletedReportPeriod(Kind(v), v.now)
    /\ v.created \in BOOLEAN /\ (v.created => Earned(rows, v.id, v.owner, Kind(v), v.start))
    /\ v.pc # "collect" => FormatsOK(v, rows, files)
    /\ v.torn \in BOOLEAN /\ PagesOK(v, expenses_)

RunOK(v, rows, files, expenses_) == v = NoRun \/ UsersOK(v) \/ VisitOK(v, rows, files, expenses_)

RunsOK ==
    /\ run = [r \in Replicas |-> run[r]]
    /\ \A r \in Replicas : RunOK(run[r], reports, DOMAIN objects, expenses)

FilesOK == KeysOf(reports) \subseteq DOMAIN objects

ObjectsOK == \A k \in DOMAIN objects : objects[k].torn \/ Whole(objects[k].rows, objects[k].want)

(* A clean run left everyone with all files. *)
RanOK == \A h \in ran : \A i \in 1 .. 3 : BothFiles(reports, h.owner, h.day, i)

ReportsInv ==
    /\ clock \in Int /\ Listable(expenses)
    /\ RunsOK /\ FilesOK /\ ObjectsOK /\ RanOK /\ NoticesEarned

(* The kinds of report that are still to do. *)
LEMMA MinIn ==
    ASSUME NEW S, S \subseteq 1 .. 3, S # {}
    PROVE  Min(S) \in S
<1>1. \E x \in S : \A y \in S : x <= y
  <2>1. CASE 1 \in S
    BY <2>1
  <2>2. CASE 1 \notin S /\ 2 \in S
    BY <2>2
  <2>3. CASE 1 \notin S /\ 2 \notin S
    <3>1. \A y \in S : y = 3
      BY <2>3
    <3>2. 3 \in S
      BY <3>1
    <3>3. QED
      BY <3>1, <3>2
  <2>4. QED
    BY <2>1, <2>2, <2>3
<1>2. QED
  BY <1>1, Zenon DEF Min

LEMMA OneLeft ==
    ASSUME NEW S, S \subseteq 1 .. 3, NEW x \in S
    PROVE  Cardinality(S) = 1 <=> S \ {x} = {}
<1>1. IsFiniteSet(1 .. 3)
  <2>1. 1 \in Int /\ 3 \in Int
    OBVIOUS
  <2>2. QED
    BY <2>1, FS_Interval, Zenon
<1>2. IsFiniteSet(S)
  BY <1>1, FS_Subset
<1>3. Cardinality(S) = 1 <=> \E y : S = {y}
  BY <1>2, FS_Singleton
<1>4. QED
  BY <1>3

(* A page is a sequence. *)
LEMMA FunctionIsSeq ==
    ASSUME NEW S, NEW n \in Nat, NEW f \in [1 .. n -> S]
    PROVE  f \in Seq(S) /\ Len(f) = n
OBVIOUS

(* A short page completes what was read, a full one extends it. *)
LEMMA PageRead ==
    ASSUME NEW all, Listable(all), NEW n \in Nat, NEW rows, Read(rows, all, n),
           NEW page,
           page = [i \in 1 .. Min({PageSize, Cardinality(all) - n}) |-> Nth(all, n + i)]
    PROVE  /\ Len(page) < PageSize => Whole(rows \o page, all)
           /\ ~(Len(page) < PageSize) => Read(rows \o page, all, n + PageSize)
<1>1. PICK c \in Nat : c = Cardinality(all) /\ (\A i \in 1 .. c : Nth(all, i) \in all)
                        /\ (\A x \in all : \E i \in 1 .. c : Nth(all, i) = x)
  BY NthIs
<1>2. n <= c /\ DOMAIN rows = 1 .. n /\ rows = [i \in 1 .. n |-> rows[i]]
        /\ \A i \in 1 .. n : rows[i] = Nth(all, i)
  BY <1>1 DEF Read
<1>3. PageSize \in Nat /\ PageSize > 0
  BY ReportsAssumption
<1>4. PICK m \in Nat : m = Min({PageSize, c - n}) /\ m = IF PageSize <= c - n THEN PageSize ELSE c - n
  <2>1. c - n \in Int
    OBVIOUS
  <2>2. Min({PageSize, c - n}) = IF PageSize <= c - n THEN PageSize ELSE c - n
    BY <1>3, <2>1 DEF Min
  <2>3. QED
    BY <1>2, <1>3, <2>2
<1>5. page = [i \in 1 .. m |-> Nth(all, n + i)]
  BY <1>1, <1>4
<1>6. rows \in [1 .. n -> all]
  BY <1>1, <1>2
<1>7. page \in [1 .. m -> all]
  <2>1. \A i \in 1 .. m : Nth(all, n + i) \in all
    BY <1>1, <1>2, <1>3, <1>4
  <2>2. QED
    BY <1>5, <2>1
<1>8. rows \in Seq(all) /\ Len(rows) = n /\ page \in Seq(all) /\ Len(page) = m
  BY <1>6, <1>7, FunctionIsSeq
<1>9. PICK both : both = rows \o page
  OBVIOUS
<1>10. both \in Seq(all) /\ Len(both) = n + m
         /\ \A i \in 1 .. n + m : both[i] = IF i <= n THEN rows[i] ELSE page[i - n]
  <2>1. /\ rows \o page \in Seq(all)
        /\ Len(rows \o page) = Len(rows) + Len(page)
        /\ \A i \in 1 .. Len(rows) + Len(page) :
              (rows \o page)[i] = IF i <= Len(rows) THEN rows[i] ELSE page[i - Len(rows)]
    BY <1>8, ConcatProperties, ZenonT(60)
  <2>2. QED
    BY <1>8, <1>9, <2>1
<1>11. \A i \in 1 .. n + m : both[i] = Nth(all, i)
  <2> TAKE i \in 1 .. n + m
  <2>1. CASE i <= n
    <3>1. i \in 1 .. n
      BY <2>1
    <3>2. both[i] = rows[i]
      BY <1>10, <2>1
    <3>3. QED
      BY <1>2, <3>1, <3>2
  <2>2. CASE ~(i <= n)
    <3>1. i - n \in 1 .. m /\ n + (i - n) = i
      BY <2>2
    <3>2. both[i] = page[i - n]
      BY <1>10, <2>2
    <3>3. page[i - n] = Nth(all, n + (i - n))
      BY <1>5, <3>1
    <3>4. QED
      BY <3>1, <3>2, <3>3
  <2>3. QED
    BY <2>1, <2>2
<1>12. DOMAIN both = 1 .. n + m
  BY <1>10, LenProperties
<1>13. ASSUME m < PageSize
       PROVE  Whole(both, all)
  <2>1. n + m = c
    BY <1>2, <1>3, <1>4, <1>13
  <2>2. {both[i] : i \in DOMAIN both} = all
    BY <1>1, <1>11, <1>12, <2>1
  <2>3. QED
    BY <1>1, <1>10, <2>1, <2>2 DEF Whole
<1>14. ASSUME ~(m < PageSize)
       PROVE  Read(both, all, n + PageSize)
  <2>1. m = PageSize /\ n + PageSize <= c
    BY <1>2, <1>3, <1>4, <1>14
  <2>2. both = [i \in 1 .. n + m |-> both[i]]
    BY <1>10, <1>12
  <2>3. QED
    BY <1>1, <1>11, <1>12, <2>1, <2>2 DEF Read
<1>15. QED
  BY <1>8, <1>9, <1>13, <1>14

(* A visit works on the first of its kinds. *)
LEMMA KindsOfVisit ==
    ASSUME NEW v, NEW rows, QueueOK(v, rows), v.kinds # {}
    PROVE  Min(v.kinds) \in v.kinds /\ Min(v.kinds) \in 1 .. 3 /\ Kind(v) = Kinds[Min(v.kinds)]
<1>1. v.kinds \subseteq 1 .. 3
  BY DEF QueueOK
<1>2. Min(v.kinds) \in v.kinds
  BY <1>1, MinIn
<1>3. QED
  BY <1>1, <1>2 DEF Kind

LEMMA SelectedListable ==
    ASSUME NEW x, Listable(x), NEW owner, NEW start, NEW end
    PROVE  Listable(Selected(x, owner, start, end))
<1>1. Selected(x, owner, start, end) \in SUBSET x
  BY DEF Selected
<1>2. IsFiniteSet(Selected(x, owner, start, end))
  BY <1>1, FS_Subset DEF Listable
<1>3. QED
  BY <1>1, <1>2 DEF Listable

(* More rows and files leave a visit what it was. *)
LEMMA KeysGrow ==
    ASSUME NEW rows, NEW more, rows \subseteq more
    PROVE  KeysOf(rows) \subseteq KeysOf(more)
BY DEF KeysOf

LEMMA QueueMonotone ==
    ASSUME NEW v, NEW rows, NEW more, QueueOK(v, rows), rows \subseteq more
    PROVE  QueueOK(v, more)
BY KeysGrow DEF QueueOK, BothFiles

LEMMA VisitMonotone ==
    ASSUME NEW v, NEW rows, NEW more, NEW files, NEW store, NEW x,
           VisitOK(v, rows, files, x), rows \subseteq more, files \subseteq store
    PROVE  VisitOK(v, more, store, x)
<1>1. QueueOK(v, more)
  BY QueueMonotone DEF VisitOK
<1>2. v.created => Earned(more, v.id, v.owner, Kind(v), v.start)
  BY DEF VisitOK, Earned
<1>3. v.pc # "collect" => FormatsOK(v, more, store)
  BY KeysGrow DEF VisitOK, FormatsOK
<1>4. QED
  BY <1>1, <1>2, <1>3 DEF VisitOK

LEMMA RunMonotone ==
    ASSUME NEW v, NEW rows, NEW more, NEW files, NEW store, NEW x,
           RunOK(v, rows, files, x), rows \subseteq more, files \subseteq store
    PROVE  RunOK(v, more, store, x)
BY VisitMonotone DEF RunOK

(* What the run of a replica turns into between visits. *)
LEMMA NextOwnerIs ==
    ASSUME NEW v, v.clean \in BOOLEAN
    PROVE  NextOwner(v) = NoRun \/ UsersOK(NextOwner(v))
<1>1. PICK w : w = [pc |-> "users", now |-> v.now, owners |-> v.owners, clean |-> v.clean,
                    id |-> v.id]
  OBVIOUS
<1>2. w.now = v.now /\ w.owners = v.owners /\ w.clean = v.clean /\ w.id = v.id
  BY <1>1
<1>3. UsersOK(w)
  BY <1>1, <1>2 DEF UsersOK
<1>4. QED
  BY <1>1, <1>3 DEF NextOwner

LEMMA OpenKindIs ==
    ASSUME NEW v, NEW rows, NEW files, NEW x, QueueOK(v, rows), Listable(x)
    PROVE  RunOK(OpenKind(v), rows, files, x)
<1>1. CASE v.kinds = {}
  <2>1. v.clean \in BOOLEAN
    BY DEF QueueOK
  <2>2. QED
    BY <1>1, <2>1, NextOwnerIs DEF OpenKind, RunOK
<1>2. CASE v.kinds # {}
  <2>1. PICK start : start = LastCompletedReportPeriod(Kind(v), v.now)
    OBVIOUS
  <2>2. PICK w : w = [v EXCEPT !.pc = "collect", !.start = start, !.rows = <<>>, !.offset = 0,
                               !.created = FALSE, !.torn = FALSE]
    OBVIOUS
  <2>3. OpenKind(v) = w
    BY <1>2, <2>1, <2>2 DEF OpenKind
  <2>4. DOMAIN v = VisitFields
    BY DEF QueueOK
  <2>5. /\ DOMAIN w = VisitFields /\ w.pc = "collect" /\ w.start = start /\ w.rows = <<>>
        /\ w.offset = 0 /\ w.created = FALSE /\ w.torn = FALSE /\ w.clean = v.clean
        /\ w.kinds = v.kinds /\ w.done = v.done /\ w.owner = v.owner /\ w.now = v.now
    BY <2>2, <2>4 DEF VisitFields
  <2>6. QueueOK(w, rows) /\ Kind(w) = Kind(v)
    BY <2>5 DEF QueueOK, Kind
  <2>7. PICK all : all = Selected(x, w.owner, w.start, ReportPeriodEnd(Kind(w), w.start))
    OBVIOUS
  <2>8. Cardinality(all) \in Nat
    BY <2>7, SelectedListable, NthIs
  <2>9. Read(w.rows, all, w.offset)
    BY <2>5, <2>8 DEF Read
  <2>10. PagesOK(w, x)
    BY <2>5, <2>7, <2>9 DEF PagesOK
  <2>11. VisitOK(w, rows, files, x)
    BY <1>2, <2>1, <2>5, <2>6, <2>10 DEF VisitOK
  <2>12. QED
    BY <2>3, <2>11 DEF RunOK
<1>3. QED
  BY <1>1, <1>2

(* A kind that is done, or given up, leaves the queue. *)
LEMMA CloseQueue ==
    ASSUME NEW v, NEW rows, QueueOK(v, rows), v.kinds # {},
           v.clean => BothFiles(rows, v.owner, v.now, Min(v.kinds))
    PROVE  LET w == [v EXCEPT !.kinds = @ \ {Min(@)}]
           IN  /\ QueueOK(w, rows) /\ w.clean = v.clean /\ w.owner = v.owner /\ w.now = v.now
               /\ Cardinality(v.kinds) = 1 <=> w.kinds = {}
<1>1. PICK m : m = Min(v.kinds) /\ m \in v.kinds
  BY KindsOfVisit
<1>2. PICK w : w = [v EXCEPT !.kinds = @ \ {Min(@)}]
  OBVIOUS
<1>3. DOMAIN v = VisitFields /\ v.kinds \subseteq 1 .. 3
  BY DEF QueueOK
<1>4. /\ DOMAIN w = VisitFields /\ w.kinds = v.kinds \ {m} /\ w.clean = v.clean
      /\ w.done = v.done /\ w.owner = v.owner /\ w.now = v.now
  BY <1>1, <1>2, <1>3 DEF VisitFields
<1>5. v.clean => \A i \in (1 .. 3) \ w.kinds : BothFiles(rows, v.owner, v.now, i)
  BY <1>1, <1>4 DEF QueueOK
<1>6. QueueOK(w, rows)
  BY <1>3, <1>4, <1>5 DEF QueueOK
<1>7. Cardinality(v.kinds) = 1 <=> w.kinds = {}
  BY <1>1, <1>3, <1>4, OneLeft
<1>8. QED
  BY <1>2, <1>4, <1>6, <1>7

(* The invariant holds at the start, and every step keeps it. *)
LEMMA InitHolds == ReportsInit => ReportsInv
<1> SUFFICES ASSUME ReportsInit PROVE ReportsInv
  OBVIOUS
<1>1. PICK w \in Workloads : clock = w.today /\ expenses = w.expenses
  BY DEF ReportsInit
<1>2. clock \in Int /\ Listable(expenses)
  BY <1>1, ReportsAssumption DEF Listable
<1>3. RunsOK
  BY DEF ReportsInit, RunsOK, RunOK
<1>4. FilesOK /\ ObjectsOK /\ RanOK /\ NoticesEarned
  BY DEF ReportsInit, FilesOK, ObjectsOK, RanOK, NoticesEarned, KeysOf
<1>5. QED
  BY <1>2, <1>3, <1>4 DEF ReportsInv

(* What every step of one replica's run has to show. *)
LEMMA SetKeepsRuns ==
    ASSUME RunsOK, NEW r \in Replicas, NEW w, Set(r, w),
           reports \subseteq reports', DOMAIN objects \subseteq (DOMAIN objects)',
           expenses' = expenses, RunOK(w, reports', (DOMAIN objects)', expenses)
    PROVE  RunsOK'
<1>1. run' = [s \in Replicas |-> IF s = r THEN w ELSE run[s]]
  BY DEF RunsOK, Set
<1>2. ASSUME NEW s \in Replicas
      PROVE  RunOK(run'[s], reports', (DOMAIN objects)', expenses')
  <2>1. CASE s = r
    BY <1>1, <2>1
  <2>2. CASE s # r
    <3>1. RunOK(run[s], reports, DOMAIN objects, expenses)
      BY DEF RunsOK
    <3>2. RunOK(run[s], reports', (DOMAIN objects)', expenses)
      BY <3>1, RunMonotone
    <3>3. QED
      BY <1>1, <2>2, <3>2
  <2>3. QED
    BY <2>1, <2>2
<1>3. QED
  BY <1>1, <1>2 DEF RunsOK

(* A run that visited everyone left its files there. *)
LEMMA RanKept ==
    ASSUME RanOK, reports \subseteq reports', ran' = ran
    PROVE  RanOK'
BY KeysGrow DEF RanOK, BothFiles

LEMMA GenerateDueKeeps ==
    ASSUME ReportsInv, NEW r \in Replicas, GenerateDue(r)
    PROVE  ReportsInv'
<1>1. PICK w : w = [pc |-> "users", now |-> clock, owners |-> Owners \ blocked, clean |-> TRUE,
                    id |-> runs]
  OBVIOUS
<1>2. UsersOK(w)
  BY <1>1 DEF UsersOK
<1>3. Set(r, w) /\ UNCHANGED <<clock, expenses, reports, objects, notices, ran>>
  BY <1>1 DEF GenerateDue
<1>4. RunsOK'
  BY <1>2, <1>3, SetKeepsRuns DEF ReportsInv, RunOK
<1>5. QED
  BY <1>3, <1>4, RanKept DEF ReportsInv, FilesOK, ObjectsOK, NoticesEarned

LEMMA ListReportsKeeps ==
    ASSUME ReportsInv, NEW r \in Replicas, ListReports(r)
    PROVE  ReportsInv'
<1>1. run[r].pc = "users" /\ UNCHANGED <<clock, blocked, expenses, reports, objects, notices>>
  BY DEF ListReports
<1>2. UsersOK(run[r])
  <2>1. RunOK(run[r], reports, DOMAIN objects, expenses)
    BY DEF ReportsInv, RunsOK
  <2>2. QED
    BY <1>1, <2>1 DEF RunOK, VisitOK, NoRun
<1>3. PICK o \in run[r].owners :
         LET done == {k \in Keys : k.owner = o}
             v    == [pc |-> "kinds", now |-> run[r].now, owners |-> run[r].owners \ {o},
                      clean |-> run[r].clean, id |-> run[r].id, owner |-> o, done |-> done,
                      kinds |-> {i \in DOMAIN Kinds :
                                   Missing(done, o, Kinds[i],
                                           LastCompletedReportPeriod(Kinds[i], run[r].now))},
                      start |-> 0, rows |-> <<>>, offset |-> 0, created |-> FALSE,
                      torn |-> FALSE, want |-> {}, formats |-> {}]
         IN  /\ Set(r, OpenKind(v))
             /\ ran' = IF v.kinds = {} /\ v.clean
                       THEN ran \cup {[owner |-> o, day |-> v.now]} ELSE ran
  BY DEF ListReports
<1>4. PICK done : done = {k \in Keys : k.owner = o}
  OBVIOUS
<1>5. PICK v :
         v = [pc |-> "kinds", now |-> run[r].now, owners |-> run[r].owners \ {o},
              clean |-> run[r].clean, id |-> run[r].id, owner |-> o, done |-> done,
              kinds |-> {i \in DOMAIN Kinds :
                           Missing(done, o, Kinds[i],
                                   LastCompletedReportPeriod(Kinds[i], run[r].now))},
              start |-> 0, rows |-> <<>>, offset |-> 0, created |-> FALSE,
              torn |-> FALSE, want |-> {}, formats |-> {}]
  OBVIOUS
<1>6. /\ Set(r, OpenKind(v))
      /\ ran' = IF v.kinds = {} /\ v.clean THEN ran \cup {[owner |-> o, day |-> v.now]} ELSE ran
  BY <1>3, <1>4, <1>5, Zenon
<1>7. /\ DOMAIN v = VisitFields /\ v.now = run[r].now /\ v.clean = run[r].clean /\ v.owner = o
      /\ v.done = done
      /\ v.kinds = {i \in DOMAIN Kinds : Missing(done, o, Kinds[i],
                                            LastCompletedReportPeriod(Kinds[i], run[r].now))}
  BY <1>5 DEF VisitFields
<1>8. DOMAIN Kinds = 1 .. 3 /\ DOMAIN Formats = 1 .. 2
  BY DEF Kinds, Formats
<1>9. done \subseteq KeysOf(reports)
  BY <1>4 DEF Keys, KeysOf
<1>10. \A i \in (1 .. 3) \ v.kinds : BothFiles(reports, v.owner, v.now, i)
  BY <1>7, <1>8, <1>9 DEF Missing, BothFiles
<1>11. QueueOK(v, reports)
  BY <1>2, <1>7, <1>8, <1>9, <1>10 DEF QueueOK, UsersOK
<1>12. RunOK(OpenKind(v), reports, DOMAIN objects, expenses)
  BY <1>11, OpenKindIs DEF ReportsInv
<1>13. RunsOK'
  BY <1>1, <1>6, <1>12, SetKeepsRuns DEF ReportsInv
<1>14. RanOK'
  <2>1. CASE v.kinds = {} /\ v.clean
    <3>1. ran' = ran \cup {[owner |-> v.owner, day |-> v.now]}
      BY <1>6, <1>7, <2>1
    <3>2. \A i \in 1 .. 3 : BothFiles(reports, v.owner, v.now, i)
      BY <1>10, <2>1
    <3>3. QED
      BY <1>1, <3>1, <3>2 DEF RanOK, ReportsInv
  <2>2. CASE ~(v.kinds = {} /\ v.clean)
    BY <1>1, <1>6, <2>2, RanKept DEF ReportsInv
  <2>3. QED
    BY <2>1, <2>2
<1>15. QED
  BY <1>1, <1>13, <1>14 DEF ReportsInv, FilesOK, ObjectsOK, NoticesEarned

LEMMA VisitHere ==
    ASSUME ReportsInv, NEW r \in Replicas,
           run[r].pc \in {"collect", "render", "save", "notify"}
    PROVE  VisitOK(run[r], reports, DOMAIN objects, expenses)
<1>1. RunOK(run[r], reports, DOMAIN objects, expenses)
  BY DEF ReportsInv, RunsOK
<1>2. QED
  BY <1>1 DEF RunOK, UsersOK, NoRun

LEMMA CollectKeeps ==
    ASSUME ReportsInv, NEW r \in Replicas, collect(r)
    PROVE  ReportsInv'
<1>1. PICK v : v = run[r]
  OBVIOUS
<1>2. PICK end : end = ReportPeriodEnd(Kind(v), v.start)
  OBVIOUS
<1>3. PICK all : all = Selected(expenses, v.owner, v.start, end) /\ all = InPeriod(v.owner, v.start, end)
  BY DEF Selected, InPeriod
<1>4. PICK page : page = ListExpenses(v.owner, v.start, end, PageSize, v.offset)
  OBVIOUS
<1>5. /\ v.pc = "collect"
      /\ IF LastPage(page)
         THEN Set(r, [v EXCEPT !.rows = @ \o page, !.pc = "render", !.want = all,
                               !.formats = {i \in DOMAIN Formats :
                                   Key(v.owner, Kind(v), v.start, Formats[i]) \notin v.done}])
         ELSE Set(r, [v EXCEPT !.rows = @ \o page, !.offset = @ + PageSize])
      /\ UNCHANGED <<clock, blocked, expenses, reports, objects, notices, runs, left, ran>>
  BY <1>1, <1>2, <1>3, <1>4, Zenon DEF collect
<1>6. VisitOK(v, reports, DOMAIN objects, expenses)
  BY <1>1, <1>5, VisitHere
<1>7. Listable(all)
  BY <1>3, SelectedListable DEF ReportsInv
<1>8. page = [i \in 1 .. Min({PageSize, Cardinality(all) - v.offset}) |-> Nth(all, v.offset + i)]
  BY <1>3, <1>4 DEF ListExpenses
<1>9. v.offset \in Nat /\ (v.torn \/ Read(v.rows, all, v.offset)) /\ v.torn \in BOOLEAN
  BY <1>2, <1>3, <1>5, <1>6 DEF VisitOK, PagesOK
<1>10. /\ QueueOK(v, reports) /\ v.kinds # {} /\ DOMAIN v = VisitFields
       /\ v.start = LastCompletedReportPeriod(Kind(v), v.now) /\ v.created \in BOOLEAN
       /\ v.created => Earned(reports, v.id, v.owner, Kind(v), v.start)
  BY <1>6 DEF VisitOK, QueueOK
<1>11. ASSUME LastPage(page)
       PROVE  \E w : Set(r, w) /\ VisitOK(w, reports, DOMAIN objects, expenses)
  <2>1. PICK todo : todo = {i \in DOMAIN Formats :
                               Key(v.owner, Kind(v), v.start, Formats[i]) \notin v.done}
    OBVIOUS
  <2>2. PICK w : w = [v EXCEPT !.rows = @ \o page, !.pc = "render", !.want = all,
                               !.formats = todo]
    OBVIOUS
  <2>3. Set(r, w)
    BY <1>5, <1>11, <2>1, <2>2
  <2>4. /\ DOMAIN w = VisitFields /\ w.pc = "render" /\ w.rows = v.rows \o page /\ w.want = all
        /\ w.formats = todo /\ w.kinds = v.kinds /\ w.now = v.now /\ w.owner = v.owner
        /\ w.done = v.done /\ w.clean = v.clean /\ w.created = v.created /\ w.id = v.id
        /\ w.start = v.start /\ w.torn = v.torn
    BY <1>10, <2>2 DEF VisitFields
  <2>5. QueueOK(w, reports) /\ Kind(w) = Kind(v)
    BY <1>10, <2>4 DEF QueueOK, Kind
  <2>6. w.torn \/ Whole(w.rows, w.want)
    BY <1>7, <1>8, <1>9, <1>11, <2>4, PageRead DEF LastPage
  <2>7. Min(v.kinds) \in v.kinds /\ Kind(v) = Kinds[Min(v.kinds)]
    BY <1>10, KindsOfVisit
  <2>8. Missing(v.done, v.owner, Kind(v), v.start)
    BY <1>10, <2>7 DEF QueueOK
  <2>9. DOMAIN Formats = 1 .. 2 /\ v.done \subseteq KeysOf(reports)
    BY <1>10 DEF Formats, QueueOK
  <2>10. todo \subseteq 1 .. 2 /\ todo # {}
    BY <2>1, <2>8, <2>9 DEF Missing
  <2>11. FormatsOK(w, reports, DOMAIN objects)
    BY <2>1, <2>4, <2>5, <2>9, <2>10 DEF FormatsOK
  <2>12. VisitOK(w, reports, DOMAIN objects, expenses)
    BY <1>9, <1>10, <2>4, <2>5, <2>6, <2>11 DEF VisitOK, PagesOK
  <2>13. QED
    BY <2>3, <2>12
<1>12. ASSUME ~LastPage(page)
       PROVE  \E w : Set(r, w) /\ VisitOK(w, reports, DOMAIN objects, expenses)
  <2>1. PICK w : w = [v EXCEPT !.rows = @ \o page, !.offset = @ + PageSize]
    OBVIOUS
  <2>2. Set(r, w)
    BY <1>5, <1>12, <2>1
  <2>3. /\ DOMAIN w = VisitFields /\ w.pc = "collect" /\ w.rows = v.rows \o page
        /\ w.offset = v.offset + PageSize /\ w.kinds = v.kinds /\ w.now = v.now
        /\ w.owner = v.owner /\ w.done = v.done /\ w.clean = v.clean /\ w.created = v.created
        /\ w.id = v.id /\ w.start = v.start /\ w.torn = v.torn
    BY <1>5, <1>10, <2>1 DEF VisitFields
  <2>4. QueueOK(w, reports) /\ Kind(w) = Kind(v)
    BY <1>10, <2>3 DEF QueueOK, Kind
  <2>5. w.offset \in Nat
    BY <1>9, <2>3, ReportsAssumption
  <2>6. w.torn \/ Read(w.rows, all, w.offset)
    BY <1>7, <1>8, <1>9, <1>12, <2>3, PageRead DEF LastPage
  <2>7. PagesOK(w, expenses)
    BY <1>2, <1>3, <2>3, <2>4, <2>5, <2>6 DEF PagesOK
  <2>8. VisitOK(w, reports, DOMAIN objects, expenses)
    BY <1>9, <1>10, <2>3, <2>4, <2>7 DEF VisitOK
  <2>9. QED
    BY <2>2, <2>8
<1>13. PICK w : Set(r, w) /\ RunOK(w, reports, DOMAIN objects, expenses)
  BY <1>11, <1>12 DEF RunOK
<1>14. RunsOK'
  BY <1>5, <1>13, SetKeepsRuns DEF ReportsInv
<1>15. QED
  BY <1>5, <1>14, RanKept DEF ReportsInv, FilesOK, ObjectsOK, NoticesEarned

LEMMA StoreFileKeeps ==
    ASSUME ReportsInv, NEW r \in Replicas, run[r].pc = "render", StoreFile(r),
           Set(r, [run[r] EXCEPT !.pc = "save"])
    PROVE  ReportsInv'
<1>1. PICK v : v = run[r]
  OBVIOUS
<1>2. VisitOK(v, reports, DOMAIN objects, expenses) /\ DOMAIN v = VisitFields /\ v.pc = "render"
  BY <1>1, VisitHere DEF VisitOK, QueueOK
<1>3. PICK file : file = [rows |-> v.rows, torn |-> v.torn, want |-> v.want]
  OBVIOUS
<1>4. /\ objects' = [k \in DOMAIN objects \cup {Current(v)} |->
                        IF k = Current(v) THEN file ELSE objects[k]]
      /\ UNCHANGED <<clock, blocked, expenses, reports, notices, runs, left, ran>>
  BY <1>1, <1>3 DEF StoreFile
<1>5. (DOMAIN objects)' = DOMAIN objects \cup {Current(v)}
  BY <1>4
<1>6. file.torn \/ Whole(file.rows, file.want)
  BY <1>2, <1>3 DEF VisitOK, PagesOK
<1>7. ObjectsOK'
  <2>1. ASSUME NEW k \in DOMAIN objects'
        PROVE  objects'[k].torn \/ Whole(objects'[k].rows, objects'[k].want)
    <3>1. CASE k = Current(v)
      BY <1>4, <1>6, <3>1
    <3>2. CASE k # Current(v)
      <4>1. k \in DOMAIN objects /\ objects'[k] = objects[k]
        BY <1>4, <3>2
      <4>2. QED
        BY <4>1 DEF ReportsInv, ObjectsOK
    <3>3. QED
      BY <3>1, <3>2
  <2>2. QED
    BY <2>1 DEF ObjectsOK
<1>8. PICK w : w = [v EXCEPT !.pc = "save"]
  OBVIOUS
<1>9. /\ DOMAIN w = VisitFields /\ w.pc = "save" /\ w.rows = v.rows /\ w.want = v.want
      /\ w.formats = v.formats /\ w.kinds = v.kinds /\ w.now = v.now /\ w.owner = v.owner
      /\ w.done = v.done /\ w.clean = v.clean /\ w.created = v.created /\ w.id = v.id
      /\ w.start = v.start /\ w.torn = v.torn
  BY <1>2, <1>8 DEF VisitFields
<1>10. QueueOK(w, reports) /\ Kind(w) = Kind(v) /\ Current(w) = Current(v)
  BY <1>2, <1>9 DEF VisitOK, QueueOK, Kind, Current
<1>11. FormatsOK(w, reports, (DOMAIN objects)')
  BY <1>2, <1>5, <1>9, <1>10 DEF VisitOK, FormatsOK
<1>12. VisitOK(w, reports, (DOMAIN objects)', expenses)
  BY <1>2, <1>9, <1>10, <1>11 DEF VisitOK, PagesOK
<1>13. RunsOK'
  BY <1>1, <1>4, <1>5, <1>8, <1>12, SetKeepsRuns DEF ReportsInv, RunOK
<1>14. QED
  BY <1>4, <1>5, <1>7, <1>13, RanKept DEF ReportsInv, FilesOK, NoticesEarned

LEMMA InsertRowKeeps ==
    ASSUME ReportsInv, NEW r \in Replicas, run[r].pc = "save", InsertRow(r),
           Set(r, AfterFormat(run[r]))
    PROVE  ReportsInv'
<1>1. PICK v : v = run[r]
  OBVIOUS
<1>2. VisitOK(v, reports, DOMAIN objects, expenses) /\ DOMAIN v = VisitFields /\ v.pc = "save"
  BY <1>1, VisitHere DEF VisitOK, QueueOK
<1>3. PICK row : row = [key |-> Current(v), by |-> v.id]
  OBVIOUS
<1>4. row.key = Current(v) /\ row.by = v.id
  BY <1>3
<1>5. /\ reports' = IF Current(v) \in Keys THEN reports ELSE reports \cup {row}
      /\ UNCHANGED <<clock, blocked, expenses, objects, notices, runs, left, ran>>
  BY <1>1, <1>3 DEF InsertRow
<1>6. reports \subseteq reports' /\ Current(v) \in KeysOf(reports')
  BY <1>4, <1>5 DEF Keys, KeysOf
<1>7. KeysOf(reports') \subseteq KeysOf(reports) \cup {Current(v)}
  BY <1>4, <1>5 DEF KeysOf
<1>8. FilesOK'
  <2>1. Current(v) \in DOMAIN objects
    BY <1>2 DEF VisitOK, FormatsOK
  <2>2. QED
    BY <1>5, <1>7, <2>1 DEF ReportsInv, FilesOK
<1>9. VisitOK(v, reports', DOMAIN objects, expenses)
  BY <1>2, <1>6, VisitMonotone
<1>10. v.formats \subseteq 1 .. 2 /\ v.formats # {}
  BY <1>2 DEF VisitOK, FormatsOK
<1>11. PICK m : m = Min(v.formats) /\ m \in v.formats
  BY <1>10, MinIn
<1>12. PICK w : w = [v EXCEPT !.created = Created(v), !.formats = @ \ {Min(@)},
                       !.pc = IF Cardinality(v.formats) = 1 THEN "notify" ELSE "render"]
  OBVIOUS
<1>13. /\ DOMAIN w = VisitFields /\ w.rows = v.rows /\ w.want = v.want
       /\ w.formats = v.formats \ {m} /\ w.kinds = v.kinds /\ w.now = v.now
       /\ w.owner = v.owner /\ w.done = v.done /\ w.clean = v.clean /\ w.created = Created(v)
       /\ w.id = v.id /\ w.start = v.start /\ w.torn = v.torn
       /\ w.pc = IF Cardinality(v.formats) = 1 THEN "notify" ELSE "render"
  BY <1>2, <1>11, <1>12 DEF VisitFields
<1>14. QueueOK(w, reports') /\ Kind(w) = Kind(v)
  BY <1>9, <1>13 DEF VisitOK, QueueOK, Kind
<1>15. Current(v) = Key(v.owner, Kind(v), v.start, Formats[m])
  BY <1>11 DEF Current
<1>16. Cardinality(v.formats) = 1 <=> w.formats = {}
  <2>1. v.formats \subseteq 1 .. 3
    BY <1>10
  <2>2. QED
    BY <1>11, <1>13, <2>1, OneLeft
<1>17. \A j \in (1 .. 2) \ w.formats :
          Key(v.owner, Kind(v), v.start, Formats[j]) \in KeysOf(reports')
  <2>1. \A j \in (1 .. 2) \ v.formats :
           Key(v.owner, Kind(v), v.start, Formats[j]) \in KeysOf(reports')
    BY <1>2, <1>9 DEF VisitOK, FormatsOK
  <2>2. QED
    BY <1>6, <1>13, <1>15, <2>1
<1>18. FormatsOK(w, reports', DOMAIN objects)
  BY <1>10, <1>13, <1>14, <1>16, <1>17 DEF FormatsOK
<1>19. w.created \in BOOLEAN /\ (w.created => Earned(reports', w.id, w.owner, Kind(w), w.start))
  <2>1. CASE v.created
    BY <1>9, <1>13, <1>14, <2>1 DEF VisitOK, Created
  <2>2. CASE Current(v) \notin Keys
    <3>1. row \in reports' /\ row.by = v.id /\ row.key = Current(v)
      BY <1>4, <1>5, <2>2
    <3>2. Current(v).owner = v.owner /\ Current(v).kind = Kind(v) /\ Current(v).start = v.start
      BY <1>15 DEF Key
    <3>3. Earned(reports', v.id, v.owner, Kind(v), v.start)
      BY <3>1, <3>2 DEF Earned
    <3>4. QED
      BY <1>13, <1>14, <2>2, <3>3 DEF Created
  <2>3. CASE ~v.created /\ Current(v) \in Keys
    BY <1>13, <2>3 DEF Created
  <2>4. QED
    BY <2>1, <2>2, <2>3
<1>20. VisitOK(w, reports', DOMAIN objects, expenses)
  BY <1>2, <1>9, <1>13, <1>14, <1>18, <1>19 DEF VisitOK, PagesOK
<1>21. Set(r, w)
  BY <1>1, <1>12 DEF AfterFormat
<1>22. RunsOK'
  BY <1>5, <1>6, <1>20, <1>21, SetKeepsRuns DEF ReportsInv, RunOK
<1>23. NoticesEarned'
  BY <1>5, <1>6 DEF ReportsInv, NoticesEarned
<1>24. QED
  BY <1>5, <1>6, <1>8, <1>22, <1>23, RanKept DEF ReportsInv, ObjectsOK

LEMMA CloseKeeps ==
    ASSUME ReportsInv, NEW r \in Replicas, NEW v, QueueOK(v, reports), v.kinds # {},
           v.clean => BothFiles(reports, v.owner, v.now, Min(v.kinds)),
           Close(r, v), UNCHANGED <<expenses, reports, objects>>
    PROVE  RunsOK' /\ RanOK'
<1>1. PICK w : w = [v EXCEPT !.kinds = @ \ {Min(@)}]
  OBVIOUS
<1>2. /\ QueueOK(w, reports) /\ w.clean = v.clean /\ w.owner = v.owner /\ w.now = v.now
      /\ Cardinality(v.kinds) = 1 <=> w.kinds = {}
  BY <1>1, CloseQueue
<1>3. /\ Set(r, OpenKind(w))
      /\ ran' = IF Cardinality(v.kinds) = 1 /\ v.clean
                THEN ran \cup {[owner |-> v.owner, day |-> v.now]} ELSE ran
  BY <1>1 DEF Close
<1>4. RunOK(OpenKind(w), reports, DOMAIN objects, expenses)
  BY <1>2, OpenKindIs DEF ReportsInv
<1>5. RunsOK'
  BY <1>3, <1>4, SetKeepsRuns DEF ReportsInv
<1>6. RanOK'
  <2>1. CASE Cardinality(v.kinds) = 1 /\ v.clean
    <3>1. \A i \in 1 .. 3 : BothFiles(reports, v.owner, v.now, i)
      BY <1>2, <2>1 DEF QueueOK
    <3>2. ran' = ran \cup {[owner |-> v.owner, day |-> v.now]}
      BY <1>3, <2>1
    <3>3. QED
      BY <3>1, <3>2 DEF RanOK, ReportsInv
  <2>2. CASE ~(Cardinality(v.kinds) = 1 /\ v.clean)
    BY <1>3, <2>2, RanKept DEF ReportsInv
  <2>3. QED
    BY <2>1, <2>2
<1>7. QED
  BY <1>5, <1>6

LEMMA QueueReadyKeeps ==
    ASSUME ReportsInv, NEW r \in Replicas, queueReady(r)
    PROVE  ReportsInv'
<1>1. PICK v : v = run[r]
  OBVIOUS
<1>2. PICK n : n = [owner |-> v.owner, kind |-> Kind(v), start |-> v.start, by |-> v.id]
  OBVIOUS
<1>3. /\ v.pc = "notify" /\ Close(r, v)
      /\ notices' = IF v.created THEN notices \cup {n} ELSE notices
      /\ UNCHANGED <<clock, blocked, expenses, reports, objects, runs, left>>
  BY <1>1, <1>2 DEF queueReady
<1>4. VisitOK(v, reports, DOMAIN objects, expenses)
  BY <1>1, <1>3, VisitHere
<1>5. QueueOK(v, reports) /\ v.kinds # {} /\ v.start = LastCompletedReportPeriod(Kind(v), v.now)
  BY <1>4 DEF VisitOK
<1>6. Kind(v) = Kinds[Min(v.kinds)]
  BY DEF Kind
<1>7. \A j \in 1 .. 2 : Key(v.owner, Kind(v), v.start, Formats[j]) \in KeysOf(reports)
  BY <1>3, <1>4 DEF VisitOK, FormatsOK
<1>8. BothFiles(reports, v.owner, v.now, Min(v.kinds))
  BY <1>5, <1>6, <1>7 DEF BothFiles
<1>9. RunsOK' /\ RanOK'
  BY <1>3, <1>5, <1>8, CloseKeeps
<1>10. v.created => Earned(reports, v.id, v.owner, Kind(v), v.start)
  BY <1>4 DEF VisitOK
<1>11. NoticesEarned'
  <2>1. ASSUME NEW m \in notices'
        PROVE  Earned(reports, m.by, m.owner, m.kind, m.start)
    <3>1. CASE m \in notices
      BY <3>1 DEF ReportsInv, NoticesEarned, Earned
    <3>2. CASE m \notin notices
      <4>1. v.created /\ m = n
        BY <1>3, <3>2
      <4>2. m.by = v.id /\ m.owner = v.owner /\ m.kind = Kind(v) /\ m.start = v.start
        BY <1>2, <4>1
      <4>3. QED
        BY <1>10, <4>1, <4>2
    <3>3. QED
      BY <3>1, <3>2
  <2>2. QED
    BY <1>3, <2>1 DEF NoticesEarned, Earned
<1>12. QED
  BY <1>3, <1>9, <1>11 DEF ReportsInv, FilesOK, ObjectsOK

LEMMA GiveUpKeeps ==
    ASSUME ReportsInv, NEW r \in Replicas, GiveUp(r)
    PROVE  ReportsInv'
<1>1. PICK v : v = [run[r] EXCEPT !.clean = FALSE]
  OBVIOUS
<1>2. /\ run[r].pc \in {"collect", "render", "save", "notify"} /\ Close(r, v)
      /\ UNCHANGED <<clock, blocked, expenses, reports, objects, notices, runs>>
  BY <1>1 DEF GiveUp
<1>3. QueueOK(run[r], reports) /\ run[r].kinds # {} /\ DOMAIN run[r] = VisitFields
  BY <1>2, VisitHere DEF VisitOK, QueueOK
<1>4. /\ DOMAIN v = VisitFields /\ v.clean = FALSE /\ v.kinds = run[r].kinds
      /\ v.done = run[r].done /\ v.owner = run[r].owner /\ v.now = run[r].now
  BY <1>1, <1>3 DEF VisitFields
<1>5. QueueOK(v, reports)
  BY <1>3, <1>4 DEF QueueOK
<1>6. RunsOK' /\ RanOK'
  BY <1>2, <1>3, <1>4, <1>5, CloseKeeps
<1>7. QED
  BY <1>2, <1>6 DEF ReportsInv, FilesOK, ObjectsOK, NoticesEarned

LEMMA PassOverKeeps ==
    ASSUME ReportsInv, NEW r \in Replicas, PassOver(r)
    PROVE  ReportsInv'
<1>1. /\ run[r].pc = "users"
      /\ UNCHANGED <<clock, blocked, expenses, reports, objects, notices, runs, ran>>
  BY DEF PassOver
<1>2. PICK o \in run[r].owners :
         Set(r, NextOwner([run[r] EXCEPT !.owners = @ \ {o}, !.clean = FALSE]))
  BY DEF PassOver
<1>3. PICK v : v = [run[r] EXCEPT !.owners = @ \ {o}, !.clean = FALSE]
  OBVIOUS
<1>4. UsersOK(run[r])
  <2>1. RunOK(run[r], reports, DOMAIN objects, expenses)
    BY DEF ReportsInv, RunsOK
  <2>2. QED
    BY <1>1, <2>1 DEF RunOK, VisitOK, NoRun
<1>5. v.clean = FALSE
  <2>1. "clean" \in DOMAIN run[r]
    BY <1>4 DEF UsersOK
  <2>2. QED
    BY <1>3, <2>1
<1>6. RunOK(NextOwner(v), reports, DOMAIN objects, expenses)
  <2>1. v.clean \in BOOLEAN
    BY <1>5
  <2>2. NextOwner(v) = NoRun \/ UsersOK(NextOwner(v))
    BY <2>1, NextOwnerIs
  <2>3. QED
    BY <2>2 DEF RunOK
<1>7. RunsOK'
  BY <1>1, <1>2, <1>3, <1>6, SetKeepsRuns DEF ReportsInv
<1>8. QED
  BY <1>1, <1>7, RanKept DEF ReportsInv, FilesOK, ObjectsOK, NoticesEarned

LEMMA CrashKeeps ==
    ASSUME ReportsInv, NEW r \in Replicas, Crash(r)
    PROVE  ReportsInv'
<1>1. Set(r, NoRun) /\ UNCHANGED <<clock, blocked, expenses, reports, objects, notices, runs, ran>>
  BY DEF Crash
<1>2. RunsOK'
  BY <1>1, SetKeepsRuns DEF ReportsInv, RunOK
<1>3. QED
  BY <1>1, <1>2, RanKept DEF ReportsInv, FilesOK, ObjectsOK, NoticesEarned

LEMMA EditKeeps ==
    ASSUME ReportsInv, NEW live, Listable(live), Edit(live)
    PROVE  ReportsInv'
<1>1. /\ expenses' = live
      /\ run' = [r \in Replicas |-> IF run[r].pc = "collect" THEN [run[r] EXCEPT !.torn = TRUE]
                                    ELSE run[r]]
      /\ UNCHANGED <<clock, blocked, reports, objects, notices, runs, ran>>
  BY DEF Edit
<1>2. ASSUME NEW r \in Replicas
      PROVE  RunOK(run'[r], reports, DOMAIN objects, live)
  <2>1. PICK v : v = run[r]
    OBVIOUS
  <2>2. RunOK(v, reports, DOMAIN objects, expenses)
    BY <2>1 DEF ReportsInv, RunsOK
  <2>3. CASE v.pc = "collect"
    <3>1. VisitOK(v, reports, DOMAIN objects, expenses) /\ DOMAIN v = VisitFields
      BY <2>1, <2>3, VisitHere DEF VisitOK, QueueOK
    <3>2. PICK w : w = [v EXCEPT !.torn = TRUE]
      OBVIOUS
    <3>3. /\ DOMAIN w = VisitFields /\ w.pc = "collect" /\ w.torn = TRUE /\ w.offset = v.offset
          /\ w.kinds = v.kinds /\ w.now = v.now /\ w.owner = v.owner /\ w.done = v.done
          /\ w.clean = v.clean /\ w.created = v.created /\ w.id = v.id /\ w.start = v.start
      BY <2>3, <3>1, <3>2 DEF VisitFields
    <3>4. QueueOK(w, reports) /\ Kind(w) = Kind(v)
      BY <3>1, <3>3 DEF VisitOK, QueueOK, Kind
    <3>5. VisitOK(w, reports, DOMAIN objects, live)
      BY <2>3, <3>1, <3>3, <3>4 DEF VisitOK, PagesOK
    <3>6. QED
      BY <1>1, <2>1, <2>3, <3>2, <3>5 DEF RunOK
  <2>4. CASE v.pc # "collect"
    <3>1. run'[r] = v
      BY <1>1, <2>1, <2>4
    <3>2. VisitOK(v, reports, DOMAIN objects, expenses)
             => VisitOK(v, reports, DOMAIN objects, live)
      BY <2>4 DEF VisitOK, PagesOK
    <3>3. QED
      BY <2>2, <3>1, <3>2 DEF RunOK
  <2>5. QED
    BY <2>3, <2>4
<1>3. RunsOK'
  BY <1>1, <1>2 DEF RunsOK
<1>4. QED
  BY <1>1, <1>3, RanKept DEF ReportsInv, FilesOK, ObjectsOK, NoticesEarned

LEMMA AddExpenseKeeps ==
    ASSUME ReportsInv, NEW o, NEW age \in Ages, ExpenseAdded(o, age)
    PROVE  ReportsInv'
<1>1. PICK id : id = 1 + Cardinality(expenses)
  OBVIOUS
<1>2. PICK x : x = [owner |-> o, id |-> id, day |-> clock - age]
  OBVIOUS
<1>3. (\A y \in expenses : y.id # id) /\ Edit(expenses \cup {x})
  BY <1>1, <1>2 DEF ExpenseAdded
<1>4. Listable(expenses) /\ IsFiniteSet(expenses) /\ clock - age \in Int
  BY ReportsAssumption DEF ReportsInv, Listable
<1>5. Cardinality(expenses) \in Nat
  BY <1>4, FS_CardinalityType
<1>6. x.id \in Int /\ x.day \in Int /\ x.id = id
  BY <1>1, <1>2, <1>4, <1>5
<1>7. IsFiniteSet(expenses \cup {x})
  BY <1>4, FS_AddElement
<1>8. Listable(expenses \cup {x})
  BY <1>3, <1>4, <1>6, <1>7 DEF Listable
<1>9. QED
  BY <1>3, <1>8, EditKeeps

LEMMA DeleteExpenseKeeps ==
    ASSUME ReportsInv, NEW x, ExpenseDeleted(x)
    PROVE  ReportsInv'
<1>1. Listable(expenses) /\ IsFiniteSet(expenses)
  BY DEF ReportsInv, Listable
<1>2. IsFiniteSet(expenses \ {x})
  BY <1>1, FS_RemoveElement
<1>3. Listable(expenses \ {x})
  BY <1>1, <1>2 DEF Listable
<1>4. QED
  BY <1>3, EditKeeps DEF ExpenseDeleted

LEMMA TomorrowKeeps ==
    ASSUME ReportsInv, Tomorrow
    PROVE  ReportsInv'
<1>1. clock' = clock + 1 /\ UNCHANGED <<expenses, reports, objects, notices, run, ran>>
  BY DEF Tomorrow
<1>2. clock' \in Int
  BY <1>1 DEF ReportsInv
<1>3. RunsOK'
  BY <1>1 DEF ReportsInv, RunsOK
<1>4. QED
  BY <1>1, <1>2, <1>3, RanKept DEF ReportsInv, FilesOK, ObjectsOK, NoticesEarned

LEMMA NextHolds == ReportsInv /\ [ReportsNext]_reportsVars => ReportsInv'
<1> SUFFICES ASSUME ReportsInv, [ReportsNext]_reportsVars PROVE ReportsInv'
  OBVIOUS
<1>1. ASSUME NEW r \in Replicas,
             \/ GenerateDue(r) \/ ListReports(r) \/ collect(r) \/ SaveOrder(r)
             \/ queueReady(r) \/ GiveUp(r) \/ PassOver(r) \/ Crash(r)
      PROVE  ReportsInv'
  <2>1. CASE SaveOrder(r)
    BY <2>1, StoreFileKeeps, InsertRowKeeps DEF SaveOrder
  <2>2. QED
    BY <1>1, <2>1, GenerateDueKeeps, ListReportsKeeps, CollectKeeps, QueueReadyKeeps,
       GiveUpKeeps, PassOverKeeps, CrashKeeps
<1>2. CASE \E o \in Owners, age \in Ages : ExpenseAdded(o, age)
  BY <1>2, AddExpenseKeeps
<1>3. CASE \E x \in expenses : ExpenseDeleted(x)
  BY <1>3, DeleteExpenseKeeps
<1>4. CASE Tomorrow
  BY <1>4, TomorrowKeeps
<1>5. CASE UNCHANGED reportsVars
  <2>1. RunsOK'
    BY <1>5 DEF ReportsInv, RunsOK, reportsVars
  <2>2. QED
    BY <1>5, <2>1, RanKept DEF ReportsInv, FilesOK, ObjectsOK, NoticesEarned, reportsVars
<1>6. QED
  BY <1>1, <1>2, <1>3, <1>4, <1>5 DEF ReportsNext

LEMMA ReportsInvariant == ReportsSpec => []ReportsInv
BY InitHolds, NextHolds, PTL DEF ReportsSpec

(* Every row of the reports table has its file in the object store, for    *)
(* any replicas, owners and page size, whatever fails or crashes between    *)
(* Put and CreateReport.                                                   *)
THEOREM RowsHaveFiles == ReportsSpec => []FilesBehindRows
<1>1. ReportsInv => FilesBehindRows
  BY DEF ReportsInv, FilesOK, FilesBehindRows, Keys, KeysOf
<1>2. QED
  BY <1>1, ReportsInvariant, PTL

(* A stored file lists the expenses of its period, each exactly once,      *)
(* unless some changed while collect read the pages: for any page size and  *)
(* number of expenses, the offset neither drops nor repeats a row.          *)
THEOREM FilesListEverything == ReportsSpec => []PagesComplete
<1>1. ReportsInv => PagesComplete
  BY DEF ReportsInv, ObjectsOK, Whole, PagesComplete
<1>2. QED
  BY <1>1, ReportsInvariant, PTL

(* A run of GenerateDue that met no failure leaves both files of every      *)
(* period completed by its day, whatever other replicas did meanwhile, and  *)
(* a notice is queued only by a run that inserted a row of its period.      *)
THEOREM PeriodsReported == ReportsSpec => []ReportsAnnounced
<1>1. ReportsInv => EveryPeriodReported
  <2>1. DOMAIN Kinds = 1 .. 3 /\ DOMAIN Formats = 1 .. 2
    BY DEF Kinds, Formats
  <2>2. Keys = KeysOf(reports)
    BY DEF Keys, KeysOf
  <2>3. QED
    BY <2>1, <2>2 DEF ReportsInv, RanOK, BothFiles, EveryPeriodReported
<1>2. ReportsInv => ReportsAnnounced
  BY <1>1 DEF ReportsInv, ReportsAnnounced
<1>3. QED
  BY <1>2, ReportsInvariant, PTL

(* The laws of the calendar hold on every day, past or future: rollup,      *)
(* report and budget periods tile it, and a recurrence keeps its day of the *)
(* month through the months that are too short for it.                      *)
THEOREM CalendarHolds == ReportsSpec => []CalendarSound
<1>1. ReportsInv => CalendarSound
  BY PeriodsAreTiled, RecurrenceKept DEF ReportsInv, CalendarSound
<1>2. QED
  BY <1>1, ReportsInvariant, PTL

(* Induction over the subsets of a finite set: a statement that fails fails for*)
(* a smallest set.                                                          *)
LEMMA LeastNumber ==
    ASSUME NEW B, B \subseteq Nat, B # {}
    PROVE  \E n \in B : \A m \in B : n <= m
<1>1. PICK n \in B : \A m \in B : ~(<<m, n>> \in OpToRel(<, Nat))
  <2>1. PICK x : x \in B
    OBVIOUS
  <2>2. QED
    BY <2>1, NatLessThanWellFounded, WFMin, Zenon
<1>2. \A m \in B : ~(m < n)
  BY <1>1 DEF OpToRel
<1>3. QED
  BY <1>2

LEMMA SmallestSet ==
    ASSUME NEW S, IsFiniteSet(S), NEW B, B \subseteq SUBSET S, B # {}
    PROVE  \E U \in B : \A V \in B : V \subseteq U => V = U
<1> DEFINE N == {Cardinality(U) : U \in B}
<1>1. \A U \in B : IsFiniteSet(U) /\ Cardinality(U) \in Nat
  BY FS_Subset, FS_CardinalityType
<1>2. N \subseteq Nat /\ N # {}
  BY <1>1
<1>3. PICK n \in N : \A m \in N : n <= m
  BY <1>2, LeastNumber
<1>4. PICK U \in B : n = Cardinality(U)
  BY <1>3
<1>5. ASSUME NEW V \in B, V \subseteq U
      PROVE  V = U
  <2>1. Cardinality(V) <= Cardinality(U) /\ (Cardinality(U) = Cardinality(V) => U = V)
    BY <1>1, <1>5, FS_Subset
  <2>2. Cardinality(U) <= Cardinality(V)
    BY <1>3, <1>4
  <2>3. QED
    BY <1>1, <2>1, <2>2
<1>6. QED
  BY <1>4, <1>5

One(s) == CHOOSE x \in s : TRUE

Sums(g, f, S) ==
    g = [s \in SUBSET S |-> IF s = {} THEN 0 ELSE f[One(s)] + g[s \ {One(s)}]]

(* Sum, defined by a fold, satisfies its recursion on every subset of a finite*)
(* domain.                                                                  *)
LEMMA SumUnfolds ==
    ASSUME NEW f
    PROVE  Sum(f) = (CHOOSE g : Sums(g, f, DOMAIN f))[DOMAIN f]
BY Zenon DEF Sum, FoldFunction, FoldFunctionOnSet, MapThenFoldSet, Sums, One

LEMMA OneIn == \A s : s # {} => One(s) \in s
BY DEF One

Numbers(f, S) == \A x \in S : f[x] \in Int

LEMMA SumsStep ==
    ASSUME NEW f, NEW S, NEW g, Sums(g, f, S), NEW s \in SUBSET S
    PROVE  g[s] = IF s = {} THEN 0 ELSE f[One(s)] + g[s \ {One(s)}]
BY DEF Sums

(* Two functions that satisfy it agree where their terms do. *)
LEMMA SumsUnique ==
    ASSUME NEW S, IsFiniteSet(S), NEW f, NEW h,
           NEW T \in SUBSET S, NEW U \in SUBSET S, NEW a, Sums(a, f, T), NEW b, Sums(b, h, U),
           \A x \in T \cap U : f[x] = h[x]
    PROVE  \A s \in SUBSET (T \cap U) : a[s] = b[s]
<1> DEFINE B == {s \in SUBSET (T \cap U) : a[s] # b[s]}
<1> SUFFICES ASSUME B # {} PROVE FALSE
  OBVIOUS
<1>1. B \subseteq SUBSET S
  OBVIOUS
<1>2. PICK s \in B : \A V \in B : V \subseteq s => V = s
  <2> HIDE DEF B
  <2>1. QED
    BY <1>1, SmallestSet
<1>3. s \in SUBSET T /\ s \in SUBSET U /\ a[s] # b[s]
  OBVIOUS
<1>4. a[s] = (IF s = {} THEN 0 ELSE f[One(s)] + a[s \ {One(s)}])
  BY <1>3, SumsStep
<1>5. b[s] = (IF s = {} THEN 0 ELSE h[One(s)] + b[s \ {One(s)}])
  BY <1>3, SumsStep
<1>6. s # {}
  BY <1>3, <1>4, <1>5
<1>7. One(s) \in s
  BY <1>6, OneIn
<1>8. s \ {One(s)} \in SUBSET (T \cap U) /\ s \ {One(s)} \subseteq s /\ s \ {One(s)} # s
  BY <1>7
<1>9. a[s \ {One(s)}] = b[s \ {One(s)}]
  BY <1>2, <1>8
<1>10. f[One(s)] = h[One(s)]
  BY <1>3, <1>7
<1>11. QED
  BY <1>3, <1>4, <1>5, <1>6, <1>9, <1>10

(* There is one for every finite set. *)
LEMMA SumsExist ==
    ASSUME NEW S, IsFiniteSet(S), NEW f
    PROVE  \A T \in SUBSET S : \E g : Sums(g, f, T)
<1> DEFINE B == {T \in SUBSET S : ~\E g : Sums(g, f, T)}
<1> SUFFICES ASSUME B # {} PROVE FALSE
  OBVIOUS
<1>1. B \subseteq SUBSET S
  OBVIOUS
<1>2. PICK T \in B : \A V \in B : V \subseteq T => V = T
  <2> HIDE DEF B
  <2>1. QED
    BY <1>1, SmallestSet
<1>3. T \in SUBSET S /\ ~\E g : Sums(g, f, T)
  OBVIOUS
<1> DEFINE Of(s) == CHOOSE g : Sums(g, f, s)
           G == [s \in SUBSET T |->
                   IF s = {} THEN 0
                   ELSE IF s = T THEN f[One(s)] + Of(s \ {One(s)})[s \ {One(s)}]
                   ELSE Of(s)[s]]
<1>4. ASSUME NEW s \in SUBSET T, s # T
      PROVE  Sums(Of(s), f, s)
  <2>1. s \notin B
    BY <1>2, <1>4
  <2>2. \E g : Sums(g, f, s)
    BY <1>3, <2>1
  <2>3. QED
    BY <2>2, Zenon
<1>5. ASSUME NEW s \in SUBSET T, s # {}
      PROVE  s \ {One(s)} \in SUBSET T /\ s \ {One(s)} # T /\ One(s) \in s
  BY <1>5, OneIn
<1>6. ASSUME NEW s \in SUBSET T, s # T
      PROVE  G[s] = Of(s)[s]
  <2>1. CASE s = {}
    <3>1. Of(s)[s] = 0
      <4>1. Sums(Of(s), f, s)
        BY <1>4, <1>6
      <4>2. s \in SUBSET s
        OBVIOUS
      <4> HIDE DEF Of
      <4>3. QED
        BY <2>1, <4>1, <4>2, SumsStep
    <3> HIDE DEF Of
    <3>2. QED
      BY <2>1, <3>1
  <2>2. CASE s # {}
    <3> HIDE DEF Of
    <3>1. QED
      BY <1>6, <2>2
  <2>3. QED
    BY <2>1, <2>2
<1>7. ASSUME NEW s \in SUBSET T
      PROVE  G[s] = IF s = {} THEN 0 ELSE f[One(s)] + G[s \ {One(s)}]
  <2>1. CASE s = {}
    BY <2>1
  <2>2. CASE s # {}
    <3>1. PICK r : r = s \ {One(s)}
      OBVIOUS
    <3>2. r \in SUBSET T /\ r # T /\ One(s) \in s
      BY <1>5, <2>2, <3>1
    <3>3. G[r] = Of(r)[r]
      BY <1>6, <3>2
    <3>4. CASE s = T
      <4>1. G[s] = f[One(s)] + Of(r)[r]
        <5> HIDE DEF Of
        <5>1. QED
          BY <2>2, <3>1, <3>4
      <4> HIDE DEF G, Of
      <4>2. QED
        BY <2>2, <3>1, <3>3, <4>1
    <3>5. CASE s # T
      <4>1. G[s] = Of(s)[s]
        BY <1>6, <3>5
      <4>2. Sums(Of(s), f, s) /\ Sums(Of(r), f, r)
        BY <1>4, <3>2, <3>5
      <4> HIDE DEF G, Of
      <4>3. Of(s)[s] = f[One(s)] + Of(s)[r]
        <5>1. s \in SUBSET s
          OBVIOUS
        <5>2. QED
          BY <2>2, <3>1, <4>2, <5>1, SumsStep
      <4>4. \A u \in SUBSET (s \cap r) : Of(s)[u] = Of(r)[u]
        <5>1. s \in SUBSET S /\ r \in SUBSET S
          BY <1>3, <3>2
        <5>2. QED
          BY <4>2, <5>1, SumsUnique
      <4>5. r \in SUBSET (s \cap r)
        BY <3>1
      <4>6. Of(s)[r] = Of(r)[r]
        BY <4>4, <4>5
      <4>7. QED
        BY <2>2, <3>1, <3>3, <4>1, <4>3, <4>6
    <3>6. QED
      BY <3>4, <3>5
  <2>3. QED
    BY <2>1, <2>2
<1>8. Sums(G, f, T)
  <2>1. G = [s \in SUBSET T |-> G[s]]
    OBVIOUS
  <2> HIDE DEF G
  <2>2. [s \in SUBSET T |-> G[s]]
           = [s \in SUBSET T |-> IF s = {} THEN 0 ELSE f[One(s)] + G[s \ {One(s)}]]
    BY <1>7
  <2>3. QED
    BY <2>1, <2>2, Zenon DEF Sums
<1>9. QED
  BY <1>3, <1>8

(* So Sum is one. *)
LEMMA SumHolds ==
    ASSUME NEW f, IsFiniteSet(DOMAIN f)
    PROVE  \E g : Sums(g, f, DOMAIN f) /\ Sum(f) = g[DOMAIN f]
<1>1. DOMAIN f \in SUBSET (DOMAIN f)
  OBVIOUS
<1>2. \E g : Sums(g, f, DOMAIN f)
  BY <1>1, SumsExist
<1>3. Sums(CHOOSE g : Sums(g, f, DOMAIN f), f, DOMAIN f)
  BY <1>2, Zenon
<1>4. QED
  BY <1>3, SumUnfolds, Zenon

LEMMA SumOfNone ==
    ASSUME NEW f, DOMAIN f = {}
    PROVE  Sum(f) = 0
<1>1. IsFiniteSet(DOMAIN f)
  BY FS_EmptySet
<1>2. PICK g : Sums(g, f, DOMAIN f) /\ Sum(f) = g[DOMAIN f]
  BY <1>1, SumHolds
<1>3. DOMAIN f \in SUBSET (DOMAIN f)
  OBVIOUS
<1>4. g[DOMAIN f] = IF DOMAIN f = {} THEN 0 ELSE f[One(DOMAIN f)] + g[DOMAIN f \ {One(DOMAIN f)}]
  BY <1>2, <1>3, SumsStep, ZenonT(60)
<1>5. QED
  BY <1>2, <1>4

LEMMA SumsNumbers ==
    ASSUME NEW S, IsFiniteSet(S), NEW f, Numbers(f, S), NEW g, Sums(g, f, S)
    PROVE  \A s \in SUBSET S : g[s] \in Int
<1> DEFINE B == {s \in SUBSET S : g[s] \notin Int}
<1> SUFFICES ASSUME B # {} PROVE FALSE
  OBVIOUS
<1>1. B \subseteq SUBSET S
  OBVIOUS
<1>2. PICK s \in B : \A V \in B : V \subseteq s => V = s
  <2> HIDE DEF B
  <2>1. QED
    BY <1>1, SmallestSet
<1>3. s \in SUBSET S /\ g[s] \notin Int
  OBVIOUS
<1>4. g[s] = (IF s = {} THEN 0 ELSE f[One(s)] + g[s \ {One(s)}])
  <2>1. s \in SUBSET S
    BY <1>3
  <2> HIDE DEF B
  <2>2. QED
    BY <2>1, SumsStep
<1>5. s # {}
  BY <1>3, <1>4
<1>6. One(s) \in s
  BY <1>5, OneIn
<1>7. s \ {One(s)} \in SUBSET S /\ s \ {One(s)} \subseteq s /\ s \ {One(s)} # s
  BY <1>3, <1>6
<1>8. g[s \ {One(s)}] \in Int
  BY <1>2, <1>7
<1>9. f[One(s)] \in Int
  BY <1>3, <1>6 DEF Numbers
<1>10. QED
  BY <1>3, <1>4, <1>5, <1>8, <1>9

LEMMA SumIsNumber ==
    ASSUME NEW f, IsFiniteSet(DOMAIN f), Numbers(f, DOMAIN f)
    PROVE  Sum(f) \in Int
<1>1. PICK g : Sums(g, f, DOMAIN f) /\ Sum(f) = g[DOMAIN f]
  BY SumHolds
<1>2. QED
  BY <1>1, SumsNumbers

(* The order of the terms does not matter. *)
LEMMA SumsAnyOrder ==
    ASSUME NEW S, IsFiniteSet(S), NEW f, Numbers(f, S), NEW g, Sums(g, f, S)
    PROVE  \A s \in SUBSET S : \A x \in s : g[s] = f[x] + g[s \ {x}]
<1> DEFINE B == {s \in SUBSET S : \E x \in s : g[s] # f[x] + g[s \ {x}]}
<1> SUFFICES ASSUME B # {} PROVE FALSE
  OBVIOUS
<1>1. B \subseteq SUBSET S
  OBVIOUS
<1>2. PICK s \in B : \A V \in B : V \subseteq s => V = s
  <2> HIDE DEF B
  <2>1. QED
    BY <1>1, SmallestSet
<1>3. PICK x \in s : g[s] # f[x] + g[s \ {x}]
  OBVIOUS
<1>4. PICK o : o = One(s)
  OBVIOUS
<1>5. s \in SUBSET S /\ o \in s /\ g[s] = f[o] + g[s \ {o}]
  <2>1. g[s] = (IF s = {} THEN 0 ELSE f[One(s)] + g[s \ {One(s)}])
    BY SumsStep
  <2>2. QED
    BY <1>3, <1>4, <2>1, OneIn
<1>6. x # o
  BY <1>3, <1>5
<1>7. g[s \ {o}] = f[x] + g[(s \ {o}) \ {x}]
  <2>1. s \ {o} \in SUBSET S /\ s \ {o} \subseteq s /\ s \ {o} # s /\ x \in s \ {o}
    BY <1>3, <1>5, <1>6
  <2>2. s \ {o} \notin B
    BY <1>2, <2>1
  <2>3. QED
    BY <2>1, <2>2
<1>8. g[s \ {x}] = f[o] + g[(s \ {x}) \ {o}]
  <2>1. s \ {x} \in SUBSET S /\ s \ {x} \subseteq s /\ s \ {x} # s /\ o \in s \ {x}
    BY <1>3, <1>5, <1>6
  <2>2. s \ {x} \notin B
    BY <1>2, <2>1
  <2>3. QED
    BY <2>1, <2>2
<1>9. (s \ {x}) \ {o} = (s \ {o}) \ {x}
  OBVIOUS
<1>10. PICK r : r = g[(s \ {o}) \ {x}]
  OBVIOUS
<1>11. r \in Int /\ f[x] \in Int /\ f[o] \in Int
  <2>1. (s \ {o}) \ {x} \in SUBSET S
    BY <1>5
  <2>2. r \in Int
    BY <1>10, <2>1, SumsNumbers
  <2>3. QED
    BY <1>3, <1>5, <2>2 DEF Numbers
<1>12. g[s] = f[o] + (f[x] + r) /\ f[x] + g[s \ {x}] = f[x] + (f[o] + r)
  BY <1>5, <1>7, <1>8, <1>9, <1>10
<1>13. QED
  BY <1>3, <1>11, <1>12

(* A sum is any of its terms and the sum of the others. *)
LEMMA SumSplits ==
    ASSUME NEW f, IsFiniteSet(DOMAIN f), Numbers(f, DOMAIN f), NEW x \in DOMAIN f
    PROVE  Sum(f) = f[x] + Sum([y \in DOMAIN f \ {x} |-> f[y]])
<1> DEFINE S == DOMAIN f
           h == [y \in S \ {x} |-> f[y]]
<1>1. PICK g : Sums(g, f, S) /\ Sum(f) = g[S]
  BY SumHolds
<1>2. IsFiniteSet(DOMAIN h) /\ DOMAIN h = S \ {x}
  BY FS_Subset
<1>3. PICK a : Sums(a, h, S \ {x}) /\ Sum(h) = a[S \ {x}]
  <2> HIDE DEF h
  <2>1. \E a : Sums(a, h, DOMAIN h) /\ Sum(h) = a[DOMAIN h]
    BY <1>2, SumHolds
  <2>2. QED
    BY <1>2, <2>1
<1>4. \A s \in SUBSET (S \cap (S \ {x})) : g[s] = a[s]
  <2>1. \A y \in S \cap (S \ {x}) : f[y] = h[y]
    OBVIOUS
  <2>2. S \in SUBSET S /\ S \ {x} \in SUBSET S /\ IsFiniteSet(S)
    OBVIOUS
  <2> HIDE DEF h, S
  <2>3. Sums(g, f, S) /\ Sums(a, h, S \ {x})
    BY <1>1, <1>3
  <2>4. PICK T : T = S \ {x}
    OBVIOUS
  <2>5. \A s \in SUBSET (S \cap T) : g[s] = a[s]
    BY <2>1, <2>2, <2>3, <2>4, SumsUnique
  <2>6. QED
    BY <2>4, <2>5
<1>5. g[S \ {x}] = a[S \ {x}]
  BY <1>4
<1>6. g[S] = f[x] + g[S \ {x}]
  <2>1. S \in SUBSET S /\ x \in S /\ IsFiniteSet(S) /\ Numbers(f, S)
    OBVIOUS
  <2> HIDE DEF S
  <2>2. QED
    BY <1>1, <2>1, SumsAnyOrder
<1>7. QED
  BY <1>1, <1>3, <1>5, <1>6

-----------------------------------------------------------------------------
(* The projections: the inductive invariant. *)

AllCommands   == UNION {s.commands : s \in Scenarios}
CommandBodies == {c.body : c \in AllCommands}
Bills         == {b \in CommandBodies : /\ b.amount \in Nat /\ b.day \in Int
                                        /\ IsFiniteSet(DOMAIN b.tags)}
Posted        == {[type |-> "removed"]}
                   \cup [type : {"added", "updated", "created"}, body : CommandBodies]
Bodies ==
    [category : {b.category : b \in CommandBodies}, currency : {b.currency : b \in CommandBodies},
     limit : Int, threshold : Int, period : BudgetPeriods, created : Int, due : Int]
Limits == {b \in Bodies : b.category # Uncategorized /\ b.limit > 0 /\ b.threshold \in 1 .. 100}
Rows   == {NoRow} \cup [found : {TRUE}, active : BOOLEAN, body : Bills]

(* Commands, streams and budgets, and how far the deliveries may be. *)
FeedOK ==
    /\ today \in Int /\ commands \subseteq AllCommands
    /\ events \in [Aggregates -> Seq(Posted)]
    /\ \A x \in Expenses : \A n \in 1 .. Len(events[x]) :
          events[x][n].type # "removed" => events[x][n].body \in Bills
    /\ budgets \in [Budgets -> {NoRow} \cup [found : {TRUE}, body : Limits]]
    /\ delivered \in [Subscriptions -> [Aggregates -> Nat]]
    /\ \A s \in {"analytics", "audit"}, a \in Aggregates : delivered[s][a] <= Len(events[a])

(* Analytics: a bucket, there or not, holds exactly the active contributions *)
(* that fall into it, each as often as it names the bucket, and those are   *)
(* what was delivered last.                                                 *)
Active(C, x)   == C[x].found /\ C[x].active
Inside(C, k)   == {x \in Expenses : Active(C, x) /\ k \in Buckets(C[x].body)}
AmountOf(C, k) == Sum([x \in Inside(C, k) |-> AmountFor(C[x].body, k)])
CountOf(C, k)  == Sum([x \in Inside(C, k) |-> Times(C[x].body, k)])
Balanced(r, C) == \A k : AmountIn(r, k) = AmountOf(C, k) /\ CountIn(r, k) = CountOf(C, k)
RecordsOK ==
    /\ contributions \in [Expenses -> Rows]
    /\ \A x \in Expenses :
          /\ Active(contributions, x) <=> x \in Counted("analytics")
          /\ Active(contributions, x) => contributions[x].body = BodyAt("analytics", x)
RollupsOK == Balanced(rollups, contributions)

(* Audit: the entries are the events delivered, each once. *)
EntrySet == [event : Aggregates \X Nat, action : {"added", "updated", "created", "removed"},
             resource : Aggregates]
EntriesOK ==
    /\ entries \in Seq(EntrySet)
    /\ \A i \in 1 .. Len(entries) : \E a \in Aggregates : \E n \in 1 .. delivered["audit"][a] :
          entries[i].event = <<a, n>>
    /\ \A a \in Aggregates : \A n \in 1 .. delivered["audit"][a] :
          \E i \in 1 .. Len(entries) : entries[i].event = <<a, n>>
    /\ \A i, j \in 1 .. Len(entries) : entries[i].event = entries[j].event => i = j
    /\ Len(entries) = Sum(delivered["audit"])

-----------------------------------------------------------------------------
(* The rollups. *)

(* What a bucket holds is finite, and its sum a number. *)
LEMMA InsideFinite == \A C, k : IsFiniteSet(Inside(C, k)) /\ Cardinality(Inside(C, k)) \in Nat
BY ProjectionsAssumption, FS_Subset, FS_CardinalityType DEF Inside

LEMMA BillCounts ==
    ASSUME NEW b \in Bills, NEW k
    PROVE  Times(b, k) \in Nat /\ AmountFor(b, k) \in Nat
<1>1. b.amount \in Nat /\ IsFiniteSet(DOMAIN b.tags)
  BY DEF Bills
<1>2. PICK S : S = {i \in DOMAIN b.tags : b.tags[i] = k.id}
  OBVIOUS
<1>3. IsFiniteSet(S)
  BY <1>1, <1>2, FS_Subset
<1>4. Cardinality(S) \in Nat
  BY <1>3, FS_CardinalityType
<1>5. Times(b, k) \in Nat
  BY <1>2, <1>4 DEF Times
<1>6. PICK n \in Nat, a \in Nat : n = Times(b, k) /\ a = b.amount
  BY <1>1, <1>5
<1>7. n * a \in Nat
  OBVIOUS
<1>8. QED
  BY <1>5, <1>6, <1>7 DEF AmountFor

LEMMA ActiveRow ==
    ASSUME NEW C \in [Expenses -> Rows], NEW x \in Expenses, Active(C, x)
    PROVE  /\ C[x].body \in Bills /\ C[x].body.amount \in Int
           /\ \A k : AmountFor(C[x].body, k) \in Int /\ Times(C[x].body, k) \in Int
<1>1. C[x] \in Rows /\ C[x].found
  BY DEF Active
<1>2. C[x] # NoRow
  BY <1>1 DEF NoRow
<1>3. C[x] \in [found : {TRUE}, active : BOOLEAN, body : Bills]
  BY <1>1, <1>2 DEF Rows
<1>4. C[x].body \in Bills /\ C[x].body.amount \in Int
  BY <1>3 DEF Bills
<1>5. \A k : AmountFor(C[x].body, k) \in Nat /\ Times(C[x].body, k) \in Nat
  BY <1>4, BillCounts
<1>6. QED
  BY <1>4, <1>5

LEMMA AmountIsNumber ==
    ASSUME NEW C \in [Expenses -> Rows], NEW k
    PROVE  AmountOf(C, k) \in Int /\ CountOf(C, k) \in Int
<1> DEFINE f == [x \in Inside(C, k) |-> AmountFor(C[x].body, k)]
           g == [x \in Inside(C, k) |-> Times(C[x].body, k)]
<1>1. /\ DOMAIN f = Inside(C, k) /\ \A x \in DOMAIN f : f[x] \in Int
      /\ DOMAIN g = Inside(C, k) /\ \A x \in DOMAIN g : g[x] \in Int
  BY ActiveRow DEF Inside
<1>2. AmountOf(C, k) = Sum(f) /\ CountOf(C, k) = Sum(g)
  BY DEF AmountOf, CountOf
<1> HIDE DEF f, g
<1>3. Sum(f) \in Int
  BY <1>1, InsideFinite, SumIsNumber DEF Numbers
<1>4. Sum(g) \in Int
  BY <1>1, InsideFinite, SumIsNumber DEF Numbers
<1>5. QED
  BY <1>2, <1>3, <1>4

(* adjust changes the buckets of a contribution and no other. *)
LEMMA AdjustIs ==
    ASSUME NEW r, NEW c, NEW d, NEW k
    PROVE  /\ k \in Buckets(c) =>
                 /\ AmountIn(adjust(r, c, d), k) = AmountIn(r, k) + d * AmountFor(c, k)
                 /\ CountIn(adjust(r, c, d), k) = CountIn(r, k) + d * Times(c, k)
           /\ k \notin Buckets(c) => /\ AmountIn(adjust(r, c, d), k) = AmountIn(r, k)
                                     /\ CountIn(adjust(r, c, d), k) = CountIn(r, k)
<1>1. CASE k \in Buckets(c)
  <2>1. k \in DOMAIN adjust(r, c, d)
    BY <1>1 DEF adjust
  <2>2. adjust(r, c, d)[k] = [amount |-> AmountIn(r, k) + d * AmountFor(c, k),
                              count  |-> CountIn(r, k) + d * Times(c, k)]
    BY <1>1 DEF adjust
  <2>3. QED
    BY <1>1, <2>1, <2>2 DEF AmountIn, CountIn
<1>2. CASE k \notin Buckets(c)
  BY <1>2 DEF adjust, AmountIn, CountIn
<1>3. QED
  BY <1>1, <1>2

(* What a bucket holds without one of its contributions. *)
AmountRest(C, k, x) == Sum([y \in Inside(C, k) \ {x} |-> AmountFor(C[y].body, k)])
CountRest(C, k, x)  == Sum([y \in Inside(C, k) \ {x} |-> Times(C[y].body, k)])

(* A bucket is one of its contributions and the rest. *)
LEMMA RestIs ==
    ASSUME NEW C \in [Expenses -> Rows], NEW k, NEW x \in Inside(C, k)
    PROVE  /\ AmountOf(C, k) = AmountFor(C[x].body, k) + AmountRest(C, k, x)
           /\ CountOf(C, k) = Times(C[x].body, k) + CountRest(C, k, x)
<1> DEFINE f == [y \in Inside(C, k) |-> AmountFor(C[y].body, k)]
           g == [y \in Inside(C, k) |-> Times(C[y].body, k)]
<1>1. /\ DOMAIN f = Inside(C, k) /\ f[x] = AmountFor(C[x].body, k) /\ \A y \in DOMAIN f : f[y] \in Int
      /\ DOMAIN g = Inside(C, k) /\ g[x] = Times(C[x].body, k) /\ \A y \in DOMAIN g : g[y] \in Int
  BY ActiveRow DEF Inside
<1>2. AmountOf(C, k) = Sum(f) /\ CountOf(C, k) = Sum(g)
  BY DEF AmountOf, CountOf
<1>3. /\ AmountRest(C, k, x) = Sum([y \in DOMAIN f \ {x} |-> f[y]])
      /\ CountRest(C, k, x) = Sum([y \in DOMAIN g \ {x} |-> g[y]])
  <2>1. [y \in Inside(C, k) \ {x} |-> AmountFor(C[y].body, k)] = [y \in DOMAIN f \ {x} |-> f[y]]
    OBVIOUS
  <2>2. [y \in Inside(C, k) \ {x} |-> Times(C[y].body, k)] = [y \in DOMAIN g \ {x} |-> g[y]]
    OBVIOUS
  <2>3. QED
    BY <2>1, <2>2 DEF AmountRest, CountRest
<1> HIDE DEF f, g
<1>4. Sum(f) = f[x] + Sum([y \in DOMAIN f \ {x} |-> f[y]])
  <2>1. IsFiniteSet(DOMAIN f) /\ Numbers(f, DOMAIN f) /\ x \in DOMAIN f
    BY <1>1, InsideFinite DEF Numbers
  <2>2. QED
    BY <2>1, SumSplits
<1>5. Sum(g) = g[x] + Sum([y \in DOMAIN g \ {x} |-> g[y]])
  <2>1. IsFiniteSet(DOMAIN g) /\ Numbers(g, DOMAIN g) /\ x \in DOMAIN g
    BY <1>1, InsideFinite DEF Numbers
  <2>2. QED
    BY <2>1, SumSplits
<1>6. QED
  BY <1>1, <1>2, <1>3, <1>4, <1>5

(* One contribution changes at a time: without it a bucket holds the same,  *)
(* and all it holds if it never held the one.                               *)
LEMMA OthersSame ==
    ASSUME NEW C \in [Expenses -> Rows], NEW D \in [Expenses -> Rows], NEW x \in Expenses,
           \A y \in Expenses \ {x} : D[y] = C[y], NEW k
    PROVE  /\ AmountRest(D, k, x) = AmountRest(C, k, x) /\ CountRest(D, k, x) = CountRest(C, k, x)
           /\ x \notin Inside(D, k) =>
                 AmountOf(D, k) = AmountRest(D, k, x) /\ CountOf(D, k) = CountRest(D, k, x)
<1>1. Inside(D, k) \ {x} = Inside(C, k) \ {x}
  BY DEF Inside, Active
<1>2. \A y \in Inside(D, k) \ {x} : D[y] = C[y]
  BY DEF Inside
<1>3. [y \in Inside(D, k) \ {x} |-> AmountFor(D[y].body, k)]
         = [y \in Inside(C, k) \ {x} |-> AmountFor(C[y].body, k)]
  BY <1>1, <1>2
<1>4. [y \in Inside(D, k) \ {x} |-> Times(D[y].body, k)]
         = [y \in Inside(C, k) \ {x} |-> Times(C[y].body, k)]
  BY <1>1, <1>2
<1>5. x \notin Inside(D, k) => Inside(D, k) \ {x} = Inside(D, k)
  OBVIOUS
<1>6. QED
  BY <1>3, <1>4, <1>5 DEF AmountOf, CountOf, AmountRest, CountRest

(* A contribution that stops counting is taken out of its buckets, *)
LEMMA TakenOut ==
    ASSUME NEW C \in [Expenses -> Rows], NEW D \in [Expenses -> Rows], NEW x \in Expenses,
           \A y \in Expenses \ {x} : D[y] = C[y], ~Active(D, x), NEW r, Balanced(r, C)
    PROVE  Balanced(IF Active(C, x) THEN adjust(r, C[x].body, -1) ELSE r, D)
<1> DEFINE q == IF Active(C, x) THEN adjust(r, C[x].body, -1) ELSE r
<1> SUFFICES ASSUME NEW k
             PROVE  AmountIn(q, k) = AmountOf(D, k) /\ CountIn(q, k) = CountOf(D, k)
  BY DEF Balanced
<1>1. AmountIn(r, k) = AmountOf(C, k) /\ CountIn(r, k) = CountOf(C, k)
  BY DEF Balanced
<1>2. x \notin Inside(D, k)
  BY DEF Inside
<1>3. AmountOf(D, k) = AmountRest(C, k, x) /\ CountOf(D, k) = CountRest(C, k, x)
  BY <1>2, OthersSame
<1>4. CASE x \in Inside(C, k)
  <2>1. /\ Active(C, x) /\ k \in Buckets(C[x].body)
        /\ AmountFor(C[x].body, k) \in Int /\ Times(C[x].body, k) \in Int
    BY <1>4, ActiveRow DEF Inside
  <2>2. PICK a \in Int, b \in Int, s \in Int, n \in Int :
           /\ a = AmountFor(C[x].body, k) /\ b = Times(C[x].body, k)
           /\ s = AmountOf(C, k) /\ n = CountOf(C, k)
    BY <2>1, AmountIsNumber
  <2>3. AmountIn(q, k) = s + (-1) * a /\ CountIn(q, k) = n + (-1) * b
    BY <1>1, <2>1, <2>2, AdjustIs
  <2>4. s = a + AmountOf(D, k) /\ n = b + CountOf(D, k)
    BY <1>3, <1>4, <2>2, RestIs
  <2>5. AmountOf(D, k) \in Int /\ CountOf(D, k) \in Int
    BY AmountIsNumber
  <2> HIDE DEF q
  <2>6. QED
    BY <2>3, <2>4, <2>5
<1>5. CASE x \notin Inside(C, k)
  <2>1. AmountIn(q, k) = AmountIn(r, k) /\ CountIn(q, k) = CountIn(r, k)
    BY <1>5, AdjustIs DEF Inside
  <2>2. \A y \in Expenses \ {x} : C[y] = D[y]
    OBVIOUS
  <2>3. AmountOf(C, k) = AmountRest(C, k, x) /\ CountOf(C, k) = CountRest(C, k, x)
    BY <1>5, <2>2, OthersSame
  <2> HIDE DEF q
  <2>4. QED
    BY <1>1, <1>3, <2>1, <2>3
<1>6. QED
  BY <1>4, <1>5

(* and one that starts to count is put into them. *)
LEMMA PutIn ==
    ASSUME NEW C \in [Expenses -> Rows], NEW D \in [Expenses -> Rows], NEW x \in Expenses,
           \A y \in Expenses \ {x} : D[y] = C[y], ~Active(C, x), Active(D, x),
           NEW r, Balanced(r, C)
    PROVE  Balanced(adjust(r, D[x].body, 1), D)
<1> DEFINE q == adjust(r, D[x].body, 1)
<1> SUFFICES ASSUME NEW k
             PROVE  AmountIn(q, k) = AmountOf(D, k) /\ CountIn(q, k) = CountOf(D, k)
  BY DEF Balanced
<1>1. AmountIn(r, k) = AmountOf(C, k) /\ CountIn(r, k) = CountOf(C, k)
  BY DEF Balanced
<1>2. x \notin Inside(C, k) /\ \A y \in Expenses \ {x} : C[y] = D[y]
  BY DEF Inside
<1>3. AmountOf(C, k) = AmountRest(D, k, x) /\ CountOf(C, k) = CountRest(D, k, x)
  BY <1>2, OthersSame
<1>4. CASE x \in Inside(D, k)
  <2>1. /\ k \in Buckets(D[x].body)
        /\ AmountFor(D[x].body, k) \in Int /\ Times(D[x].body, k) \in Int
    BY <1>4, ActiveRow DEF Inside
  <2>2. PICK a \in Int, b \in Int, s \in Int, n \in Int :
           /\ a = AmountFor(D[x].body, k) /\ b = Times(D[x].body, k)
           /\ s = AmountOf(C, k) /\ n = CountOf(C, k)
    BY <2>1, AmountIsNumber
  <2>3. AmountIn(q, k) = s + 1 * a /\ CountIn(q, k) = n + 1 * b
    BY <1>1, <2>1, <2>2, AdjustIs
  <2>4. AmountOf(D, k) = a + s /\ CountOf(D, k) = b + n
    BY <1>3, <1>4, <2>2, RestIs
  <2> HIDE DEF q
  <2>5. QED
    BY <2>3, <2>4
<1>5. CASE x \notin Inside(D, k)
  <2>1. k \notin Buckets(D[x].body)
    BY <1>5 DEF Inside
  <2>2. AmountIn(q, k) = AmountIn(r, k) /\ CountIn(q, k) = CountIn(r, k)
    BY <2>1, AdjustIs
  <2>3. AmountOf(D, k) = AmountRest(D, k, x) /\ CountOf(D, k) = CountRest(D, k, x)
    BY <1>5, OthersSame
  <2> HIDE DEF q
  <2>4. QED
    BY <1>1, <1>3, <2>2, <2>3
<1>6. QED
  BY <1>4, <1>5
-----------------------------------------------------------------------------
(* The commands. *)

(* What a valid command carries. *)
LEMMA CommandKnown ==
    ASSUME NEW c \in AllCommands, c.op \in {"add", "update"}
    PROVE  /\ c.body \in CommandBodies
           /\ c.on \in Expenses => c.body \in Bills
           /\ c.on \in Budgets => c.body \in [category : {c.body.category}, currency : {c.body.currency},
                                              limit : Int, threshold : Int, period : {c.body.period},
                                              created : Int, due : Int]
<1>1. PICK s \in Scenarios : c \in s.commands
  BY DEF AllCommands
<1>2. /\ Carries(c, Expenses) => /\ c.body.amount \in Nat /\ c.body.day \in Int
                                 /\ IsFiniteSet(DOMAIN c.body.tags)
      /\ Carries(c, Budgets) =>
            c.body \in [category : {c.body.category}, currency : {c.body.currency},
                        limit : Int, threshold : Int, period : {c.body.period},
                        created : Int, due : Int]
  BY <1>1, ProjectionsAssumption
<1>3. c.body \in CommandBodies
  BY DEF CommandBodies
<1>4. QED
  BY <1>2, <1>3 DEF Carries, Bills

LEMMA LimitStored ==
    ASSUME NEW c \in AllCommands, c.op \in {"add", "update"}, c.on \in Budgets,
           validateBudget(c.body), NEW t \in Int
    PROVE  [c.body EXCEPT !.created = t] \in Limits
<1>1. c.body \in [category : {c.body.category}, currency : {c.body.currency},
                  limit : Int, threshold : Int, period : {c.body.period},
                  created : Int, due : Int]
  BY CommandKnown
<1>2. c.body.category \in {b.category : b \in CommandBodies}
      /\ c.body.currency \in {b.currency : b \in CommandBodies} /\ c.body.period \in BudgetPeriods
  BY CommandKnown DEF validateBudget
<1>3. PICK n : n = [c.body EXCEPT !.created = t]
  OBVIOUS
<1>4. n \in Bodies
  BY <1>1, <1>2, <1>3 DEF Bodies
<1>5. n.category = c.body.category /\ n.limit = c.body.limit /\ n.threshold = c.body.threshold
  BY <1>1, <1>3
<1>6. QED
  BY <1>3, <1>4, <1>5 DEF Limits, validateBudget

Grown ==
    /\ \A a \in Aggregates :
          /\ Len(events[a]) <= Len(events'[a])
          /\ \A n \in 1 .. Len(events[a]) : events'[a][n] = events[a][n]
    /\ \A b \in Budgets : budgets'[b] = budgets[b] \/ Len(events[b]) < Len(events'[b])

(* An event is appended to its stream. *)
LEMMA EmitGrows ==
    ASSUME events \in [Aggregates -> Seq(Posted)], NEW a \in Aggregates, NEW e \in Posted, Emit(a, e)
    PROVE  /\ events' \in [Aggregates -> Seq(Posted)]
           /\ Len(events'[a]) = Len(events[a]) + 1 /\ events'[a][Len(events[a]) + 1] = e
           /\ \A n \in 1 .. Len(events[a]) : events'[a][n] = events[a][n]
           /\ \A d \in Aggregates \ {a} : events'[d] = events[d]
           /\ \A d \in Aggregates : Len(events[d]) \in Nat
<1>1. events' = [events EXCEPT ![a] = Append(events[a], e)]
  BY DEF Emit
<1>2. PICK q \in Seq(Posted) : q = events[a]
  OBVIOUS
<1>3. /\ Append(q, e) \in Seq(Posted) /\ Len(Append(q, e)) = Len(q) + 1
      /\ Append(q, e)[Len(q) + 1] = e /\ \A n \in 1 .. Len(q) : Append(q, e)[n] = q[n]
  OBVIOUS
<1>4. events'[a] = Append(q, e) /\ \A d \in Aggregates \ {a} : events'[d] = events[d]
  BY <1>1, <1>2
<1>5. events' \in [Aggregates -> Seq(Posted)]
  BY <1>1, <1>2, <1>3
<1>6. \A d \in Aggregates : Len(events[d]) \in Nat
  BY LenProperties
<1>7. QED
  BY <1>2, <1>3, <1>4, <1>5, <1>6

LEMMA FeedKeptByEmit ==
    ASSUME FeedOK, NEW a \in Aggregates, NEW e \in Posted, Emit(a, e),
           a \in Expenses /\ e.type # "removed" => e.body \in Bills,
           today' \in Int, commands' \subseteq commands, UNCHANGED delivered,
           budgets' \in [Budgets -> {NoRow} \cup [found : {TRUE}, body : Limits]],
           \A b \in Budgets : b # a => budgets'[b] = budgets[b]
    PROVE  FeedOK' /\ Grown
<1>1. /\ events' \in [Aggregates -> Seq(Posted)]
      /\ Len(events'[a]) = Len(events[a]) + 1 /\ events'[a][Len(events[a]) + 1] = e
      /\ \A n \in 1 .. Len(events[a]) : events'[a][n] = events[a][n]
      /\ \A d \in Aggregates \ {a} : events'[d] = events[d]
      /\ \A d \in Aggregates : Len(events[d]) \in Nat
  BY EmitGrows DEF FeedOK
<1>2. \A d \in Aggregates : Len(events[d]) <= Len(events'[d])
                            /\ \A n \in 1 .. Len(events[d]) : events'[d][n] = events[d][n]
  BY <1>1
<1>3. Grown
  BY <1>1, <1>2 DEF Grown, Aggregates
<1>4. \A x \in Expenses : \A n \in 1 .. Len(events'[x]) :
         events'[x][n].type # "removed" => events'[x][n].body \in Bills
  <2> TAKE x \in Expenses
  <2> TAKE n \in 1 .. Len(events'[x])
  <2>1. x \in Aggregates
    BY DEF Aggregates
  <2>2. CASE n <= Len(events[x])
    <3>1. n \in 1 .. Len(events[x])
      BY <2>1, <2>2, <1>1
    <3>2. QED
      BY <2>1, <3>1, <1>2 DEF FeedOK
  <2>3. CASE x = a /\ n = Len(events[a]) + 1
    BY <2>3, <1>1
  <2>4. QED
    BY <1>1, <2>1, <2>2, <2>3
<1>5. \A s \in {"analytics", "audit"}, d \in Aggregates : delivered'[s][d] <= Len(events'[d])
  <2> TAKE s \in {"analytics", "audit"}, d \in Aggregates
  <2>1. delivered[s][d] <= Len(events[d]) /\ delivered[s][d] \in Nat
    BY DEF FeedOK, Subscriptions
  <2>2. Len(events[d]) \in Nat /\ (Len(events'[d]) = Len(events[d]) \/ Len(events'[d]) = Len(events[d]) + 1)
    BY <1>1
  <2>3. QED
    BY <2>1, <2>2
<1>6. QED
  BY <1>1, <1>3, <1>4, <1>5 DEF FeedOK

ReadSide == <<delivered, contributions, rollups, mirror, usage, entries, tx, history>>

(* Steps of the read side leave the streams alone. *)
LEMMA NothingGrows ==
    ASSUME FeedOK, UNCHANGED <<events, budgets>>
    PROVE  Grown
<1>1. \A a \in Aggregates : Len(events[a]) \in Nat
  BY LenProperties DEF FeedOK
<1>2. QED
  BY <1>1 DEF Grown

(* A command keeps the feed sound and leaves the read side alone. *)
LEMMA CommandHolds ==
    ASSUME FeedOK, NEW c \in commands, Command(c)
    PROVE  FeedOK' /\ Grown /\ UNCHANGED ReadSide
<1>1. c \in AllCommands
  BY DEF FeedOK
<1>2. UNCHANGED ReadSide
  BY DEF Command, AddExpense, UpdateExpense, DeleteExpense, CreateBudget, UpdateBudget,
         DeleteBudget, NextDay, Register, ReadSide, readModels
<1>3. commands' \subseteq commands
  BY DEF Command, AddExpense, UpdateExpense, DeleteExpense, CreateBudget, UpdateBudget,
         DeleteBudget, NextDay, Register, Take
<1>4. today \in Int /\ budgets \in [Budgets -> {NoRow} \cup [found : {TRUE}, body : Limits]]
  BY DEF FeedOK
<1>5. CASE AddExpense(c) \/ UpdateExpense(c)
  <2>1. PICK t \in {"added", "updated"} : Emit(c.on, [type |-> t, body |-> c.body])
    BY <1>5 DEF AddExpense, UpdateExpense
  <2>2. /\ c.op \in {"add", "update"} /\ c.on \in Expenses /\ c.on \in Aggregates
        /\ UNCHANGED <<today, budgets, delivered>>
    BY <1>5 DEF AddExpense, UpdateExpense, Aggregates
  <2>3. c.body \in Bills /\ c.body \in CommandBodies
    BY <1>1, <2>2, CommandKnown
  <2>4. PICK e : e = [type |-> t, body |-> c.body]
    OBVIOUS
  <2>5. e \in Posted /\ e.body \in Bills
    BY <2>3, <2>4 DEF Posted
  <2>6. FeedOK' /\ Grown
    BY <1>3, <1>4, <2>1, <2>2, <2>4, <2>5, FeedKeptByEmit
  <2>7. QED
    BY <1>2, <2>6
<1>6. CASE DeleteExpense(c)
  <2>1. /\ Emit(c.on, [type |-> "removed"]) /\ c.on \in Aggregates
        /\ UNCHANGED <<today, budgets, delivered>>
    BY <1>6 DEF DeleteExpense, Aggregates
  <2>2. PICK e : e = [type |-> "removed"]
    OBVIOUS
  <2>3. e \in Posted /\ e.type = "removed"
    BY <2>2 DEF Posted
  <2>4. FeedOK' /\ Grown
    BY <1>3, <1>4, <2>1, <2>2, <2>3, FeedKeptByEmit
  <2>5. QED
    BY <1>2, <2>4
<1>7. CASE CreateBudget(c) \/ UpdateBudget(c)
  <2>1. PICK t \in {"created", "updated"} : Emit(c.on, [type |-> t, body |-> c.body])
    BY <1>7 DEF CreateBudget, UpdateBudget
  <2>2. /\ c.op \in {"add", "update"} /\ c.on \in Budgets /\ c.on \in Aggregates /\ c.on \notin Expenses
        /\ validateBudget(c.body) /\ UNCHANGED <<today, delivered>>
    BY <1>7, ProjectionsAssumption DEF CreateBudget, UpdateBudget, Aggregates
  <2>3. PICK n \in Limits : budgets' = [budgets EXCEPT ![c.on] = [found |-> TRUE, body |-> n]]
    <3>1. CASE CreateBudget(c)
      <4>1. [c.body EXCEPT !.created = today] \in Limits
        BY <1>1, <1>4, <2>2, LimitStored
      <4>2. budgets' = [budgets EXCEPT ![c.on] =
                          [found |-> TRUE, body |-> [c.body EXCEPT !.created = today]]]
        BY <3>1 DEF CreateBudget
      <4>3. QED
        BY <4>1, <4>2
    <3>2. CASE UpdateBudget(c)
      <4>1. budgets[c.on].found /\ budgets[c.on] \in {NoRow} \cup [found : {TRUE}, body : Limits]
        BY <1>4, <2>2, <3>2 DEF UpdateBudget
      <4>2. budgets[c.on] \in [found : {TRUE}, body : Limits]
        <5>1. budgets[c.on] # NoRow
          BY <4>1 DEF NoRow
        <5>2. QED
          BY <4>1, <5>1
      <4>3. budgets[c.on].body.created \in Int
        BY <4>2 DEF Limits, Bodies
      <4>4. PICK n : n = [c.body EXCEPT !.created = budgets[c.on].body.created]
        OBVIOUS
      <4>5. n \in Limits
        BY <1>1, <2>2, <4>3, <4>4, LimitStored
      <4>6. budgets' = [budgets EXCEPT ![c.on].body = n]
        BY <3>2, <4>4 DEF UpdateBudget
      <4>7. [budgets[c.on] EXCEPT !.body = n] = [found |-> TRUE, body |-> n]
        <5>1. PICK r : r = [budgets[c.on] EXCEPT !.body = n]
          OBVIOUS
        <5>2. r \in [found : {TRUE}, body : Limits] /\ r.body = n
          BY <4>2, <4>5, <5>1
        <5>3. r = [found |-> TRUE, body |-> n]
          BY <5>2
        <5>4. QED
          BY <5>1, <5>3
      <4>8. QED
        BY <4>5, <4>6, <4>7
    <3>3. QED
      BY <1>7, <3>1, <3>2
  <2>4. /\ budgets' \in [Budgets -> {NoRow} \cup [found : {TRUE}, body : Limits]]
        /\ \A b \in Budgets : b # c.on => budgets'[b] = budgets[b]
    BY <1>4, <2>3
  <2>5. c.body \in CommandBodies
    BY <1>1, <2>2, CommandKnown
  <2>6. PICK e : e = [type |-> t, body |-> c.body]
    OBVIOUS
  <2>7. e \in Posted
    BY <2>5, <2>6 DEF Posted
  <2>8. FeedOK' /\ Grown
    BY <1>3, <1>4, <2>1, <2>2, <2>4, <2>6, <2>7, FeedKeptByEmit
  <2>9. QED
    BY <1>2, <2>8
<1>8. CASE DeleteBudget(c)
  <2>1. /\ Emit(c.on, [type |-> "removed"]) /\ c.on \in Aggregates /\ c.on \in Budgets
        /\ budgets' = [budgets EXCEPT ![c.on] = NoRow] /\ UNCHANGED <<today, delivered>>
    BY <1>8 DEF DeleteBudget, Aggregates
  <2>2. PICK e : e = [type |-> "removed"]
    OBVIOUS
  <2>3. e \in Posted /\ e.type = "removed"
    BY <2>2 DEF Posted
  <2>4. /\ budgets' \in [Budgets -> {NoRow} \cup [found : {TRUE}, body : Limits]]
        /\ \A b \in Budgets : b # c.on => budgets'[b] = budgets[b]
    BY <1>4, <2>1
  <2>5. FeedOK' /\ Grown
    BY <1>3, <1>4, <2>1, <2>2, <2>3, <2>4, FeedKeptByEmit
  <2>6. QED
    BY <1>2, <2>5
<1>9. CASE NextDay(c) \/ Register(c)
  <2>1. UNCHANGED <<events, budgets, delivered>> /\ today' \in Int
    BY <1>4, <1>9 DEF NextDay, Register
  <2>2. FeedOK'
    BY <1>3, <2>1 DEF FeedOK
  <2>3. QED
    BY <1>2, <2>1, <2>2, NothingGrows
<1>10. QED
  BY <1>5, <1>6, <1>7, <1>8, <1>9 DEF Command
-----------------------------------------------------------------------------
(* Deliveries to analytics. *)

(* A delivery moves its position by one. *)
LEMMA AdvanceHolds ==
    ASSUME FeedOK, NEW s \in Subscriptions, NEW a \in Aggregates, Advance(s, a),
           UNCHANGED <<today, commands, events, budgets>>,
           s \in {"analytics", "audit"} => delivered[s][a] < Len(events[a])
    PROVE  /\ FeedOK' /\ delivered'[s][a] = delivered[s][a] + 1
           /\ \A d \in Aggregates \ {a} : delivered'[s][d] = delivered[s][d]
           /\ \A q \in Subscriptions \ {s} : delivered'[q] = delivered[q]
           /\ delivered'[s] = [delivered[s] EXCEPT ![a] = delivered[s][a] + 1]
<1>1. delivered \in [Subscriptions -> [Aggregates -> Nat]]
  BY DEF FeedOK
<1>2. PICK f \in [Aggregates -> Nat] : f = delivered[s]
  BY <1>1
<1>3. PICK g \in [Aggregates -> Nat] : g = [f EXCEPT ![a] = f[a] + 1]
  <2>1. f[a] + 1 \in Nat
    BY <1>2
  <2>2. [f EXCEPT ![a] = f[a] + 1] \in [Aggregates -> Nat]
    BY <2>1
  <2>3. QED
    BY <2>2
<1>4. delivered' = [delivered EXCEPT ![s] = g]
  BY <1>2, <1>3 DEF Advance
<1>5. g[a] = f[a] + 1 /\ \A d \in Aggregates \ {a} : g[d] = f[d]
  BY <1>3
<1>6. delivered' \in [Subscriptions -> [Aggregates -> Nat]] /\ delivered'[s] = g
      /\ \A q \in Subscriptions \ {s} : delivered'[q] = delivered[q]
  BY <1>1, <1>4
<1>7. \A q \in {"analytics", "audit"}, d \in Aggregates : delivered'[q][d] <= Len(events[d])
  <2> TAKE q \in {"analytics", "audit"}, d \in Aggregates
  <2>1. delivered[q][d] <= Len(events[d]) /\ Len(events[d]) \in Nat /\ q \in Subscriptions
    BY LenProperties DEF FeedOK, Subscriptions
  <2>2. CASE q = s /\ d = a
    <3>1. delivered[s][a] < Len(events[a]) /\ delivered[s][a] \in Nat /\ delivered'[s][a] = delivered[s][a] + 1
      BY <1>1, <1>2, <1>5, <1>6, <2>2
    <3>2. QED
      BY <2>1, <2>2, <3>1
  <2>3. CASE ~(q = s /\ d = a)
    <3>1. delivered'[q][d] = delivered[q][d]
      BY <1>2, <1>5, <1>6, <2>1, <2>3
    <3>2. QED
      BY <2>1, <3>1
  <2>4. QED
    BY <2>2, <2>3
<1>8. FeedOK'
  BY <1>6, <1>7 DEF FeedOK
<1>9. QED
  BY <1>2, <1>3, <1>5, <1>6, <1>8

(* New events that are not delivered yet change no contribution. *)
LEMMA RecordsKept ==
    ASSUME FeedOK, RecordsOK, Grown, UNCHANGED contributions,
           delivered'["analytics"] = delivered["analytics"]
    PROVE  RecordsOK'
<1>1. \A x \in Expenses : /\ delivered["analytics"][x] \in Nat
                          /\ delivered["analytics"][x] <= Len(events[x])
  BY DEF FeedOK, Subscriptions, Aggregates
<1>2. \A x \in Expenses : delivered["analytics"][x] > 0 =>
         events'[x][delivered["analytics"][x]] = events[x][delivered["analytics"][x]]
  <2> TAKE x \in Expenses
  <2> HAVE delivered["analytics"][x] > 0
  <2>1. Len(events[x]) \in Nat /\ x \in Aggregates
    BY LenProperties DEF FeedOK, Aggregates
  <2>2. delivered["analytics"][x] \in 1 .. Len(events[x])
    BY <1>1, <2>1
  <2>3. QED
    BY <2>1, <2>2 DEF Grown
<1>3. \A x \in Expenses : (x \in Counted("analytics"))' <=> x \in Counted("analytics")
  BY <1>2 DEF Counted
<1>4. \A x \in Expenses : x \in Counted("analytics") => BodyAt("analytics", x)' = BodyAt("analytics", x)
  BY <1>2 DEF Counted, BodyAt
<1>5. \A x \in Expenses : Active(contributions, x)' <=> Active(contributions, x)
  BY DEF Active
<1>6. \A x \in Expenses : Active(contributions, x)' => (contributions[x].body = BodyAt("analytics", x))'
  BY <1>4, <1>5 DEF RecordsOK
<1>7. QED
  BY <1>3, <1>5, <1>6 DEF RecordsOK

(* Handling an event, for the first time or again, leaves the contributions *)
(* as of that event and the rollups balanced.                               *)
LEMMA AnalyticsHolds ==
    ASSUME FeedOK, RecordsOK, RollupsOK, NEW x \in Expenses, NEW n \in 1 .. Len(events[x]),
           AnalyticsHandle(x, events[x][n]), UNCHANGED events,
           delivered'["analytics"][x] = n,
           \A y \in Expenses \ {x} : delivered'["analytics"][y] = delivered["analytics"][y]
    PROVE  RecordsOK' /\ RollupsOK'
<1> DEFINE C == contributions
           e == events[x][n]
           next == DecodeExpenseContribution(e)
           q == IF Active(C, x) THEN adjust(rollups, C[x].body, -1) ELSE rollups
<1>1. C \in [Expenses -> Rows] /\ Balanced(rollups, C)
  BY DEF RecordsOK, RollupsOK
<1>2. Reverse(C[x]) = q
  BY DEF Reverse, Active
<1>3. \A y \in Expenses \ {x} : /\ (y \in Counted("analytics"))' <=> y \in Counted("analytics")
                                /\ BodyAt("analytics", y)' = BodyAt("analytics", y)
  BY DEF Counted, BodyAt
<1>4. n > 0 /\ ((x \in Counted("analytics"))' <=> e.type # "removed") /\ BodyAt("analytics", x)' = e.body
  BY DEF Counted, BodyAt
<1>5. ASSUME NEW D \in [Expenses -> Rows], contributions' = D, \A y \in Expenses \ {x} : D[y] = C[y],
             Active(D, x) <=> e.type # "removed", Active(D, x) => D[x].body = e.body
      PROVE  RecordsOK'
  <2>1. \A y \in Expenses \ {x} : /\ Active(D, y) <=> (y \in Counted("analytics"))'
                                  /\ Active(D, y) => D[y].body = BodyAt("analytics", y)'
    BY <1>3, <1>5 DEF RecordsOK, Active
  <2>2. \A y \in Expenses : /\ Active(D, y) <=> (y \in Counted("analytics"))'
                            /\ Active(D, y) => D[y].body = BodyAt("analytics", y)'
    BY <1>4, <1>5, <2>1
  <2>3. QED
    BY <1>5, <2>2 DEF RecordsOK
<1>6. CASE e.type # "removed"
  <2>1. next = [found |-> TRUE, active |-> TRUE, body |-> e.body] /\ e.body \in Bills
    BY <1>6 DEF DecodeExpenseContribution, FeedOK
  <2>2. next \in Rows /\ next.found /\ next.active = TRUE /\ next.body = e.body
    BY <2>1 DEF Rows
  <2>3. rollups' = adjust(q, next.body, 1) /\ contributions' = [C EXCEPT ![x] = next]
    BY <1>2, <2>2 DEF AnalyticsHandle
  <2>4. PICK D : D = [C EXCEPT ![x] = next]
    OBVIOUS
  <2>5. /\ D \in [Expenses -> Rows] /\ D[x] = next /\ \A y \in Expenses \ {x} : D[y] = C[y]
    BY <1>1, <2>2, <2>4
  <2>6. PICK M : M = [C EXCEPT ![x] = NoRow]
    OBVIOUS
  <2>7. M \in [Expenses -> Rows] /\ ~Active(M, x) /\ \A y \in Expenses \ {x} : M[y] = C[y]
    <3>1. M[x] = NoRow /\ NoRow \in Rows /\ ~NoRow.found
      BY <1>1, <2>6 DEF Rows, NoRow
    <3>2. QED
      BY <1>1, <2>6, <3>1 DEF Active
  <2>8. Active(D, x) /\ D[x].body = next.body
    BY <2>2, <2>5 DEF Active
  <2>9. Balanced(q, M)
    <3> HIDE DEF C
    <3>1. QED
      BY <1>1, <2>7, TakenOut
  <2>10. Balanced(adjust(q, D[x].body, 1), D)
    <3>1. \A y \in Expenses \ {x} : D[y] = M[y]
      BY <2>5, <2>7
    <3> HIDE DEF C, q, next
    <3>2. QED
      BY <2>5, <2>7, <2>8, <2>9, <3>1, PutIn
  <2>11. RollupsOK'
    BY <2>3, <2>4, <2>8, <2>10 DEF RollupsOK
  <2>12. RecordsOK'
    BY <1>5, <1>6, <2>2, <2>3, <2>4, <2>5, <2>8
  <2>13. QED
    BY <2>11, <2>12
<1>7. CASE e.type = "removed"
  <2>1. next.active = FALSE
    BY <1>7 DEF DecodeExpenseContribution
  <2>2. rollups' = q /\ contributions' = IF C[x].found THEN [C EXCEPT ![x].active = FALSE] ELSE C
    BY <1>2, <2>1 DEF AnalyticsHandle
  <2>3. PICK D : D = IF C[x].found THEN [C EXCEPT ![x].active = FALSE] ELSE C
    OBVIOUS
  <2>4. D \in [Expenses -> Rows] /\ ~Active(D, x) /\ \A y \in Expenses \ {x} : D[y] = C[y]
    <3>1. CASE C[x].found
      <4>1. C[x] # NoRow /\ C[x] \in Rows
        BY <1>1, <3>1 DEF NoRow
      <4>2. C[x] \in [found : {TRUE}, active : BOOLEAN, body : Bills]
        BY <4>1 DEF Rows
      <4>3. PICK r : r = [C[x] EXCEPT !.active = FALSE]
        OBVIOUS
      <4>4. r \in [found : {TRUE}, active : BOOLEAN, body : Bills] /\ ~r.active
        BY <4>2, <4>3
      <4>5. D = [C EXCEPT ![x] = r]
        BY <2>3, <3>1, <4>3
      <4>6. QED
        BY <1>1, <4>4, <4>5 DEF Active, Rows
    <3>2. CASE ~C[x].found
      BY <1>1, <2>3, <3>2 DEF Active
    <3>3. QED
      BY <3>1, <3>2
  <2>5. Balanced(q, D)
    <3> HIDE DEF C
    <3>1. QED
      BY <1>1, <2>4, TakenOut
  <2>6. RollupsOK'
    BY <2>2, <2>3, <2>5 DEF RollupsOK
  <2>7. RecordsOK'
    BY <1>5, <1>7, <2>2, <2>3, <2>4
  <2>8. QED
    BY <2>6, <2>7
<1>8. QED
  BY <1>6, <1>7
-----------------------------------------------------------------------------
(* Deliveries to audit. *)

(* One more delivery. *)
LEMMA SumRaised ==
    ASSUME NEW S, IsFiniteSet(S), NEW f \in [S -> Nat], NEW a \in S
    PROVE  Sum([f EXCEPT ![a] = f[a] + 1]) = Sum(f) + 1
<1> DEFINE g == [f EXCEPT ![a] = f[a] + 1]
<1>1. DOMAIN f = S /\ DOMAIN g = S /\ g[a] = f[a] + 1 /\ \A y \in S \ {a} : g[y] = f[y]
  OBVIOUS
<1>2. Numbers(f, S) /\ Numbers(g, S)
  BY <1>1 DEF Numbers
<1>3. [y \in S \ {a} |-> g[y]] = [y \in S \ {a} |-> f[y]]
  BY <1>1
<1> HIDE DEF g
<1>4. Sum(f) = f[a] + Sum([y \in S \ {a} |-> f[y]])
  <2>1. Sum(f) = f[a] + Sum([y \in DOMAIN f \ {a} |-> f[y]])
    BY <1>1, <1>2, SumSplits
  <2>2. QED
    BY <1>1, <2>1
<1>5. Sum(g) = g[a] + Sum([y \in S \ {a} |-> g[y]])
  <2>1. Sum(g) = g[a] + Sum([y \in DOMAIN g \ {a} |-> g[y]])
    BY <1>1, <1>2, SumSplits
  <2>2. QED
    BY <1>1, <2>1
<1>6. PICK h : h = [y \in S \ {a} |-> f[y]]
  OBVIOUS
<1>7. Sum(h) \in Int
  <2>1. DOMAIN h = S \ {a} /\ Numbers(h, S \ {a}) /\ IsFiniteSet(S \ {a})
    BY <1>6, FS_Subset DEF Numbers
  <2>2. QED
    BY <2>1, SumIsNumber
<1>8. f[a] \in Int /\ Sum(f) = f[a] + Sum(h) /\ Sum(g) = (f[a] + 1) + Sum(h)
  BY <1>1, <1>3, <1>4, <1>5, <1>6
<1>9. Sum(g) = Sum(f) + 1
  BY <1>7, <1>8
<1>10. QED
  BY <1>9 DEF g

LEMMA EntriesKept ==
    ASSUME EntriesOK, UNCHANGED entries, delivered'["audit"] = delivered["audit"]
    PROVE  EntriesOK'
  BY SMTT(30) DEF EntriesOK

LEMMA AggregatesFinite == IsFiniteSet(Aggregates)
BY ProjectionsAssumption, FS_Union DEF Aggregates

(* The entry of an event. *)
LEMMA EntryIs ==
    ASSUME FeedOK, NEW a \in Aggregates, NEW n \in 1 .. Len(events[a])
    PROVE  EntryFor(a, n) \in EntrySet /\ EntryFor(a, n).event = <<a, n>>
<1>1. events[a][n] \in Posted
  <2>1. events[a] \in Seq(Posted)
    BY DEF FeedOK
  <2>2. QED
    BY <2>1, ElementOfSeq
<1>2. events[a][n].type \in {"added", "updated", "created", "removed"}
  BY <1>1 DEF Posted
<1>3. n \in Nat
  OBVIOUS
<1>4. QED
  BY <1>2, <1>3 DEF EntryFor, EntrySet

(* A delivery adds its entry, *)
LEMMA DeliverAuditHolds ==
    ASSUME FeedOK, EntriesOK, NEW a \in Aggregates, DeliverAudit(a)
    PROVE  EntriesOK' /\ FeedOK'
<1> DEFINE f == delivered["audit"]
           n == f[a] + 1
           g == delivered'["audit"]
<1>1. f[a] < Len(events[a]) /\ AppendEntry(EntryFor(a, n)) /\ Advance("audit", a)
      /\ UNCHANGED <<today, commands, events, budgets>>
  BY DEF DeliverAudit, HasNext
<1>2. f \in [Aggregates -> Nat] /\ "audit" \in Subscriptions /\ Len(events[a]) \in Nat
  BY LenProperties DEF FeedOK, Subscriptions
<1>3. FeedOK' /\ g = [f EXCEPT ![a] = f[a] + 1]
  BY <1>1, <1>2, AdvanceHolds
<1>4. g[a] = n /\ n \in Nat /\ n \in 1 .. Len(events[a]) /\ \A d \in Aggregates \ {a} : g[d] = f[d]
  BY <1>1, <1>2, <1>3
<1>5. EntryFor(a, n) \in EntrySet /\ EntryFor(a, n).event = <<a, n>>
  BY <1>4, EntryIs
<1>6. entries \in Seq(EntrySet) /\ Len(entries) \in Nat
  BY LenProperties DEF EntriesOK
<1>7. \A i \in 1 .. Len(entries) : \E d \in Aggregates : \E m \in 1 .. f[d] : entries[i].event = <<d, m>>
  BY DEF EntriesOK
<1>8. \A i \in 1 .. Len(entries) : entries[i].event # <<a, n>>
  <2> TAKE i \in 1 .. Len(entries)
  <2>1. PICK d \in Aggregates : \E m \in 1 .. f[d] : entries[i].event = <<d, m>>
    BY <1>7
  <2>2. PICK m \in 1 .. f[d] : entries[i].event = <<d, m>>
    BY <2>1
  <2>3. d = a => m <= f[a] /\ m \in Int /\ f[a] \in Nat
    BY <1>2
  <2>4. d = a => m # n
    BY <2>3
  <2>5. QED
    BY <2>2, <2>4
<1>9. PICK e : e = EntryFor(a, n)
  OBVIOUS
<1>10. entries' = Append(entries, e)
  <2>1. DOMAIN entries = 1 .. Len(entries)
    BY <1>6, LenProperties
  <2>2. ~\E i \in DOMAIN entries : entries[i].event = e.event
    BY <1>5, <1>8, <1>9, <2>1
  <2>3. QED
    BY <1>1, <1>9, <2>2 DEF AppendEntry
<1>11. /\ entries' \in Seq(EntrySet) /\ Len(entries') = Len(entries) + 1
       /\ entries'[Len(entries) + 1] = e /\ \A i \in 1 .. Len(entries) : entries'[i] = entries[i]
  BY <1>5, <1>6, <1>9, <1>10, AppendProperties
<1> HIDE DEF n, f, g
<1>12. \A i \in 1 .. Len(entries') : i \in 1 .. Len(entries) \/ i = Len(entries) + 1
  BY <1>6, <1>11
<1>13. Len(entries) + 1 \in 1 .. Len(entries') /\ \A i \in 1 .. Len(entries) : i \in 1 .. Len(entries')
  BY <1>6, <1>11
<1>14. \A i \in 1 .. Len(entries') : \E d \in Aggregates : \E m \in 1 .. g[d] : entries'[i].event = <<d, m>>
  <2> TAKE i \in 1 .. Len(entries')
  <2>1. CASE i \in 1 .. Len(entries)
    <3>1. PICK d \in Aggregates : \E m \in 1 .. f[d] : entries[i].event = <<d, m>>
      BY <1>7, <2>1
    <3>2. PICK m \in 1 .. f[d] : entries[i].event = <<d, m>>
      BY <3>1
    <3>3. m \in 1 .. g[d]
      BY <1>2, <1>4 DEF n
    <3>4. QED
      BY <1>11, <2>1, <3>2, <3>3
  <2>2. CASE i = Len(entries) + 1
    <3>1. n \in 1 .. g[a]
      BY <1>4
    <3>2. QED
      BY <1>5, <1>9, <1>11, <2>2, <3>1
  <2>3. QED
    BY <1>12, <2>1, <2>2
<1>15. \A d \in Aggregates : \A m \in 1 .. g[d] : \E i \in 1 .. Len(entries') : entries'[i].event = <<d, m>>
  <2> TAKE d \in Aggregates
  <2> TAKE m \in 1 .. g[d]
  <2>1. CASE d = a /\ m = n
    BY <1>5, <1>9, <1>11, <1>13, <2>1
  <2>2. CASE ~(d = a /\ m = n)
    <3>1. m \in 1 .. f[d]
      BY <1>2, <1>4, <2>2 DEF n
    <3>2. PICK i \in 1 .. Len(entries) : entries[i].event = <<d, m>>
      BY <3>1 DEF EntriesOK, f
    <3>3. QED
      BY <1>11, <1>13, <3>2
  <2>3. QED
    BY <2>1, <2>2
<1>16. \A i, j \in 1 .. Len(entries') : entries'[i].event = entries'[j].event => i = j
  <2> TAKE i, j \in 1 .. Len(entries')
  <2>1. \A k, l \in 1 .. Len(entries) : entries[k].event = entries[l].event => k = l
    BY DEF EntriesOK
  <2>2. QED
    BY <1>5, <1>8, <1>9, <1>11, <1>12, <2>1
<1>17. Len(entries') = Sum(g)
  <2>1. Sum([f EXCEPT ![a] = f[a] + 1]) = Sum(f) + 1
    BY <1>2, AggregatesFinite, SumRaised
  <2>2. Len(entries) = Sum(f)
    BY DEF EntriesOK, f
  <2>3. QED
    BY <1>3, <1>11, <2>1, <2>2
<1>18. QED
  BY <1>3, <1>11, <1>14, <1>15, <1>16, <1>17 DEF EntriesOK, g

(* a repeated one does not. *)
LEMMA RedeliverAuditHolds ==
    ASSUME FeedOK, EntriesOK, NEW a \in Aggregates, RedeliverAudit(a)
    PROVE  EntriesOK'
<1> DEFINE n == delivered["audit"][a]
<1>1. n > 0 /\ n \in Nat /\ n <= Len(events[a]) /\ Len(events[a]) \in Nat
  BY LenProperties DEF RedeliverAudit, FeedOK, Subscriptions
<1>2. n \in 1 .. Len(events[a]) /\ n \in 1 .. n
  BY <1>1
<1>3. EntryFor(a, n).event = <<a, n>>
  BY <1>2, EntryIs
<1>4. \E i \in 1 .. Len(entries) : entries[i].event = <<a, n>>
  BY <1>2 DEF EntriesOK
<1>5. DOMAIN entries = 1 .. Len(entries)
  BY LenProperties DEF EntriesOK
<1>6. AppendEntry(EntryFor(a, n)) /\ UNCHANGED delivered
  BY DEF RedeliverAudit
<1>7. entries' = entries
  BY <1>3, <1>4, <1>5, <1>6 DEF AppendEntry
<1>8. QED
  BY <1>6, <1>7, EntriesKept
-----------------------------------------------------------------------------
(* The window of a budget. *)

(* Every day of a period has the same start of period. *)
LEMMA PeriodKept ==
    ASSUME NEW p \in AnalyticsPeriods, NEW at \in Int, NEW d \in Int, NEW s, NEW e,
           s = RollupPeriodStart(p, at), e = periodEnd(p, s)
    PROVE  /\ s \in Int /\ e \in Int /\ RollupPeriodStart(p, s) = s
           /\ s <= d /\ d < e => RollupPeriodStart(p, d) = s
<1>1. CASE p = "day"
  <2>1. s = at /\ e = at + 1 /\ RollupPeriodStart("day", s) = s /\ RollupPeriodStart("day", d) = d
    BY <1>1, RollupIs, PeriodEndIs, AddDays
  <2>2. s <= d /\ d < e => d = s
    BY <2>1
  <2>3. QED
    BY <1>1, <2>1, <2>2
<1>2. CASE p = "week"
  <2>1. s = at - (at % 7) /\ s \in Int /\ s % 7 = 0
    BY <1>2, WeekStart
  <2>2. e = s + 7 /\ RollupPeriodStart("week", s) = s - (s % 7) /\ RollupPeriodStart("week", d) = d - (d % 7)
    <3>1. periodEnd("week", s) = AddDate(s, 0, 0, 7)
      BY PeriodEndIs
    <3>2. AddDate(s, 0, 0, 7) = s + 7
      <4>1. s \in Int /\ 7 \in Int
        BY <2>1
      <4>2. QED
        BY ONLY <4>1, AddDays
    <3>3. RollupPeriodStart("week", s) = s - (s % 7)
      BY <2>1, WeekStart
    <3>4. RollupPeriodStart("week", d) = d - (d % 7)
      BY WeekStart
    <3>5. QED
      BY <1>2, <3>1, <3>2, <3>3, <3>4
  <2>3. s <= d /\ d < s + 7 => d - (d % 7) = s
    BY <2>1
  <2>4. s - (s % 7) = s /\ s + 7 \in Int
    BY <2>1
  <2>5. RollupPeriodStart("week", s) = s /\ e \in Int
    BY <2>2, <2>4
  <2>6. s <= d /\ d < e => RollupPeriodStart("week", d) = s
    BY <2>2, <2>3
  <2>7. QED
    BY <1>2, <2>1, <2>5, <2>6
<1>3. CASE p = "month"
  <2>1. PICK k \in Int : k = MonthIndex(at)
    BY MonthIndexHolds
  <2>2. s = MonthStart(k) /\ s \in Int
    BY <1>3, <2>1, MonthPeriodStart, MonthStartType
  <2>3. e = MonthStart(k + 1) /\ e \in Int
    <3>1. k + 12 * 0 + 1 = k + 1
      OBVIOUS
    <3>2. AddDate(s, 0, 1, 0) = MonthStart(k + 1)
      BY <2>2, <3>1, AddMonths
    <3>3. QED
      BY <1>3, <3>2, PeriodEndIs, MonthStartType
  <2>4. RollupPeriodStart("month", s) = s
    BY <2>2, MonthPeriodStart, StartOfMonth
  <2>5. s <= d /\ d < e => MonthIndex(d) = k
    BY <2>2, <2>3, MonthIndexUnique
  <2>6. QED
    BY <1>3, <2>2, <2>3, <2>4, <2>5, MonthPeriodStart
<1>4. CASE p = "year"
  <2>1. PICK y \in Int : y = Year(at)
    BY YearHolds
  <2>2. s = DaysBeforeYear(y) /\ s = MonthStart(12 * y) /\ s \in Int
    BY <1>4, <2>1, YearPeriodStart, YearStartIs, YearDaysType
  <2>3. e = DaysBeforeYear(y + 1) /\ e \in Int
    <3>1. 12 * y \in Int /\ 12 * y + 12 * 1 + 0 = 12 * (y + 1)
      OBVIOUS
    <3>2. AddDate(s, 1, 0, 0) = MonthStart(12 * (y + 1))
      BY <2>2, <3>1, AddMonths
    <3>3. QED
      <4>1. y + 1 \in Int
        OBVIOUS
      <4>2. MonthStart(12 * (y + 1)) = DaysBeforeYear(y + 1) /\ DaysBeforeYear(y + 1) \in Int
        BY <4>1, YearStartIs, YearDaysType
      <4>3. periodEnd("year", s) = AddDate(s, 1, 0, 0)
        BY PeriodEndIs
      <4>4. QED
        BY <1>4, <3>2, <4>2, <4>3
  <2>4. s < e
    <3>1. y + 1 \in Int /\ y < y + 1
      OBVIOUS
    <3>2. DaysBeforeYear(y) < DaysBeforeYear(y + 1)
      BY <3>1, YearsRise
    <3>3. QED
      BY <2>2, <2>3, <3>2
  <2>5. \A t \in Int : s <= t /\ t < e => Year(t) = y
    BY <2>2, <2>3, YearUnique
  <2>6. \A t \in Int : s <= t /\ t < e => RollupPeriodStart("year", t) = s
    BY <2>2, <2>5, YearPeriodStart
  <2>7. QED
    BY <1>4, <2>2, <2>3, <2>4, <2>6
<1>5. QED
  BY <1>1, <1>2, <1>3, <1>4 DEF AnalyticsPeriods

(* The window of a budget is its own period or one of the calendar. *)
LEMMA WindowOf ==
    ASSUME NEW body \in Limits
    PROVE  \/ body.period = "custom" /\ \A t : BudgetWindow(body, t).from = body.created
           \/ \E p \in AnalyticsPeriods : \A t :
                 /\ BudgetWindow(body, t).from = RollupPeriodStart(p, t)
                 /\ BudgetWindow(body, t).to = periodEnd(p, RollupPeriodStart(p, t))
<1> DEFINE kind == CHOOSE k \in AnalyticsPeriods : budgetPeriodFor(k) = body.period
<1>1. body.period \in BudgetPeriods
  BY DEF Limits, Bodies
<1>2. CASE body.period = "custom"
  BY <1>2 DEF BudgetWindow
<1>3. CASE body.period # "custom"
  <2>1. \E k \in AnalyticsPeriods : budgetPeriodFor(k) = body.period
    BY <1>1, <1>3, BudgetPeriodIs DEF BudgetPeriods, AnalyticsPeriods
  <2>2. kind \in AnalyticsPeriods
    BY <2>1, Zenon
  <2>3. ASSUME NEW t
        PROVE  BudgetWindow(body, t) = [from |-> RollupPeriodStart(kind, t),
                                        to |-> periodEnd(kind, RollupPeriodStart(kind, t))]
    BY <1>3, Zenon DEF BudgetWindow
  <2> HIDE DEF kind
  <2>4. \A t : /\ BudgetWindow(body, t).from = RollupPeriodStart(kind, t)
               /\ BudgetWindow(body, t).to = periodEnd(kind, RollupPeriodStart(kind, t))
    BY <2>3
  <2>5. QED
    BY <2>2, <2>4
<1>4. QED
  BY <1>2, <1>3

Starts(body, start) == \E at \in Int : start = BudgetWindow(body, at).from

LEMMA WindowType ==
    ASSUME NEW body \in Limits, NEW at \in Int
    PROVE  BudgetWindow(body, at).from \in Int
<1>1. CASE body.period = "custom" /\ \A t : BudgetWindow(body, t).from = body.created
  BY <1>1 DEF Limits, Bodies
<1>2. ASSUME NEW p \in AnalyticsPeriods,
             \A t : BudgetWindow(body, t).from = RollupPeriodStart(p, t)
      PROVE  BudgetWindow(body, at).from \in Int
  BY <1>2, PeriodKept
<1>3. QED
  BY <1>1, <1>2, WindowOf

(* Every day in a window has that window. *)
LEMMA WindowCovers ==
    ASSUME NEW body \in Limits, NEW start, Starts(body, start), NEW d \in Int,
           start <= d, d < BudgetWindow(body, start).to
    PROVE  BudgetWindow(body, d).from = start
<1>1. PICK at \in Int : start = BudgetWindow(body, at).from
  BY DEF Starts
<1>2. CASE body.period = "custom" /\ \A t : BudgetWindow(body, t).from = body.created
  BY <1>1, <1>2
<1>3. ASSUME NEW p \in AnalyticsPeriods,
             \A t : /\ BudgetWindow(body, t).from = RollupPeriodStart(p, t)
                    /\ BudgetWindow(body, t).to = periodEnd(p, RollupPeriodStart(p, t))
      PROVE  BudgetWindow(body, d).from = start
  <2>1. start = RollupPeriodStart(p, at)
    BY <1>1, <1>3
  <2>2. RollupPeriodStart(p, start) = start
    BY <2>1, PeriodKept
  <2>3. BudgetWindow(body, start).to = periodEnd(p, start)
    BY <1>3, <2>2
  <2>4. RollupPeriodStart(p, d) = start
    BY <2>1, <2>3, PeriodKept
  <2>5. QED
    BY <1>3, <2>4
<1>4. QED
  BY <1>2, <1>3, WindowOf
-----------------------------------------------------------------------------
(* Budget usage: the inductive invariant. *)

WindowKeys == [budget : Budgets, start : Int]
Tasks      == [key : WindowKeys, body : Limits, version : Nat]
Stored     == [spent : Int, alerted : 0 .. 100]
Readings   == [busy : {TRUE}, key : WindowKeys, body : Limits, version : Nat, spent : Int,
               loaded : BOOLEAN, stored : Stored]
LineShapes == [spent : Int, alerted : 0 .. 100, version : Nat, below : BOOLEAN,
               mail : Seq(0 .. 100)]
Lines      == {l \in LineShapes : /\ l.below => l.alerted = 0
                                  /\ l.mail = <<>> \/ l.mail = <<l.alerted>>}
Partial(S, T) == UNION {[D -> T] : D \in SUBSET S}
Transactions ==
    [busy : {TRUE}, aggregate : Aggregates, replay : BOOLEAN, own : Rows, drop : BOOLEAN,
     stale : SUBSET WindowKeys, todo : SUBSET Tasks, read : {Idle} \cup Readings,
     writes : Partial(WindowKeys, Lines)]
Histories == [version : Nat, stale : BOOLEAN, crossed : Nat, replayed : BOOLEAN,
              mails : Seq(0 .. 100)]

UsageTypeOK ==
    /\ mirror \in [Expenses -> Rows]
    /\ usage \in Partial(WindowKeys, Stored)
    /\ history \in Partial(WindowKeys, Histories) /\ DOMAIN history = DOMAIN usage
    /\ tx \in [Workers -> {Idle} \cup Transactions]
    /\ \A v, w \in Workers :
          tx[v].busy /\ tx[w].busy /\ tx[v].aggregate = tx[w].aggregate => v = w

(* What was made for the version of a budget that there is was made for its *)
(* body, in one of its windows, and holds the sum of the rows seen.         *)
Fresh(k, version)  == budgets[k.budget].found /\ version = Len(events[k.budget])
Dated(k, version)  == /\ version <= Len(events[k.budget])
                      /\ Fresh(k, version) => Starts(budgets[k.budget].body, k.start)
Tells(m, k, version, spent) ==
    Fresh(k, version) => spent = SpentIn(m, budgets[k.budget].body, k.start)
Bodied(k, version, body) == Fresh(k, version) => body = budgets[k.budget].body

SeenBy(t) == IF t.own.found THEN [mirror EXCEPT ![t.aggregate] = t.own] ELSE mirror

(* A line that nothing crossed follows on the row it is to replace. *)
Follows(line, alerted, replay) ==
    \/ line.below /\ line.alerted = 0
    \/ /\ ~line.below /\ alerted <= line.alerted
       /\ \/ line.mail = <<>> /\ (replay \/ line.alerted = alerted)
          \/ line.mail = <<line.alerted>> /\ alerted < line.alerted

TaskGood(u) == Dated(u.key, u.version) /\ Bodied(u.key, u.version, u.body)
ReadGood(t) ==
    /\ TaskGood(t.read)
    /\ t.read.key \notin t.stale =>
          /\ Tells(SeenBy(t), t.read.key, t.read.version, t.read.spent)
          /\ t.read.loaded => t.read.stored = LoadUsage(t.read.key)
LineGood(t, k) ==
    /\ Dated(k, t.writes[k].version)
    /\ k \notin t.stale =>
          /\ Tells(SeenBy(t), k, t.writes[k].version, t.writes[k].spent)
          /\ Follows(t.writes[k], LoadUsage(k).alerted, t.replay)
TxGood(t) ==
    /\ t.own.found => t.aggregate \in Expenses
    /\ \A u \in t.todo : TaskGood(u)
    /\ t.read.busy => ReadGood(t)
    /\ \A k \in DOMAIN t.writes : LineGood(t, k)
RowGood(k) ==
    /\ Dated(k, history[k].version)
    /\ ~history[k].stale => Tells(mirror, k, history[k].version, usage[k].spent)

(* The mails of a window so far, the rung on record, and whether a replay   *)
(* put it there.  A rung not on record was mailed at most as often as       *)
(* transactions crossed, one on record once more.                           *)
Rises(mails)    == \A i, j \in DOMAIN mails : i < j => mails[i] < mails[j]
LastMail(mails) == IF mails = <<>> THEN 0 ELSE mails[Len(mails)]
AlertOK(mails, alerted, replayed) ==
    /\ Rises(mails) /\ LastMail(mails) <= alerted
    /\ replayed \/ LastMail(mails) = alerted
Mailed(mails, r) == {i \in DOMAIN mails : mails[i] = r}
Seldom(mails, alerted, crossed) ==
    \A r \in 1 .. 100 :
       Cardinality(Mailed(mails, r)) <= crossed + (IF r <= alerted THEN 1 ELSE 0)
AlertGood(k) ==
    /\ Seldom(history[k].mails, usage[k].alerted, history[k].crossed)
    /\ history[k].crossed = 0 =>
          AlertOK(history[k].mails, usage[k].alerted, history[k].replayed)

UsageInv ==
    /\ UsageTypeOK
    /\ \A w \in Workers : tx[w].busy => TxGood(tx[w])
    /\ \A k \in DOMAIN usage : RowGood(k) /\ AlertGood(k)

-----------------------------------------------------------------------------
(* Facts about the sums. *)

(* What a transaction is and sees. *)
LEMMA BusyTx ==
    ASSUME UsageTypeOK, NEW w \in Workers, tx[w].busy
    PROVE  tx[w] \in Transactions
<1>1. tx[w] \in {Idle} \cup Transactions
  BY DEF UsageTypeOK
<1>2. tx[w] # Idle
  BY DEF Idle
<1>3. QED
  BY <1>1, <1>2

LEMMA NotBusy == ~Idle.busy
BY DEF Idle

LEMMA SeenType ==
    ASSUME UsageTypeOK, NEW w \in Workers, tx[w].busy
    PROVE  Seen(w) \in [Expenses -> Rows]
<1>1. tx[w].own \in Rows
  BY BusyTx DEF Transactions
<1>2. QED
  BY <1>1 DEF Seen, UsageTypeOK

(* A sum of the mirror is a number, and depends on the expenses that count. *)
LEMMA SpentType ==
    ASSUME NEW m \in [Expenses -> Rows], NEW body, NEW start
    PROVE  SpentIn(m, body, start) \in Int
<1> DEFINE rows == {x \in Expenses : /\ m[x].found /\ m[x].active
                                     /\ m[x].body.category = body.category
                                     /\ m[x].body.day >= start
                                     /\ m[x].body.day < BudgetWindow(body, start).to}
           f == [x \in rows |-> m[x].body.amount]
<1>1. SpentIn(m, body, start) = Sum(f)
  BY DEF SpentIn, SumContributions
<1>2. DOMAIN f = rows /\ \A x \in rows : f[x] \in Int
  BY ActiveRow DEF Active
<1>3. IsFiniteSet(rows)
  BY ProjectionsAssumption, FS_Subset
<1> HIDE DEF f, rows
<1>4. QED
  BY <1>1, <1>2, <1>3, SumIsNumber DEF Numbers

(* The expense is counted in a window of the budget. *)
Counts(m, x, body, start) ==
    /\ m[x].found /\ m[x].active /\ m[x].body.category = body.category
    /\ m[x].body.day >= start /\ m[x].body.day < BudgetWindow(body, start).to

LEMMA SpentSame ==
    ASSUME NEW m \in [Expenses -> Rows], NEW n \in [Expenses -> Rows], NEW a, NEW body, NEW start,
           \A x \in Expenses \ {a} : n[x] = m[x],
           ~Counts(m, a, body, start), ~Counts(n, a, body, start)
    PROVE  SpentIn(n, body, start) = SpentIn(m, body, start)
<1> DEFINE R(q) == {x \in Expenses : /\ q[x].found /\ q[x].active
                                     /\ q[x].body.category = body.category
                                     /\ q[x].body.day >= start
                                     /\ q[x].body.day < BudgetWindow(body, start).to}
<1>1. SpentIn(m, body, start) = Sum([x \in R(m) |-> m[x].body.amount])
      /\ SpentIn(n, body, start) = Sum([x \in R(n) |-> n[x].body.amount])
  BY DEF SpentIn, SumContributions
<1>2. R(m) = R(n)
  BY DEF Counts
<1>3. a \notin R(m)
  BY DEF Counts
<1>4. \A x \in R(m) : n[x] = m[x]
  BY <1>3
<1>5. [x \in R(m) |-> m[x].body.amount] = [x \in R(n) |-> n[x].body.amount]
  BY <1>2, <1>4
<1>6. QED
  BY <1>1, <1>5

(* The windows an event moves are all that its expense counts in. *)
LEMMA MovedCovers ==
    ASSUME FeedOK, UsageTypeOK, NEW w \in Workers, tx[w].busy, tx[w].own.found,
           tx[w].aggregate \in Expenses, NEW k \in WindowKeys, budgets[k.budget].found,
           Starts(budgets[k.budget].body, k.start), k \notin Moved(w)
    PROVE  /\ ~Counts(mirror, tx[w].aggregate, budgets[k.budget].body, k.start)
           /\ ~Counts(Seen(w), tx[w].aggregate, budgets[k.budget].body, k.start)
<1> DEFINE a == tx[w].aggregate
           b == k.budget
           body == budgets[b].body
<1>1. b \in Budgets /\ k.start \in Int /\ k = [budget |-> b, start |-> k.start]
  BY DEF WindowKeys
<1>2. body \in Limits /\ body.category # Uncategorized
  <2>1. budgets[b] \in {NoRow} \cup [found : {TRUE}, body : Limits]
    BY <1>1 DEF FeedOK
  <2>2. budgets[b] # NoRow
    BY DEF NoRow
  <2>3. budgets[b] \in [found : {TRUE}, body : Limits]
    BY <2>1, <2>2
  <2>4. QED
    BY <2>3 DEF Limits
<1>3. a \in Expenses /\ tx[w].own \in Rows /\ mirror \in [Expenses -> Rows]
  BY BusyTx DEF UsageTypeOK, Transactions
<1>4. Moved(w) = affectedWindows(mirror[a], tx[w].own)
  BY DEF Moved
<1>5. ASSUME NEW c \in {mirror[a], tx[w].own}, NEW m \in [Expenses -> Rows], m[a] = c
      PROVE  ~Counts(m, a, body, k.start)
  <2> SUFFICES ASSUME Counts(m, a, body, k.start)
               PROVE  FALSE
    OBVIOUS
  <2>1. c.found /\ c.active /\ c.body.category = body.category
        /\ c.body.day >= k.start /\ c.body.day < BudgetWindow(body, k.start).to
    BY <1>5 DEF Counts
  <2>2. c.body.day \in Int
    <3>1. c \in Rows /\ c # NoRow
      BY <1>3, <2>1 DEF NoRow
    <3>2. QED
      BY <3>1 DEF Rows, Bills
  <2>3. BudgetWindow(body, c.body.day).from = k.start
    BY <1>1, <1>2, <2>1, <2>2, WindowCovers
  <2>4. Window(b, c.body.day) = k
    BY <1>1, <2>3 DEF Window
  <2>5. b \in ListBudgetsForCategory(c.body.category)
    BY <1>1, <2>1 DEF ListBudgetsForCategory
  <2>6. c.found /\ c.body.category # Uncategorized
    BY <1>2, <2>1
  <2>7. k \in affectedWindows(mirror[a], tx[w].own)
    <3> HIDE DEF a, b, body
    <3>1. c \in {d \in {mirror[a], tx[w].own} : d.found /\ d.body.category # Uncategorized}
      BY <1>5, <2>6
    <3>2. k \in {Window(o, c.body.day) : o \in ListBudgetsForCategory(c.body.category)}
      BY <2>4, <2>5
    <3>3. QED
      BY <3>1, <3>2 DEF affectedWindows
  <2>8. QED
    BY <1>4, <2>7
<1>6. Seen(w)[a] = tx[w].own /\ Seen(w) \in [Expenses -> Rows]
  BY <1>3, SeenType DEF Seen
<1> HIDE DEF a, body
<1>7. QED
  BY <1>3, <1>5, <1>6 DEF a, b, body
-----------------------------------------------------------------------------
(* Steps that leave the usage rows alone. *)

(* Functions on part of a set. *)
LEMMA PartialIs ==
    \A S, T, f : f \in Partial(S, T) <=>
       (DOMAIN f \subseteq S /\ f = [x \in DOMAIN f |-> f[x]] /\ \A x \in DOMAIN f : f[x] \in T)
BY DEF Partial

(* A row that is up to date with its budget was so before, and its budget is*)
(* the same.                                                                *)
LEMMA FreshKept ==
    ASSUME FeedOK, FeedOK', Grown, NEW k \in WindowKeys, NEW v \in Nat, v <= Len(events[k.budget])
    PROVE  /\ v <= Len(events'[k.budget])
           /\ Fresh(k, v)' => Fresh(k, v) /\ budgets'[k.budget] = budgets[k.budget]
<1>1. k.budget \in Budgets /\ k.budget \in Aggregates
  BY DEF WindowKeys, Aggregates
<1>2. Len(events[k.budget]) \in Nat /\ Len(events'[k.budget]) \in Nat
  BY <1>1, LenProperties DEF FeedOK
<1>3. /\ Len(events[k.budget]) <= Len(events'[k.budget])
      /\ budgets'[k.budget] = budgets[k.budget] \/ Len(events[k.budget]) < Len(events'[k.budget])
  BY <1>1 DEF Grown
<1>4. v <= Len(events'[k.budget])
  BY <1>2, <1>3
<1>5. ASSUME Fresh(k, v)'
      PROVE  Fresh(k, v) /\ budgets'[k.budget] = budgets[k.budget]
  <2>1. v = Len(events'[k.budget]) /\ budgets'[k.budget].found
    BY <1>5 DEF Fresh
  <2>2. v = Len(events[k.budget]) /\ ~(Len(events[k.budget]) < Len(events'[k.budget]))
    BY <1>2, <1>3, <2>1
  <2>3. QED
    BY <1>3, <2>1, <2>2 DEF Fresh
<1>6. QED
  BY <1>4, <1>5

LEMMA DatedKept ==
    ASSUME FeedOK, FeedOK', Grown, NEW k \in WindowKeys, NEW v \in Nat, Dated(k, v)
    PROVE  /\ Dated(k, v)'
           /\ \A body : Bodied(k, v, body) => Bodied(k, v, body)'
           /\ \A m, spent : Tells(m, k, v, spent) => Tells(m, k, v, spent)'
<1>1. v <= Len(events[k.budget])
  BY DEF Dated
<1>2. /\ v <= Len(events'[k.budget])
      /\ Fresh(k, v)' => Fresh(k, v) /\ budgets'[k.budget] = budgets[k.budget]
  BY <1>1, FreshKept
<1>3. Dated(k, v)'
  BY <1>2 DEF Dated, Starts
<1>4. \A body : Bodied(k, v, body) => Bodied(k, v, body)'
  BY <1>2 DEF Bodied
<1>5. ASSUME NEW m, NEW spent, Tells(m, k, v, spent), Fresh(k, v)'
      PROVE  spent = SpentIn(m, budgets'[k.budget].body, k.start)
  BY <1>2, <1>5 DEF Tells
<1>6. \A m, spent : Tells(m, k, v, spent) => Tells(m, k, v, spent)'
  BY <1>5 DEF Tells
<1>7. QED
  BY <1>3, <1>4, <1>6

(* The fields of a transaction. *)
LEMMA TxFields ==
    ASSUME NEW t \in Transactions
    PROVE  /\ t.aggregate \in Aggregates /\ t.replay \in BOOLEAN /\ t.own \in Rows
           /\ t.stale \subseteq WindowKeys
           /\ \A u \in t.todo : u.key \in WindowKeys /\ u.version \in Nat /\ u.body \in Limits
           /\ t.read.busy => /\ t.read \in Readings
                             /\ t.read.key \in WindowKeys /\ t.read.version \in Nat
                             /\ t.read.body \in Limits /\ t.read.spent \in Int
                             /\ t.read.stored \in Stored /\ t.read.loaded \in BOOLEAN
           /\ DOMAIN t.writes \subseteq WindowKeys
           /\ \A k \in DOMAIN t.writes : t.writes[k] \in Lines /\ t.writes[k].version \in Nat
<1>1. /\ t.aggregate \in Aggregates /\ t.replay \in BOOLEAN /\ t.own \in Rows
      /\ t.stale \subseteq WindowKeys /\ t.todo \subseteq Tasks
      /\ t.read \in {Idle} \cup Readings /\ t.writes \in Partial(WindowKeys, Lines)
  BY DEF Transactions
<1>2. \A u \in t.todo : u.key \in WindowKeys /\ u.version \in Nat /\ u.body \in Limits
  BY <1>1 DEF Tasks
<1>3. t.read.busy => t.read \in Readings
  BY <1>1, NotBusy
<1>4. \A r \in Readings : /\ r.key \in WindowKeys /\ r.version \in Nat /\ r.body \in Limits
                          /\ r.spent \in Int /\ r.stored \in Stored /\ r.loaded \in BOOLEAN
  BY DEF Readings
<1>5. DOMAIN t.writes \subseteq WindowKeys /\ \A k \in DOMAIN t.writes : t.writes[k] \in Lines
  BY <1>1, PartialIs
<1>6. \A l \in Lines : l.version \in Nat
  BY DEF Lines, LineShapes
<1>7. QED
  BY <1>1, <1>2, <1>3, <1>4, <1>5, <1>6

(* New events take nothing from what transactions and rows say. *)
LEMMA TxGoodKept ==
    ASSUME FeedOK, FeedOK', Grown, UNCHANGED <<mirror, usage>>, NEW t \in Transactions, TxGood(t)
    PROVE  TxGood(t)'
<1>1. PICK m : m = SeenBy(t)
  OBVIOUS
<1>2. SeenBy(t)' = m /\ \A k : LoadUsage(k)' = LoadUsage(k)
  BY <1>1 DEF SeenBy, LoadUsage
<1>3. \A u \in t.todo : TaskGood(u)'
  <2> TAKE u \in t.todo
  <2>1. u.key \in WindowKeys /\ u.version \in Nat /\ Dated(u.key, u.version)
        /\ Bodied(u.key, u.version, u.body)
    BY TxFields DEF TxGood, TaskGood
  <2>2. QED
    BY <2>1, DatedKept DEF TaskGood
<1>4. t.read.busy => ReadGood(t)'
  <2> HAVE t.read.busy
  <2>1. /\ t.read.key \in WindowKeys /\ t.read.version \in Nat /\ Dated(t.read.key, t.read.version)
        /\ Bodied(t.read.key, t.read.version, t.read.body)
        /\ t.read.key \notin t.stale =>
              /\ Tells(m, t.read.key, t.read.version, t.read.spent)
              /\ t.read.loaded => t.read.stored = LoadUsage(t.read.key)
    BY <1>1, TxFields DEF TxGood, ReadGood, TaskGood
  <2>2. /\ Dated(t.read.key, t.read.version)' /\ Bodied(t.read.key, t.read.version, t.read.body)'
        /\ t.read.key \notin t.stale => Tells(m, t.read.key, t.read.version, t.read.spent)'
    BY <2>1, DatedKept
  <2>3. QED
    BY <1>2, <2>1, <2>2 DEF ReadGood, TaskGood
<1>5. \A k \in DOMAIN t.writes : LineGood(t, k)'
  <2> TAKE k \in DOMAIN t.writes
  <2>1. /\ k \in WindowKeys /\ t.writes[k].version \in Nat /\ Dated(k, t.writes[k].version)
        /\ k \notin t.stale => /\ Tells(m, k, t.writes[k].version, t.writes[k].spent)
                               /\ Follows(t.writes[k], LoadUsage(k).alerted, t.replay)
    BY <1>1, TxFields DEF TxGood, LineGood
  <2>2. /\ Dated(k, t.writes[k].version)'
        /\ k \notin t.stale => Tells(m, k, t.writes[k].version, t.writes[k].spent)'
    BY <2>1, DatedKept
  <2>3. QED
    BY <1>2, <2>1, <2>2 DEF LineGood
<1>6. QED
  BY <1>3, <1>4, <1>5 DEF TxGood
LEMMA RowsKept ==
    ASSUME FeedOK, FeedOK', Grown, UNCHANGED <<mirror, usage, history>>, UsageTypeOK,
           \A k \in DOMAIN usage : RowGood(k)
    PROVE  \A k \in DOMAIN usage' : RowGood(k)'
<1> TAKE k \in DOMAIN usage'
<1>1. k \in DOMAIN usage /\ k \in WindowKeys /\ history[k] \in Histories
  BY PartialIs DEF UsageTypeOK
<1>2. history[k].version \in Nat
  BY <1>1 DEF Histories
<1>3. RowGood(k)
  BY <1>1
<1>4. PICK m : m = mirror
  OBVIOUS
<1>5. Dated(k, history[k].version)'
      /\ (~history[k].stale => Tells(m, k, history[k].version, usage[k].spent)')
  BY <1>1, <1>2, <1>3, <1>4, DatedKept DEF RowGood
<1>6. QED
  BY <1>4, <1>5 DEF RowGood

(* One transaction makes a step, or none: no row is written. *)
LEMMA TxStep ==
    ASSUME FeedOK, FeedOK', Grown, UNCHANGED <<mirror, usage, history>>, UsageInv,
           NEW w \in Workers, NEW t \in {Idle} \cup Transactions, tx' = [tx EXCEPT ![w] = t],
           t.busy => /\ TxGood(t)
                     /\ \A v \in Workers \ {w} : tx[v].busy => tx[v].aggregate # t.aggregate
    PROVE  UsageInv'
<1>1. tx \in [Workers -> {Idle} \cup Transactions]
  BY DEF UsageInv, UsageTypeOK
<1>2. tx' \in [Workers -> {Idle} \cup Transactions] /\ tx'[w] = t
      /\ \A v \in Workers \ {w} : tx'[v] = tx[v]
  BY <1>1
<1>3. \A v, u \in Workers :
         tx'[v].busy /\ tx'[u].busy /\ tx'[v].aggregate = tx'[u].aggregate => v = u
  <2> TAKE v, u \in Workers
  <2>1. tx[v].busy /\ tx[u].busy /\ tx[v].aggregate = tx[u].aggregate => v = u
    BY DEF UsageInv, UsageTypeOK
  <2>2. QED
    BY <1>2, <2>1
<1>4. UsageTypeOK'
  BY <1>2, <1>3 DEF UsageInv, UsageTypeOK
<1>5. ASSUME NEW v \in Workers, tx'[v].busy
      PROVE  TxGood(tx[v])'
  <2>1. PICK q : q = tx'[v]
    OBVIOUS
  <2>2. q \in Transactions
    <3>1. q \in {Idle} \cup Transactions /\ q # Idle
      BY <1>2, <1>5, <2>1, NotBusy
    <3>2. QED
      BY <3>1
  <2>3. TxGood(q)
    BY <1>2, <1>5, <2>1 DEF UsageInv
  <2>4. TxGood(q)'
    BY <2>2, <2>3, TxGoodKept
  <2>5. QED
    BY <2>1, <2>4
<1>6. \A k \in DOMAIN usage' : RowGood(k)'
  BY RowsKept DEF UsageInv
<1>7. \A k \in DOMAIN usage' : AlertGood(k)'
  BY DEF UsageInv, AlertGood
<1>8. QED
  BY <1>4, <1>5, <1>6, <1>7 DEF UsageInv

LEMMA UsageKept ==
    ASSUME FeedOK, FeedOK', Grown, UNCHANGED <<mirror, usage, history, tx>>, UsageInv
    PROVE  UsageInv'
<1>1. tx \in [Workers -> {Idle} \cup Transactions]
  BY DEF UsageInv, UsageTypeOK
<1>2. UsageTypeOK'
  BY DEF UsageInv, UsageTypeOK
<1>3. ASSUME NEW v \in Workers, tx'[v].busy
      PROVE  TxGood(tx[v])'
  <2>1. PICK q : q = tx[v]
    OBVIOUS
  <2>2. q \in Transactions /\ TxGood(q)
    <3>1. q \in {Idle} \cup Transactions /\ q # Idle
      BY <1>1, <1>3, <2>1, NotBusy
    <3>2. QED
      BY <1>3, <2>1, <3>1 DEF UsageInv
  <2>3. TxGood(q)'
    BY <2>2, TxGoodKept
  <2>4. QED
    BY <2>1, <2>3
<1>4. \A k \in DOMAIN usage' : RowGood(k)'
  BY RowsKept DEF UsageInv
<1>5. \A k \in DOMAIN usage' : AlertGood(k)'
  BY DEF UsageInv, AlertGood
<1>6. QED
  BY <1>2, <1>3, <1>4, <1>5 DEF UsageInv

(* A transaction that fails leaves no trace. *)
LEMMA AbortHolds ==
    ASSUME FeedOK, UsageInv, NEW w \in Workers, Abort(w) \/ DeadlockVictim(w)
    PROVE  UsageInv' /\ FeedOK'
<1>1. tx' = [tx EXCEPT ![w] = Idle] /\ UNCHANGED <<mirror, usage, history>>
      /\ UNCHANGED <<today, commands, events, budgets, delivered>>
  BY DEF Abort, DeadlockVictim, readModels
<1>2. FeedOK' /\ Grown
  BY <1>1, NothingGrows DEF FeedOK
<1>3. Idle \in {Idle} \cup Transactions /\ ~Idle.busy
  BY NotBusy
<1>4. PICK t : t = Idle
  OBVIOUS
<1>5. UsageInv'
  BY <1>1, <1>2, <1>3, <1>4, TxStep
<1>6. QED
  BY <1>2, <1>5

(* A window that a budget has now. *)
LEMMA WindowTask ==
    ASSUME FeedOK, NEW b \in Budgets, budgets[b].found, NEW at \in Int
    PROVE  /\ Window(b, at) \in WindowKeys /\ Window(b, at).budget = b
           /\ budgets[b].body \in Limits /\ Len(events[b]) \in Nat
           /\ Starts(budgets[b].body, Window(b, at).start)
<1>1. budgets[b] \in {NoRow} \cup [found : {TRUE}, body : Limits]
  BY DEF FeedOK
<1>2. budgets[b] # NoRow
  BY DEF NoRow
<1>3. budgets[b] \in [found : {TRUE}, body : Limits]
  BY <1>1, <1>2
<1>4. budgets[b].body \in Limits
  BY <1>3
<1>5. BudgetWindow(budgets[b].body, at).from \in Int
  BY <1>4, WindowType
<1>6. Len(events[b]) \in Nat
  BY LenProperties DEF FeedOK, Aggregates
<1>7. Window(b, at) = [budget |-> b, start |-> BudgetWindow(budgets[b].body, at).from]
  BY DEF Window
<1>8. QED
  BY <1>4, <1>5, <1>6, <1>7 DEF WindowKeys, Starts

(* A new transaction has written nothing. *)
LEMMA NothingWritten == <<>> \in Partial(WindowKeys, Lines) /\ DOMAIN <<>> = {}
<1>1. DOMAIN <<>> = {}
  OBVIOUS
<1>2. <<>> \in [{} -> Lines]
  OBVIOUS
<1>3. {} \in SUBSET WindowKeys
  OBVIOUS
<1>4. QED
  BY <1>1, <1>2, <1>3 DEF Partial

(* A transaction as Open begins it. *)
LEMMA OpenHolds ==
    ASSUME FeedOK, UsageInv, NEW w \in Workers, NEW a \in Aggregates, NEW own \in Rows, NEW windows,
           ~InFlight(a), own.found => a \in Expenses, Open(w, a, own, windows),
           \A k \in windows : \E b \in Budgets, at \in Int : budgets[b].found /\ k = Window(b, at),
           UNCHANGED <<today, commands, events, budgets, delivered, mirror, usage, history>>
    PROVE  UsageInv' /\ FeedOK'
<1> DEFINE Task(k) == [key |-> k, body |-> budgets[k.budget].body, version |-> Len(events[k.budget])]
           todo == {Task(k) : k \in windows}
           replay == Replay("budget_usage", a)
<1>1. FeedOK' /\ Grown
  BY NothingGrows DEF FeedOK
<1>2. ASSUME NEW k \in windows
      PROVE  /\ Task(k) \in Tasks /\ TaskGood(Task(k))
  <2>1. PICK b \in Budgets, at \in Int : budgets[b].found /\ k = Window(b, at)
    OBVIOUS
  <2>2. /\ k \in WindowKeys /\ k.budget = b /\ budgets[b].body \in Limits /\ Len(events[b]) \in Nat
        /\ Starts(budgets[b].body, k.start)
    BY <2>1, WindowTask
  <2>3. Task(k) \in Tasks
    BY <2>2 DEF Tasks
  <2>4. Task(k).key = k /\ Task(k).version = Len(events[b]) /\ Task(k).body = budgets[b].body
    BY <2>2
  <2>5. Dated(k, Len(events[b])) /\ Bodied(k, Len(events[b]), budgets[b].body)
    BY <2>2 DEF Dated, Bodied
  <2>6. QED
    BY <2>3, <2>4, <2>5 DEF TaskGood
<1>3. replay \in BOOLEAN
  BY DEF Replay
<1> HIDE DEF Task, replay
<1>4. PICK t : t = [busy |-> TRUE, aggregate |-> a, replay |-> replay, own |-> own, drop |-> FALSE,
                    stale |-> {}, todo |-> todo, read |-> Idle, writes |-> <<>>]
  OBVIOUS
<1>5. tx' = [tx EXCEPT ![w] = t]
  BY <1>4 DEF Open, Task, replay
<1>6. <<>> \in Partial(WindowKeys, Lines) /\ DOMAIN <<>> = {}
  BY NothingWritten
<1>7. todo \subseteq Tasks
  BY <1>2
<1>8. t \in Transactions
  BY <1>3, <1>4, <1>6, <1>7 DEF Transactions
<1>9. t.todo = todo /\ t.aggregate = a /\ t.own = own /\ t.read = Idle /\ t.writes = <<>>
  BY <1>4
<1>10. TxGood(t)
  BY <1>2, <1>6, <1>9, NotBusy DEF TxGood
<1>11. \A v \in Workers \ {w} : tx[v].busy => tx[v].aggregate # t.aggregate
  BY <1>9 DEF InFlight
<1>12. UsageInv'
  BY <1>1, <1>5, <1>8, <1>10, <1>11, TxStep
<1>13. QED
  BY <1>1, <1>12

(* The windows of the budgets an expense counts for. *)
LEMMA WindowsKnown ==
    ASSUME FeedOK, NEW p \in Rows, NEW n \in Rows, NEW k \in affectedWindows(p, n)
    PROVE  \E b \in Budgets, at \in Int : budgets[b].found /\ k = Window(b, at)
<1>1. PICK c \in {d \in {p, n} : d.found /\ d.body.category # Uncategorized} :
         k \in {Window(b, c.body.day) : b \in ListBudgetsForCategory(c.body.category)}
  BY DEF affectedWindows
<1>2. PICK b \in ListBudgetsForCategory(c.body.category) : k = Window(b, c.body.day)
  BY <1>1
<1>3. c \in Rows /\ c # NoRow
  BY <1>1 DEF NoRow
<1>4. c.body.day \in Int
  BY <1>3 DEF Rows, Bills
<1>5. b \in Budgets /\ budgets[b].found
  BY <1>2 DEF ListBudgetsForCategory
<1>6. QED
  BY <1>2, <1>4, <1>5

(* A transaction begins, for an expense or for a budget. *)
LEMMA BeginExpenseHolds ==
    ASSUME FeedOK, UsageInv, NEW w \in Workers, NEW x \in Expenses, BeginExpense(w, x)
    PROVE  UsageInv' /\ FeedOK'
<1> DEFINE previous == mirror[x]
           e        == NextEvent("budget_usage", x)
           decoded  == DecodeExpenseContribution(e)
           next     == IF decoded.active THEN decoded
                       ELSE IF previous.found THEN [previous EXCEPT !.active = FALSE] ELSE NoRow
<1>1. /\ HasNext("budget_usage", x) /\ ~InFlight(x)
      /\ Open(w, x, next, affectedWindows(previous, next))
      /\ UNCHANGED <<today, commands, events, budgets, delivered, mirror, usage, history>>
  BY DEF BeginExpense, readModels
<1>2. x \in Aggregates /\ previous \in Rows
  BY DEF Aggregates, UsageInv, UsageTypeOK
<1>3. delivered["budget_usage"][x] \in Nat /\ Len(events[x]) \in Nat
      /\ delivered["budget_usage"][x] < Len(events[x])
  BY <1>1, <1>2, LenProperties DEF FeedOK, Subscriptions, HasNext
<1>4. delivered["budget_usage"][x] + 1 \in 1 .. Len(events[x])
  BY <1>3
<1>5. e.type # "removed" => e.body \in Bills
  BY <1>4 DEF FeedOK, NextEvent
<1>6. next \in Rows
  <2>1. CASE e.type # "removed"
    <3>1. decoded = [found |-> TRUE, active |-> TRUE, body |-> e.body]
      BY <2>1 DEF DecodeExpenseContribution
    <3> HIDE DEF decoded
    <3>2. decoded \in [found : {TRUE}, active : BOOLEAN, body : Bills] /\ decoded.active = TRUE
      BY <1>5, <2>1, <3>1
    <3>3. QED
      BY <3>2 DEF Rows
  <2>2. CASE e.type = "removed" /\ previous.found
    <3>1. decoded.active = FALSE
      BY <2>2 DEF DecodeExpenseContribution
    <3>2. previous # NoRow
      BY <2>2 DEF NoRow
    <3>3. previous \in [found : {TRUE}, active : BOOLEAN, body : Bills]
      BY <1>2, <3>2 DEF Rows
    <3>4. [previous EXCEPT !.active = FALSE] \in [found : {TRUE}, active : BOOLEAN, body : Bills]
      BY <3>3
    <3>5. QED
      BY <2>2, <3>1, <3>4 DEF Rows
  <2>3. CASE e.type = "removed" /\ ~previous.found
    <3>1. decoded.active = FALSE
      BY <2>3 DEF DecodeExpenseContribution
    <3>2. QED
      BY <2>3, <3>1 DEF Rows
  <2>4. QED
    BY <2>1, <2>2, <2>3
<1> HIDE DEF next, previous
<1>7. PICK windows : windows = affectedWindows(previous, next)
  OBVIOUS
<1>8. \A k \in windows : \E b \in Budgets, at \in Int : budgets[b].found /\ k = Window(b, at)
  BY <1>2, <1>6, <1>7, WindowsKnown
<1>9. PICK own : own = next
  OBVIOUS
<1>10. own \in Rows /\ Open(w, x, own, windows) /\ (own.found => x \in Expenses)
  BY <1>1, <1>6, <1>7, <1>9
<1>11. QED
  BY <1>1, <1>2, <1>8, <1>10, OpenHolds

LEMMA BeginBudgetHolds ==
    ASSUME FeedOK, UsageInv, NEW w \in Workers, NEW b \in Budgets, BeginBudget(w, b)
    PROVE  UsageInv' /\ FeedOK'
<1> DEFINE gone == DecodeBudget(NextEvent("budget_usage", b)).removed \/ ~budgets[b].found
           replay == Replay("budget_usage", b)
<1>1. /\ ~InFlight(b)
      /\ UNCHANGED <<today, commands, events, budgets, delivered, mirror, usage, history>>
  BY DEF BeginBudget, readModels
<1>2. b \in Aggregates /\ NoRow \in Rows /\ ~NoRow.found /\ today \in Int
  BY DEF Aggregates, Rows, NoRow, FeedOK
<1>3. CASE gone
  <2>1. replay \in BOOLEAN
    BY DEF Replay
  <2>2. FeedOK' /\ Grown
    BY <1>1, NothingGrows DEF FeedOK
  <2> HIDE DEF replay
  <2>3. PICK t : t = [busy |-> TRUE, aggregate |-> b, replay |-> replay, own |-> NoRow, drop |-> TRUE,
                      stale |-> {}, todo |-> {}, read |-> Idle, writes |-> <<>>]
    OBVIOUS
  <2>4. tx' = [tx EXCEPT ![w] = t]
    BY <1>3, <2>3 DEF BeginBudget, replay
  <2>5. t \in Transactions
    BY <1>2, <2>1, <2>3, NothingWritten DEF Transactions
  <2>6. t.todo = {} /\ t.aggregate = b /\ t.own = NoRow /\ t.read = Idle /\ t.writes = <<>>
    BY <2>3
  <2>7. TxGood(t)
    BY <1>2, <2>6, NotBusy, NothingWritten DEF TxGood
  <2>8. \A v \in Workers \ {w} : tx[v].busy => tx[v].aggregate # t.aggregate
    BY <1>1, <2>6 DEF InFlight
  <2>9. UsageInv'
    BY <1>1, <2>2, <2>4, <2>5, <2>7, <2>8, TxStep
  <2>10. QED
    BY <2>2, <2>9
<1>4. CASE ~gone
  <2>1. Open(w, b, NoRow, {Window(b, today)}) /\ budgets[b].found
    BY <1>4 DEF BeginBudget
  <2>2. PICK windows : windows = {Window(b, today)}
    OBVIOUS
  <2>3. \A k \in windows : \E c \in Budgets, at \in Int : budgets[c].found /\ k = Window(c, at)
    BY <1>2, <2>1, <2>2
  <2>4. PICK own \in Rows : own = NoRow
    BY <1>2
  <2>5. ~own.found /\ Open(w, b, own, windows)
    BY <1>2, <2>1, <2>2, <2>4
  <2>6. QED
    BY <1>1, <1>2, <2>3, <2>5, OpenHolds
<1>5. QED
  BY <1>3, <1>4

-----------------------------------------------------------------------------
(* Recomputing a window. *)

(* What is stored of a window. *)
LEMMA StoredIs ==
    ASSUME UsageTypeOK, NEW k
    PROVE  LoadUsage(k) \in Stored
<1>1. CASE k \in DOMAIN usage
  BY <1>1, PartialIs DEF LoadUsage, UsageTypeOK
<1>2. CASE k \notin DOMAIN usage
  BY <1>2 DEF LoadUsage, NoUsage, Stored
<1>3. QED
  BY <1>1, <1>2

LEMMA OthersElsewhere ==
    ASSUME UsageTypeOK, NEW w \in Workers, tx[w].busy
    PROVE  \A v \in Workers \ {w} : tx[v].busy => tx[v].aggregate # tx[w].aggregate
BY DEF UsageTypeOK

(* The sum of a window is read. *)
LEMMA ReadSumHolds ==
    ASSUME FeedOK, UsageInv, NEW w \in Workers, ReadSum(w)
    PROVE  UsageInv' /\ FeedOK'
<1>1. /\ tx[w].busy /\ UNCHANGED <<today, commands, events, budgets, delivered, mirror, usage, history>>
  BY DEF ReadSum, readModels
<1>2. FeedOK' /\ Grown
  BY <1>1, NothingGrows DEF FeedOK
<1>3. PICK q \in Transactions : q = tx[w]
  BY <1>1, BusyTx DEF UsageInv
<1>4. TxGood(q) /\ UsageTypeOK
  BY <1>1, <1>3 DEF UsageInv
<1>5. PICK u \in q.todo :
         tx' = [tx EXCEPT ![w].todo = @ \ {u},
                          ![w].read = [busy |-> TRUE, key |-> u.key, body |-> u.body,
                                       version |-> u.version,
                                       spent |-> SpentIn(Seen(w), u.body, u.key.start),
                                       loaded |-> FALSE, stored |-> NoUsage]]
  BY <1>3 DEF ReadSum
<1>6. PICK m \in [Expenses -> Rows] : m = Seen(w)
  BY <1>1, <1>4, SeenType
<1>7. SeenBy(q) = m
  BY <1>3, <1>6 DEF Seen, SeenBy
<1>8. PICK spent \in Int : spent = SpentIn(m, u.body, u.key.start)
  BY SpentType
<1>9. PICK stored \in Stored : stored = NoUsage
  <2>1. NoUsage \in Stored
    BY DEF NoUsage, Stored
  <2>2. QED
    BY <2>1
<1>10. u.key \in WindowKeys /\ u.version \in Nat /\ u.body \in Limits /\ TaskGood(u)
  BY <1>4, TxFields DEF TxGood
<1>11. PICK r : r = [busy |-> TRUE, key |-> u.key, body |-> u.body, version |-> u.version,
                     spent |-> spent, loaded |-> FALSE, stored |-> stored]
  OBVIOUS
<1>12. r \in Readings
  BY <1>10, <1>11 DEF Readings
<1>13. r.busy /\ r.key = u.key /\ r.body = u.body /\ r.version = u.version /\ r.spent = spent
       /\ ~r.loaded
  BY <1>11
<1>14. PICK t : t = [[q EXCEPT !.todo = q.todo \ {u}] EXCEPT !.read = r]
  OBVIOUS
<1>15. tx' = [tx EXCEPT ![w] = t]
  <2>1. tx \in [Workers -> {Idle} \cup Transactions]
    BY <1>4 DEF UsageTypeOK
  <2>2. QED
    BY <1>3, <1>5, <1>6, <1>8, <1>9, <1>11, <1>14, <2>1
<1>16. t \in Transactions
  BY <1>12, <1>14 DEF Transactions
<1>17. /\ t.todo = q.todo \ {u} /\ t.read = r /\ t.own = q.own /\ t.aggregate = q.aggregate
       /\ t.stale = q.stale /\ t.writes = q.writes /\ t.replay = q.replay
  BY <1>14 DEF Transactions
<1>18. SeenBy(t) = m
  BY <1>7, <1>17 DEF SeenBy
<1>19. TaskGood(r)
  BY <1>10, <1>13 DEF TaskGood
<1>20. Tells(m, r.key, r.version, r.spent)
  BY <1>8, <1>13, <1>19 DEF Tells, TaskGood, Bodied
<1>21. ReadGood(t)
  BY <1>13, <1>17, <1>18, <1>19, <1>20 DEF ReadGood
<1>22. \A k \in DOMAIN t.writes : LineGood(t, k)
  BY <1>4, <1>7, <1>17, <1>18 DEF TxGood, LineGood
<1>23. TxGood(t)
  BY <1>4, <1>17, <1>21, <1>22 DEF TxGood
<1>24. \A v \in Workers \ {w} : tx[v].busy => tx[v].aggregate # t.aggregate
  BY <1>1, <1>3, <1>4, <1>17, OthersElsewhere
<1>25. UsageInv'
  BY <1>1, <1>2, <1>15, <1>16, <1>23, <1>24, TxStep
<1>26. QED
  BY <1>2, <1>25

(* The row of the window is read. *)
LEMMA ReadUsageHolds ==
    ASSUME FeedOK, UsageInv, NEW w \in Workers, ReadUsage(w)
    PROVE  UsageInv' /\ FeedOK'
<1>1. /\ tx[w].busy /\ tx[w].read.busy
      /\ UNCHANGED <<today, commands, events, budgets, delivered, mirror, usage, history>>
  BY DEF ReadUsage, readModels
<1>2. FeedOK' /\ Grown
  BY <1>1, NothingGrows DEF FeedOK
<1>3. PICK q \in Transactions : q = tx[w]
  BY <1>1, BusyTx DEF UsageInv
<1>4. TxGood(q) /\ UsageTypeOK
  BY <1>1, <1>3 DEF UsageInv
<1>5. PICK r \in Readings : r = q.read
  BY <1>1, <1>3, TxFields
<1>6. PICK stored \in Stored : stored = LoadUsage(r.key)
  BY <1>4, StoredIs
<1>7. PICK o : o = [[r EXCEPT !.loaded = TRUE] EXCEPT !.stored = stored]
  OBVIOUS
<1>8. o \in Readings
  BY <1>7 DEF Readings
<1>9. /\ o.busy = r.busy /\ o.key = r.key /\ o.body = r.body /\ o.version = r.version
      /\ o.spent = r.spent /\ o.stored = stored
  BY <1>7 DEF Readings
<1>10. PICK t : t = [q EXCEPT !.read = o]
  OBVIOUS
<1>11. tx' = [tx EXCEPT ![w] = t]
  <2>1. tx \in [Workers -> {Idle} \cup Transactions]
    BY <1>4 DEF UsageTypeOK
  <2>2. tx' = [tx EXCEPT ![w].read.loaded = TRUE, ![w].read.stored = stored]
    BY <1>3, <1>5, <1>6 DEF ReadUsage
  <2>3. DOMAIN q = DOMAIN [q EXCEPT !.read = [r EXCEPT !.loaded = TRUE]] /\ "read" \in DOMAIN q
    BY DEF Transactions
  <2>4. QED
    BY <1>3, <1>5, <1>7, <1>10, <2>1, <2>2, <2>3
<1>12. t \in Transactions
  BY <1>8, <1>10 DEF Transactions
<1>13. /\ t.todo = q.todo /\ t.read = o /\ t.own = q.own /\ t.aggregate = q.aggregate
       /\ t.stale = q.stale /\ t.writes = q.writes /\ t.replay = q.replay
  BY <1>10 DEF Transactions
<1>14. PICK m : m = SeenBy(q)
  OBVIOUS
<1>15. SeenBy(t) = m
  BY <1>13, <1>14 DEF SeenBy
<1>16. ReadGood(q)
  BY <1>1, <1>3, <1>4 DEF TxGood
<1>17. ReadGood(t)
  BY <1>5, <1>6, <1>9, <1>13, <1>14, <1>15, <1>16 DEF ReadGood, TaskGood
<1>18. \A k \in DOMAIN t.writes : LineGood(t, k)
  BY <1>4, <1>13, <1>14, <1>15 DEF TxGood, LineGood
<1>19. TxGood(t)
  BY <1>4, <1>13, <1>17, <1>18 DEF TxGood
<1>20. \A v \in Workers \ {w} : tx[v].busy => tx[v].aggregate # t.aggregate
  BY <1>1, <1>3, <1>4, <1>13, OthersElsewhere
<1>21. UsageInv'
  BY <1>1, <1>2, <1>11, <1>12, <1>19, <1>20, TxStep
<1>22. QED
  BY <1>2, <1>21

(* The rungs. *)
LEMMA RungIs ==
    ASSUME NEW body, NEW spent
    PROVE  /\ Percent(body, spent) >= 100 /\ ~(Percent(body, spent) < 100) => Rung(body, spent) = 100
           /\ ~(Percent(body, spent) >= 100) /\ Percent(body, spent) >= body.threshold
                 /\ Percent(body, spent) < 100 => Rung(body, spent) = body.threshold
           /\ ~(Percent(body, spent) >= 100)
                 /\ ~(Percent(body, spent) >= body.threshold /\ Percent(body, spent) < 100)
                 => Rung(body, spent) = 0
BY Zenon DEF Rung

(* The cases of the threshold that was passed. *)
LEMMA AlertedIs ==
    ASSUME NEW body, NEW alerted, NEW spent
    PROVE  /\ Percent(body, spent) >= 100 /\ ~(Percent(body, spent) < 100)
                 => AlertedPercentFor(body, alerted, spent) = 100
           /\ ~(Percent(body, spent) >= 100) /\ Percent(body, spent) >= body.threshold
                 /\ Percent(body, spent) < 100
                 => AlertedPercentFor(body, alerted, spent) = Max({alerted, body.threshold})
           /\ ~(Percent(body, spent) >= 100)
                 /\ ~(Percent(body, spent) >= body.threshold /\ Percent(body, spent) < 100)
                 => AlertedPercentFor(body, alerted, spent) = 0
BY Zenon DEF AlertedPercentFor

LEMMA LargerOf ==
    ASSUME NEW a \in Int, NEW b \in Int
    PROVE  Max({a, b}) = IF a > b THEN a ELSE b
<1>1. PICK m \in {a, b} : \A y \in {a, b} : m >= y
  OBVIOUS
<1>2. Max({a, b}) \in {a, b} /\ \A y \in {a, b} : Max({a, b}) >= y
  BY <1>1, Zenon DEF Max
<1>3. PICK n : n = Max({a, b})
  OBVIOUS
<1>4. QED
  BY <1>2, <1>3

(* A new line follows from what was alerted before. *)
LEMMA LineFollows ==
    ASSUME NEW body \in Limits, NEW alerted \in 0 .. 100, NEW spent \in Int, NEW version \in Nat,
           NEW replay \in BOOLEAN, NEW line,
           line = [spent |-> spent, alerted |-> AlertedPercentFor(body, alerted, spent),
                   version |-> version, below |-> Rung(body, spent) = 0,
                   mail |-> IF BudgetThresholdCrossing(body, alerted, spent) /\ ~replay
                            THEN <<Rung(body, spent)>> ELSE <<>>]
    PROVE  line \in Lines /\ Follows(line, alerted, replay)
<1>1. body.limit \in Int /\ body.limit > 0 /\ body.threshold \in 1 .. 100
  BY DEF Limits, Bodies
<1>2. PICK p \in Int : p = Percent(body, spent)
  BY <1>1 DEF Percent
<1>3. PICK h \in 1 .. 100 : h = body.threshold
  BY <1>1
<1>4. PICK g, n : g = Rung(body, spent) /\ n = AlertedPercentFor(body, alerted, spent)
  OBVIOUS
<1>5. \/ g = 100 /\ n = 100
      \/ g = h /\ n = IF alerted > h THEN alerted ELSE h
      \/ g = 0 /\ n = 0
  <2>1. CASE p >= 100
    <3>1. ~(p < 100)
      BY <2>1
    <3>2. QED
      BY <1>2, <1>4, <2>1, <3>1, RungIs, AlertedIs
  <2>2. CASE ~(p >= 100) /\ p >= h
    <3>1. p < 100
      BY <2>2
    <3>2. g = h /\ n = Max({alerted, h})
      BY <1>2, <1>3, <1>4, <2>2, <3>1, RungIs, AlertedIs
    <3>3. alerted \in Int /\ h \in Int
      OBVIOUS
    <3>4. QED
      BY <3>2, <3>3, LargerOf
  <2>3. CASE ~(p >= 100) /\ ~(p >= h)
    BY <1>2, <1>3, <1>4, <2>3, RungIs, AlertedIs
  <2>4. QED
    BY <2>1, <2>2, <2>3
<1>6. g \in 0 .. 100 /\ n \in 0 .. 100 /\ (g = 0 => n = 0)
      /\ (g # 0 => alerted <= n /\ (g > alerted => n = g) /\ (~(g > alerted) => n = alerted))
  <2>1. CASE g = 100 /\ n = 100
    BY <2>1
  <2>2. CASE g = h /\ n = IF alerted > h THEN alerted ELSE h
    <3>1. g \in 1 .. 100 /\ n \in 0 .. 100
      BY <2>2
    <3>2. alerted <= n /\ (g > alerted => n = g) /\ (~(g > alerted) => n = alerted)
      BY <2>2
    <3>3. QED
      BY <3>1, <3>2
  <2>3. CASE g = 0 /\ n = 0
    BY <2>3
  <2>4. QED
    BY <1>5, <2>1, <2>2, <2>3
<1>7. PICK mail : mail = IF g > alerted /\ ~replay THEN <<g>> ELSE <<>>
  OBVIOUS
<1>8. mail \in Seq(0 .. 100)
  <2>1. <<g>> \in Seq(0 .. 100) /\ <<>> \in Seq(0 .. 100)
    BY <1>6
  <2>2. QED
    BY <1>7, <2>1
<1> DEFINE below == g = 0
<1>9. line = [spent |-> spent, alerted |-> n, version |-> version, below |-> below, mail |-> mail]
  BY <1>4, <1>7 DEF BudgetThresholdCrossing
<1>10. below \in BOOLEAN /\ (below <=> g = 0)
  OBVIOUS
<1> HIDE DEF below
<1>11. line \in LineShapes
  <2>1. \A b \in BOOLEAN, c \in 0 .. 100, q \in Seq(0 .. 100) :
           [spent |-> spent, alerted |-> c, version |-> version, below |-> b, mail |-> q] \in LineShapes
    BY Zenon DEF LineShapes
  <2>2. n \in 0 .. 100
    BY <1>6
  <2>3. QED
    BY <1>8, <1>9, <1>10, <2>1, <2>2, ZenonT(60)
<1>12. line.alerted = n /\ (line.below <=> g = 0) /\ line.mail = mail
  BY <1>9, <1>10
<1>13. CASE g = 0
  <2>1. mail = <<>> /\ n = 0
    BY <1>6, <1>7, <1>13
  <2>2. QED
    BY <1>11, <1>12, <1>13, <2>1 DEF Follows, Lines
<1>14. CASE g # 0 /\ g > alerted /\ ~replay
  <2>1. mail = <<n>> /\ alerted < n /\ alerted <= n
    BY <1>6, <1>7, <1>14
  <2>2. QED
    BY <1>11, <1>12, <1>14, <2>1 DEF Follows, Lines
<1>15. CASE g # 0 /\ ~(g > alerted /\ ~replay)
  <2>1. mail = <<>> /\ alerted <= n /\ (replay \/ n = alerted)
    BY <1>6, <1>7, <1>15
  <2>2. QED
    BY <1>11, <1>12, <1>15, <2>1 DEF Follows, Lines
<1>16. QED
  BY <1>13, <1>14, <1>15

(* A line is written. *)
LEMMA SaveUsageHolds ==
    ASSUME FeedOK, UsageInv, NEW w \in Workers, SaveUsage(w)
    PROVE  UsageInv' /\ FeedOK'
<1>1. /\ tx[w].busy /\ tx[w].read.busy /\ tx[w].read.loaded
      /\ UNCHANGED <<today, commands, events, budgets, delivered, mirror, usage, history>>
  BY DEF SaveUsage, readModels
<1>2. FeedOK' /\ Grown
  BY <1>1, NothingGrows DEF FeedOK
<1>3. PICK q \in Transactions : q = tx[w]
  BY <1>1, BusyTx DEF UsageInv
<1>4. TxGood(q) /\ UsageTypeOK
  BY <1>1, <1>3 DEF UsageInv
<1>5. PICK r \in Readings : r = q.read
  BY <1>1, <1>3, TxFields
<1>6. /\ r.key \in WindowKeys /\ r.body \in Limits /\ r.version \in Nat /\ r.spent \in Int
      /\ r.stored.alerted \in 0 .. 100 /\ q.replay \in BOOLEAN
  BY DEF Readings, Stored, Transactions
<1>7. PICK line : line = [spent |-> r.spent,
                          alerted |-> AlertedPercentFor(r.body, r.stored.alerted, r.spent),
                          version |-> r.version,
                          below |-> Rung(r.body, r.spent) = 0,
                          mail |-> IF /\ BudgetThresholdCrossing(r.body, r.stored.alerted, r.spent)
                                      /\ ~q.replay
                                   THEN <<Rung(r.body, r.spent)>> ELSE <<>>]
  OBVIOUS
<1>8. line \in Lines /\ Follows(line, r.stored.alerted, q.replay)
  BY <1>6, <1>7, LineFollows, ZenonT(60)
<1>9. line.spent = r.spent /\ line.version = r.version
  BY <1>7
<1>10. PICK f : f = [k \in DOMAIN q.writes \cup {r.key} |-> IF k = r.key THEN line ELSE q.writes[k]]
  OBVIOUS
<1>11. f \in Partial(WindowKeys, Lines)
  <2>1. DOMAIN q.writes \subseteq WindowKeys /\ \A k \in DOMAIN q.writes : q.writes[k] \in Lines
    BY TxFields
  <2>2. /\ DOMAIN f \subseteq WindowKeys /\ f = [x \in DOMAIN f |-> f[x]]
        /\ \A x \in DOMAIN f : f[x] \in Lines
    BY <1>6, <1>8, <1>10, <2>1
  <2>3. QED
    BY <2>2, PartialIs
<1>12. PICK t : t = [[q EXCEPT !.read = Idle] EXCEPT !.writes = f]
  OBVIOUS
<1>13. tx' = [tx EXCEPT ![w] = t]
  <2>1. tx \in [Workers -> {Idle} \cup Transactions]
    BY <1>4 DEF UsageTypeOK
  <2>2. tx' = [tx EXCEPT ![w].read = Idle, ![w].writes = f]
    BY <1>3, <1>5, <1>7, <1>10 DEF SaveUsage
  <2>3. QED
    BY <1>3, <1>12, <2>1, <2>2
<1>14. t \in Transactions
  BY <1>11, <1>12 DEF Transactions
<1>15. /\ t.todo = q.todo /\ t.read = Idle /\ t.own = q.own /\ t.aggregate = q.aggregate
       /\ t.stale = q.stale /\ t.writes = f /\ t.replay = q.replay
  BY <1>12 DEF Transactions
<1>16. PICK m : m = SeenBy(q)
  OBVIOUS
<1>17. SeenBy(t) = m
  BY <1>15, <1>16 DEF SeenBy
<1>18. ReadGood(q)
  BY <1>1, <1>3, <1>4 DEF TxGood
<1>19. ASSUME NEW k \in DOMAIN f
       PROVE  LineGood(t, k)
  <2>1. CASE k = r.key
    <3>1. f[k] = line
      BY <1>10, <2>1
    <3>2. Dated(k, line.version)
      BY <1>5, <1>9, <1>18, <2>1 DEF ReadGood, TaskGood
    <3>3. k \notin t.stale => Tells(m, k, line.version, line.spent) /\ r.stored = LoadUsage(k)
      BY <1>1, <1>3, <1>5, <1>9, <1>15, <1>16, <1>18, <2>1 DEF ReadGood
    <3>4. QED
      BY <1>8, <1>15, <1>17, <3>1, <3>2, <3>3 DEF LineGood
  <2>2. CASE k # r.key
    <3>1. k \in DOMAIN q.writes /\ f[k] = q.writes[k]
      BY <1>10, <1>19, <2>2
    <3>2. LineGood(q, k)
      BY <1>4, <3>1 DEF TxGood
    <3>3. QED
      BY <1>15, <1>16, <1>17, <3>1, <3>2 DEF LineGood
  <2>3. QED
    BY <2>1, <2>2
<1>20. TxGood(t)
  BY <1>4, <1>15, <1>19, NotBusy DEF TxGood
<1>21. \A v \in Workers \ {w} : tx[v].busy => tx[v].aggregate # t.aggregate
  BY <1>1, <1>3, <1>4, <1>15, OthersElsewhere
<1>22. UsageInv'
  BY <1>1, <1>2, <1>13, <1>14, <1>20, <1>21, TxStep
<1>23. QED
  BY <1>2, <1>22
-----------------------------------------------------------------------------
(* Transactions that commit. *)

(* A key that is a window of its budget, and what two mirrors say of it. *)
HasWindow(k)     == budgets[k.budget].found /\ Starts(budgets[k.budget].body, k.start)
SameSum(m, n, k) == SpentIn(m, budgets[k.budget].body, k.start)
                       = SpentIn(n, budgets[k.budget].body, k.start)

(* The sum of a window that a commit does not move is the same for those    *)
(* who see the committed row and for those who do not.                      *)
LEMMA SumsKept ==
    ASSUME FeedOK, UsageTypeOK, NEW w \in Workers, tx[w].busy, TxGood(tx[w]),
           NEW k \in WindowKeys, HasWindow(k), k \notin Moved(w), NEW m, m = Seen(w)
    PROVE  /\ SameSum(m, mirror, k)
           /\ \A a \in Expenses, r \in Rows :
                 a # tx[w].aggregate => SameSum([m EXCEPT ![a] = r], [mirror EXCEPT ![a] = r], k)
<1>1. mirror \in [Expenses -> Rows] /\ m \in [Expenses -> Rows]
  BY SeenType DEF UsageTypeOK
<1>2. CASE ~tx[w].own.found
  BY <1>2 DEF Seen, SameSum
<1>3. CASE tx[w].own.found
  <2>1. PICK d \in Expenses : d = tx[w].aggregate
    BY <1>3 DEF TxGood
  <2>2. PICK body, start : body = budgets[k.budget].body /\ start = k.start
    OBVIOUS
  <2>3. ~Counts(mirror, d, body, start) /\ ~Counts(m, d, body, start)
    BY <1>3, <2>1, <2>2, MovedCovers DEF HasWindow
  <2>4. \A x \in Expenses \ {d} : m[x] = mirror[x]
    BY <1>1, <1>3, <2>1 DEF Seen
  <2>5. SpentIn(m, body, start) = SpentIn(mirror, body, start)
    BY <1>1, <2>3, <2>4, SpentSame
  <2>6. ASSUME NEW a \in Expenses, NEW r \in Rows, a # d
        PROVE  SpentIn([m EXCEPT ![a] = r], body, start) = SpentIn([mirror EXCEPT ![a] = r], body, start)
    <3>1. PICK m2, n2 : m2 = [m EXCEPT ![a] = r] /\ n2 = [mirror EXCEPT ![a] = r]
      OBVIOUS
    <3>2. m2 \in [Expenses -> Rows] /\ n2 \in [Expenses -> Rows] /\ m2[d] = m[d] /\ n2[d] = mirror[d]
      BY <1>1, <2>6, <3>1
    <3>3. \A x \in Expenses \ {d} : m2[x] = n2[x]
      BY <1>1, <2>4, <3>1
    <3>4. ~Counts(m2, d, body, start) /\ ~Counts(n2, d, body, start)
      BY <2>3, <3>2 DEF Counts
    <3>5. SpentIn(m2, body, start) = SpentIn(n2, body, start)
      BY <3>2, <3>3, <3>4, SpentSame
    <3>6. QED
      BY <3>1, <3>5
  <2>7. QED
    BY <2>1, <2>2, <2>5, <2>6 DEF SameSum
<1>4. QED
  BY <1>2, <1>3

(* What a commit does to another transaction: it marks what that one has    *)
(* read or written of the rows it touches.                                  *)
Marked(q, touched) ==
    [q EXCEPT !.stale = q.stale \cup
       ((DOMAIN q.writes \cup (IF q.read.busy THEN {q.read.key} ELSE {})) \cap touched)]
RowsSame(touched) == \A k \in WindowKeys \ touched : LoadUsage(k)' = LoadUsage(k)
SumsSame(m, n, touched) ==
    \A k \in WindowKeys \ touched : HasWindow(k) => SameSum(m, n, k)

(* A commit marks what another transaction read of the rows it changed; what is*)
(* unmarked is still true.                                                  *)
LEMMA StaleKept ==
    ASSUME FeedOK, FeedOK', UNCHANGED <<events, budgets>>, NEW q \in Transactions, TxGood(q),
           NEW touched, NEW t, t = Marked(q, touched), RowsSame(touched),
           NEW m, m = SeenBy(q)', SumsSame(m, SeenBy(q), touched)
    PROVE  t \in Transactions /\ t.aggregate = q.aggregate /\ TxGood(t)'
<1> DEFINE written == DOMAIN q.writes \cup (IF q.read.busy THEN {q.read.key} ELSE {})
<1>1. written \subseteq WindowKeys /\ q.stale \subseteq WindowKeys
  BY TxFields
<1>2. PICK s : s = q.stale \cup (written \cap touched)
  OBVIOUS
<1>3. s \subseteq WindowKeys
  BY <1>1, <1>2
<1>4. t \in Transactions
  BY <1>2, <1>3 DEF Transactions, Marked
<1>5. /\ t.todo = q.todo /\ t.read = q.read /\ t.own = q.own /\ t.aggregate = q.aggregate
      /\ t.stale = s /\ t.writes = q.writes /\ t.replay = q.replay
  BY <1>2 DEF Transactions, Marked
<1>6. \A k \in written : k \notin s => k \in WindowKeys \ touched /\ k \notin q.stale
  BY <1>1, <1>2
<1> HIDE DEF written
<1>7. Grown
  BY NothingGrows
<1>8. SeenBy(t)' = m
  BY <1>5 DEF SeenBy
<1>9. ASSUME NEW k \in WindowKeys \ touched, NEW v \in Nat, NEW spent, Dated(k, v),
             Tells(SeenBy(q), k, v, spent)
      PROVE  Tells(m, k, v, spent)'
  <2>1. Tells(m, k, v, spent)
    BY <1>9 DEF Tells, Dated, Fresh, SumsSame, HasWindow, SameSum
  <2>2. QED
    BY <1>7, <1>9, <2>1, DatedKept
<1>10. \A u \in t.todo : TaskGood(u)'
  <2> TAKE u \in t.todo
  <2>1. u.key \in WindowKeys /\ u.version \in Nat /\ Dated(u.key, u.version)
        /\ Bodied(u.key, u.version, u.body)
    BY <1>5, TxFields DEF TxGood, TaskGood
  <2>2. QED
    BY <1>7, <2>1, DatedKept DEF TaskGood
<1>11. t.read.busy => ReadGood(t)'
  <2> HAVE t.read.busy
  <2>1. q.read.busy /\ q.read.key \in written
    BY <1>5 DEF written
  <2>2. q.read.key \in WindowKeys /\ q.read.version \in Nat
    BY <2>1, TxFields
  <2>3. /\ Dated(q.read.key, q.read.version) /\ Bodied(q.read.key, q.read.version, q.read.body)
        /\ q.read.key \notin q.stale =>
              /\ Tells(SeenBy(q), q.read.key, q.read.version, q.read.spent)
              /\ q.read.loaded => q.read.stored = LoadUsage(q.read.key)
    BY <2>1 DEF TxGood, ReadGood, TaskGood
  <2>4. Dated(q.read.key, q.read.version)' /\ Bodied(q.read.key, q.read.version, q.read.body)'
    BY <1>7, <2>2, <2>3, DatedKept
  <2>5. q.read.key \notin s =>
           /\ Tells(m, q.read.key, q.read.version, q.read.spent)'
           /\ q.read.loaded => q.read.stored = LoadUsage(q.read.key)'
    BY <1>6, <1>9, <2>1, <2>2, <2>3 DEF RowsSame
  <2>6. QED
    BY <1>5, <1>8, <2>4, <2>5 DEF ReadGood, TaskGood
<1>12. \A k \in DOMAIN t.writes : LineGood(t, k)'
  <2> TAKE k \in DOMAIN t.writes
  <2>1. k \in DOMAIN q.writes /\ k \in written /\ k \in WindowKeys /\ q.writes[k].version \in Nat
    BY <1>5, TxFields DEF written
  <2>2. /\ Dated(k, q.writes[k].version)
        /\ k \notin q.stale => /\ Tells(SeenBy(q), k, q.writes[k].version, q.writes[k].spent)
                               /\ Follows(q.writes[k], LoadUsage(k).alerted, q.replay)
    BY <2>1 DEF TxGood, LineGood
  <2>3. Dated(k, q.writes[k].version)'
    BY <1>7, <2>1, <2>2, DatedKept
  <2>4. k \notin s => /\ Tells(m, k, q.writes[k].version, q.writes[k].spent)'
                      /\ Follows(q.writes[k], LoadUsage(k)'.alerted, q.replay)
    BY <1>6, <1>9, <2>1, <2>2 DEF RowsSame
  <2>5. QED
    BY <1>5, <1>8, <2>3, <2>4 DEF LineGood
<1>13. t.own.found => t.aggregate \in Expenses
  BY <1>5 DEF TxGood
<1>14. TxGood(t)'
  BY <1>10, <1>11, <1>12, <1>13 DEF TxGood
<1>15. QED
  BY <1>4, <1>5, <1>14

LEMMA OthersKept ==
    ASSUME FeedOK, FeedOK', UNCHANGED <<events, budgets>>, UsageInv, NEW w \in Workers, NEW touched,
           tx' = [v \in Workers |->
                    IF v = w THEN Idle
                    ELSE IF tx[v].busy
                    THEN [tx[v] EXCEPT !.stale = @ \cup (Written(v) \cap touched)]
                    ELSE tx[v]],
           RowsSame(touched), NEW m, m = mirror',
           \A v \in Workers \ {w} : tx[v].busy =>
              SumsSame(IF tx[v].own.found THEN [m EXCEPT ![tx[v].aggregate] = tx[v].own] ELSE m,
                       SeenBy(tx[v]), touched)
    PROVE  /\ tx' \in [Workers -> {Idle} \cup Transactions]
           /\ \A u, v \in Workers :
                 tx'[u].busy /\ tx'[v].busy /\ tx'[u].aggregate = tx'[v].aggregate => u = v
           /\ \A v \in Workers : tx'[v].busy => TxGood(tx[v])'
<1>1. ~tx'[w].busy /\ tx'[w] = Idle
  BY NotBusy
<1>2. UsageTypeOK
  BY DEF UsageInv
<1>3. ASSUME NEW v \in Workers \ {w}, tx[v].busy
      PROVE  tx'[v] \in Transactions /\ tx'[v].aggregate = tx[v].aggregate /\ TxGood(tx[v])'
  <2>1. PICK q \in Transactions : q = tx[v]
    BY <1>2, <1>3, BusyTx
  <2>2. TxGood(q)
    BY <1>3, <2>1 DEF UsageInv
  <2>3. PICK t : t = Marked(q, touched)
    OBVIOUS
  <2>4. tx'[v] = t
    BY <1>3, <2>1, <2>3 DEF Written, Marked
  <2>5. PICK n : n = IF q.own.found THEN [m EXCEPT ![q.aggregate] = q.own] ELSE m
    OBVIOUS
  <2>6. SeenBy(q)' = n
    BY <2>5 DEF SeenBy
  <2>7. SumsSame(n, SeenBy(q), touched)
    BY <1>3, <2>1, <2>5
  <2>8. t \in Transactions /\ t.aggregate = q.aggregate /\ TxGood(t)'
    BY <2>2, <2>3, <2>6, <2>7, StaleKept
  <2>9. QED
    BY <2>1, <2>4, <2>8
<1>4. \A v \in Workers \ {w} : ~tx[v].busy => tx'[v] = tx[v] /\ tx[v] \in {Idle} \cup Transactions
  BY <1>2 DEF UsageTypeOK
<1>5. tx' \in [Workers -> {Idle} \cup Transactions]
  <2>1. \A v \in Workers : tx'[v] \in {Idle} \cup Transactions
    BY <1>1, <1>3, <1>4
  <2>2. DOMAIN tx' = Workers /\ tx' = [v \in Workers |-> tx'[v]]
    OBVIOUS
  <2>3. QED
    BY <2>1, <2>2
<1>6. \A v \in Workers : tx'[v].busy => /\ v # w /\ tx[v].busy
                                        /\ tx'[v].aggregate = tx[v].aggregate /\ TxGood(tx[v])'
  BY <1>1, <1>3, <1>4
<1>7. QED
  BY <1>2, <1>5, <1>6 DEF UsageTypeOK

(* The mails of a window go on rising with the line. *)
LEMMA AlertFollows ==
    ASSUME NEW mails \in Seq(0 .. 100), NEW alerted \in 0 .. 100, NEW replayed \in BOOLEAN,
           NEW replay \in BOOLEAN, AlertOK(mails, alerted, replayed),
           NEW line \in Lines, Follows(line, alerted, replay)
    PROVE  AlertOK(IF line.below THEN <<>> ELSE mails \o line.mail, line.alerted,
                   (replayed \/ replay) /\ ~line.below)
<1>1. line.alerted \in 0 .. 100 /\ line.below \in BOOLEAN
  BY DEF Lines, LineShapes
<1>2. CASE line.below
  <2>1. line.alerted = 0
    BY <1>2 DEF Follows
  <2>2. DOMAIN <<>> = {} /\ LastMail(<<>>) = 0
    BY DEF LastMail
  <2>3. AlertOK(<<>>, 0, (replayed \/ replay) /\ ~line.below)
    BY <2>2 DEF AlertOK, Rises
  <2>4. QED
    BY <1>2, <2>1, <2>3
<1>3. CASE ~line.below /\ line.mail = <<>>
  <2>1. alerted <= line.alerted /\ (replay \/ line.alerted = alerted)
    BY <1>1, <1>3 DEF Follows
  <2>2. mails \o line.mail = mails
    BY <1>3
  <2>3. LastMail(mails) \in Int
    <3>1. mails # <<>> => Len(mails) \in 1 .. Len(mails)
      BY LenProperties, EmptySeq
    <3>2. mails # <<>> => mails[Len(mails)] \in 0 .. 100
      BY <3>1, ElementOfSeq
    <3>3. CASE mails = <<>>
      BY <3>3 DEF LastMail
    <3>4. CASE mails # <<>>
      <4>1. LastMail(mails) = mails[Len(mails)]
        BY <3>4 DEF LastMail
      <4>2. \A z \in 0 .. 100 : z \in Int
        OBVIOUS
      <4>3. QED
        BY <3>2, <3>4, <4>1, <4>2, Zenon
    <3>5. QED
      BY <3>3, <3>4
  <2>4. Rises(mails) /\ LastMail(mails) <= alerted /\ (replayed \/ LastMail(mails) = alerted)
    BY DEF AlertOK
  <2>5. LastMail(mails) <= line.alerted
    <3>1. \A z \in 0 .. 100 : z \in Int
      OBVIOUS
    <3>2. PICK l \in Int, n \in Int : l = LastMail(mails) /\ n = line.alerted
      BY <1>1, <2>3, <3>1, Zenon
    <3>3. QED
      BY <2>1, <2>4, <3>2
  <2>6. AlertOK(mails, line.alerted, (replayed \/ replay) /\ ~line.below)
    BY <1>3, <2>1, <2>4, <2>5 DEF AlertOK
  <2>7. QED
    BY <1>3, <2>2, <2>6
<1>4. CASE ~line.below /\ line.mail = <<line.alerted>> /\ alerted < line.alerted
  <2>1. PICK n \in 0 .. 100 : n = line.alerted
    BY <1>1
  <2>2. PICK q : q = mails \o <<n>>
    OBVIOUS
  <2>3. PICK l \in Nat : l = Len(mails) /\ DOMAIN mails = 1 .. l
    BY LenProperties
  <2>4. /\ q \in Seq(0 .. 100) /\ Len(q) = l + 1 /\ q[l + 1] = n
        /\ \A i \in 1 .. l : q[i] = mails[i]
    BY <2>2, <2>3
  <2>5. DOMAIN q = 1 .. (l + 1) /\ q # <<>>
    BY <2>3, <2>4, LenProperties, EmptySeq
  <2>6. LastMail(q) = n
    BY <2>4, <2>5 DEF LastMail
  <2>7. \A i \in 1 .. l : mails[i] \in Int /\ mails[i] < n
    <3> TAKE i \in 1 .. l
    <3>1. mails # <<>> /\ l \in 1 .. l
      BY <2>3
    <3>2. mails[i] \in 0 .. 100 /\ mails[l] \in 0 .. 100
      BY <2>3, <3>1, ElementOfSeq
    <3>3. mails[l] <= alerted
      BY <2>3, <3>1 DEF AlertOK, LastMail
    <3>4. i < l => mails[i] < mails[l]
      BY <2>3, <3>1 DEF AlertOK, Rises
    <3>5. i = l \/ i < l
      BY <2>3
    <3>6. PICK u \in 0 .. 100, v \in 0 .. 100 : u = mails[i] /\ v = mails[l]
      BY <3>2
    <3>7. u <= v /\ v <= alerted /\ alerted < n
      BY <1>4, <2>1, <3>3, <3>4, <3>5, <3>6
    <3>8. u \in Int /\ u < n
      BY <3>7
    <3>9. QED
      BY <3>6, <3>8
  <2>8. Rises(q)
    <3> SUFFICES ASSUME NEW i \in 1 .. (l + 1), NEW j \in 1 .. (l + 1), i < j
                 PROVE  q[i] < q[j]
      BY <2>5 DEF Rises
    <3>1. i \in 1 .. l /\ (j \in 1 .. l \/ j = l + 1)
      OBVIOUS
    <3>2. CASE j \in 1 .. l
      BY <2>3, <2>4, <3>1, <3>2 DEF AlertOK, Rises
    <3>3. CASE j = l + 1
      BY <2>4, <2>7, <3>1, <3>3
    <3>4. QED
      BY <3>1, <3>2, <3>3
  <2>9. AlertOK(q, n, (replayed \/ replay) /\ ~line.below)
    BY <2>6, <2>8 DEF AlertOK
  <2>10. QED
    BY <1>4, <2>1, <2>2, <2>9
<1>5. QED
  BY <1>2, <1>3, <1>4 DEF Follows

(* One more mail. *)
LEMMA MailAdded ==
    ASSUME NEW mails \in Seq(0 .. 100), NEW n \in 0 .. 100, NEW r
    PROVE  /\ Cardinality(Mailed(mails, r)) \in Nat
           /\ Cardinality(Mailed(mails \o <<n>>, r))
                 = Cardinality(Mailed(mails, r)) + (IF n = r THEN 1 ELSE 0)
<1>1. PICK l \in Nat : l = Len(mails) /\ DOMAIN mails = 1 .. l
  BY LenProperties
<1>2. PICK q : q = mails \o <<n>>
  OBVIOUS
<1>3. /\ q \in Seq(0 .. 100) /\ Len(q) = l + 1 /\ q[l + 1] = n
      /\ \A i \in 1 .. l : q[i] = mails[i]
  BY <1>1, <1>2
<1>4. DOMAIN q = 1 .. (l + 1)
  BY <1>3, LenProperties
<1>5. IsFiniteSet(1 .. l) /\ Mailed(mails, r) \subseteq 1 .. l
  BY <1>1, FS_Interval DEF Mailed
<1>6. IsFiniteSet(Mailed(mails, r)) /\ Cardinality(Mailed(mails, r)) \in Nat
  BY <1>5, FS_Subset, FS_CardinalityType
<1>7. l + 1 \notin 1 .. l /\ 1 .. (l + 1) = (1 .. l) \cup {l + 1}
  OBVIOUS
<1>8. CASE n = r
  <2>1. Mailed(q, r) = Mailed(mails, r) \cup {l + 1} /\ l + 1 \notin Mailed(mails, r)
    BY <1>1, <1>3, <1>4, <1>7, <1>8 DEF Mailed
  <2>2. Cardinality(Mailed(q, r)) = Cardinality(Mailed(mails, r)) + 1
    BY <1>6, <2>1, FS_AddElement
  <2>3. QED
    BY <1>2, <1>6, <1>8, <2>2
<1>9. CASE n # r
  <2>1. Mailed(q, r) = Mailed(mails, r)
    BY <1>1, <1>3, <1>4, <1>7, <1>9 DEF Mailed
  <2>2. QED
    BY <1>2, <1>6, <1>9, <2>1
<1>10. QED
  BY <1>8, <1>9

(* A line may repeat a rung only when something crossed. *)
LEMMA SeldomFollows ==
    ASSUME NEW mails \in Seq(0 .. 100), NEW alerted \in 0 .. 100, NEW crossed \in Nat,
           NEW replay \in BOOLEAN, Seldom(mails, alerted, crossed),
           NEW line \in Lines, ~line.below, NEW again \in Nat,
           \/ again = crossed + 1
           \/ again = crossed /\ Follows(line, alerted, replay)
    PROVE  Seldom(mails \o line.mail, line.alerted, again)
<1>1. PICK n \in 0 .. 100 : n = line.alerted
  BY DEF Lines, LineShapes
<1>2. again = crossed + 1 \/ (again = crossed /\ alerted <= n)
  BY <1>1 DEF Follows
<1>3. ASSUME NEW r \in 1 .. 100
      PROVE  Cardinality(Mailed(mails \o line.mail, r)) <= again + (IF r <= n THEN 1 ELSE 0)
  <2>1. PICK c \in Nat : c = Cardinality(Mailed(mails, r))
    BY <1>1, MailAdded
  <2>2. c <= crossed + (IF r <= alerted THEN 1 ELSE 0)
    BY <2>1 DEF Seldom
  <2>3. CASE line.mail = <<>>
    <3>1. mails \o line.mail = mails
      BY <2>3
    <3>2. c <= again + (IF r <= n THEN 1 ELSE 0)
      BY <1>2, <2>2
    <3>3. QED
      BY <2>1, <3>1, <3>2
  <2>4. CASE line.mail # <<>>
    <3>1. line.mail = <<n>>
      BY <1>1, <2>4 DEF Lines
    <3>2. again = crossed + 1 \/ (again = crossed /\ alerted < n)
      BY <1>1, <1>2, <2>4 DEF Follows
    <3>3. Cardinality(Mailed(mails \o <<n>>, r)) = c + (IF n = r THEN 1 ELSE 0)
      BY <2>1, MailAdded
    <3>4. c + (IF n = r THEN 1 ELSE 0) <= again + (IF r <= n THEN 1 ELSE 0)
      BY <2>2, <3>2
    <3>5. QED
      BY <3>1, <3>3, <3>4
  <2>5. QED
    BY <2>3, <2>4
<1>4. QED
  BY <1>1, <1>3 DEF Seldom

LEMMA NoMails ==
    /\ <<>> \in Seq(0 .. 100) /\ AlertOK(<<>>, 0, FALSE)
    /\ \A alerted \in 0 .. 100, crossed \in Nat : Seldom(<<>>, alerted, crossed)
<1>1. DOMAIN <<>> = {} /\ LastMail(<<>>) = 0 /\ <<>> \in Seq(0 .. 100)
  BY DEF LastMail
<1>2. AlertOK(<<>>, 0, FALSE)
  BY <1>1 DEF AlertOK, Rises
<1>3. \A r : Mailed(<<>>, r) = {}
  BY <1>1 DEF Mailed
<1>4. Cardinality({}) = 0
  BY FS_EmptySet
<1>5. ASSUME NEW alerted \in 0 .. 100, NEW crossed \in Nat
      PROVE  Seldom(<<>>, alerted, crossed)
  <2> SUFFICES ASSUME NEW r \in 1 .. 100
               PROVE  Cardinality(Mailed(<<>>, r)) <= crossed + (IF r <= alerted THEN 1 ELSE 0)
    BY DEF Seldom
  <2>1. Cardinality(Mailed(<<>>, r)) = 0
    BY <1>3, <1>4
  <2>2. QED
    BY <2>1
<1>6. QED
  BY <1>1, <1>2, <1>5

(* What the history records of a committed line. *)
LEMMA HistoryIs ==
    ASSUME UsageInv, NEW w \in Workers, tx[w].busy, NEW k \in DOMAIN tx[w].writes, NEW h,
           h = HistoryOf(w, k)
    PROVE  /\ h \in Histories /\ h.version = tx[w].writes[k].version
           /\ h.stale <=> k \in tx[w].stale
           /\ Seldom(h.mails, tx[w].writes[k].alerted, h.crossed)
           /\ h.crossed = 0 => AlertOK(h.mails, tx[w].writes[k].alerted, h.replayed)
<1>1. PICK q \in Transactions : q = tx[w]
  BY BusyTx DEF UsageInv
<1>2. PICK line \in Lines : line = q.writes[k]
  BY <1>1, TxFields
<1>3. UsageTypeOK /\ LineGood(q, k) /\ q.replay \in BOOLEAN
  BY <1>1, TxFields DEF UsageInv, TxGood
<1>4. PICK old : old = IF k \in DOMAIN history THEN history[k]
                       ELSE [mails |-> <<>>, crossed |-> 0, replayed |-> FALSE]
  OBVIOUS
<1>5. PICK n \in 0 .. 100 : n = LoadUsage(k).alerted
  <2>1. LoadUsage(k) \in Stored
    BY <1>3, StoredIs
  <2>2. QED
    BY <2>1 DEF Stored
<1>6. /\ old.mails \in Seq(0 .. 100) /\ old.crossed \in Nat /\ old.replayed \in BOOLEAN
      /\ Seldom(old.mails, n, old.crossed)
      /\ old.crossed = 0 => AlertOK(old.mails, n, old.replayed)
  <2>1. CASE k \in DOMAIN history
    <3>1. k \in DOMAIN usage /\ history[k] \in Histories /\ old = history[k]
      BY <1>3, <1>4, <2>1, PartialIs DEF UsageTypeOK
    <3>2. AlertGood(k) /\ n = usage[k].alerted
      BY <1>5, <3>1 DEF UsageInv, LoadUsage
    <3>3. QED
      BY <3>1, <3>2 DEF Histories, AlertGood
  <2>2. CASE k \notin DOMAIN history
    <3>1. k \notin DOMAIN usage
      BY <1>3, <2>2 DEF UsageTypeOK
    <3>2. n = 0
      BY <1>5, <3>1 DEF LoadUsage, NoUsage
    <3>3. old = [mails |-> <<>>, crossed |-> 0, replayed |-> FALSE]
      BY <1>4, <2>2
    <3>4. old.mails = <<>> /\ old.crossed = 0 /\ old.replayed = FALSE
      BY <3>3
    <3>5. 0 \in Nat /\ 0 \in 0 .. 100
      OBVIOUS
    <3>6. QED
      BY <3>2, <3>4, <3>5, NoMails, Zenon
  <2>3. QED
    BY <2>1, <2>2
<1>7. PICK om \in Seq(0 .. 100), oc \in Nat, or \in BOOLEAN :
         om = old.mails /\ oc = old.crossed /\ or = old.replayed
  BY <1>6
<1>8. Seldom(om, n, oc) /\ (oc = 0 => AlertOK(om, n, or))
  BY <1>6, <1>7
<1> DEFINE mails    == IF line.below THEN <<>> ELSE om \o line.mail
           replayed == (or \/ q.replay) /\ ~line.below
           crossed  == IF line.below THEN 0 ELSE oc + (IF k \in q.stale THEN 1 ELSE 0)
           stale    == k \in q.stale
<1>9. h = [version |-> line.version, stale |-> stale, crossed |-> crossed, replayed |-> replayed,
           mails |-> mails]
  BY <1>1, <1>2, <1>4, <1>7 DEF HistoryOf
<1>10. line.mail \in Seq(0 .. 100) /\ line.version \in Nat /\ line.alerted \in 0 .. 100
       /\ line.below \in BOOLEAN /\ (line.below => line.alerted = 0)
  BY DEF Lines, LineShapes
<1>11. mails \in Seq(0 .. 100)
  <2>1. <<>> \in Seq(0 .. 100) /\ om \o line.mail \in Seq(0 .. 100)
    BY <1>10
  <2>2. QED
    BY <2>1
<1>12. stale \in BOOLEAN /\ crossed \in Nat /\ replayed \in BOOLEAN
  OBVIOUS
<1>13. ~stale => Follows(line, n, q.replay)
  BY <1>2, <1>3, <1>5 DEF LineGood
<1>14. Seldom(mails, line.alerted, crossed) /\ (crossed = 0 => AlertOK(mails, line.alerted, replayed))
  <2>1. CASE line.below
    <3>1. mails = <<>> /\ crossed = 0 /\ line.alerted = 0 /\ replayed = FALSE
      BY <1>10, <2>1
    <3>2. 0 \in Nat /\ 0 \in 0 .. 100
      OBVIOUS
    <3> HIDE DEF mails, replayed, crossed
    <3>3. QED
      BY <3>1, <3>2, NoMails, Zenon
  <2>2. CASE ~line.below
    <3>1. mails = om \o line.mail
      BY <2>2
    <3>2. crossed = oc + 1 \/ (crossed = oc /\ ~stale)
      BY <2>2
    <3>3. Seldom(om \o line.mail, line.alerted, crossed)
      <4>1. PICK again \in Nat : again = crossed
        BY <1>12
      <4>2. again = oc + 1 \/ (again = oc /\ Follows(line, n, q.replay))
        BY <1>13, <3>2, <4>1
      <4>3. Seldom(om \o line.mail, line.alerted, again)
        BY <1>3, <1>8, <2>2, <4>2, SeldomFollows, ZenonT(60)
      <4>4. QED
        BY <4>1, <4>3
    <3>4. ASSUME crossed = 0
          PROVE  AlertOK(mails, line.alerted, replayed)
      <4>1. oc = 0 /\ ~stale
        BY <3>2, <3>4
      <4>2. AlertOK(om, n, or) /\ Follows(line, n, q.replay)
        BY <1>8, <1>13, <4>1
      <4>3. AlertOK(IF line.below THEN <<>> ELSE om \o line.mail, line.alerted,
                    (or \/ q.replay) /\ ~line.below)
        BY <1>3, <4>2, AlertFollows, ZenonT(60)
      <4>4. QED
        BY <4>3
    <3>5. QED
      BY <3>1, <3>3, <3>4
  <2>3. QED
    BY <2>1, <2>2
<1> HIDE DEF mails, replayed, crossed, stale
<1>15. h \in Histories
  <2>1. \A u \in Seq(0 .. 100), v \in Nat, y \in Nat, x, z \in BOOLEAN :
           [version |-> v, stale |-> x, crossed |-> y, replayed |-> z, mails |-> u] \in Histories
    BY Zenon DEF Histories
  <2>2. QED
    BY <1>9, <1>10, <1>11, <1>12, <2>1, Zenon
<1>16. h.version = line.version /\ h.stale = stale /\ h.crossed = crossed /\ h.replayed = replayed
       /\ h.mails = mails
  BY <1>9
<1>17. h.stale <=> k \in tx[w].stale
  BY <1>1, <1>16 DEF stale
<1>18. QED
  BY <1>1, <1>2, <1>14, <1>15, <1>16, <1>17

(* A commit publishes the lines and the contribution of its transaction. *)
LEMMA CommitHolds ==
    ASSUME FeedOK, UsageInv, NEW w \in Workers, Commit(w)
    PROVE  UsageInv' /\ FeedOK'
<1>1. PICK q \in Transactions : q = tx[w]
  BY BusyTx DEF UsageInv, Commit
<1>2. PICK mine, moved : mine = DOMAIN q.writes /\ moved = Moved(w)
  OBVIOUS
<1>3. PICK m \in [Expenses -> Rows] : m = Seen(w)
  BY SeenType DEF UsageInv, Commit
<1>4. /\ tx[w].busy /\ mirror' = m
      /\ usage' = [k \in DOMAIN usage \cup mine |->
                      IF k \in mine THEN [spent |-> q.writes[k].spent, alerted |-> q.writes[k].alerted]
                      ELSE usage[k]]
      /\ history' = [k \in DOMAIN usage \cup mine |->
                      IF k \in mine THEN HistoryOf(w, k)
                      ELSE IF k \in moved THEN [history[k] EXCEPT !.stale = TRUE]
                      ELSE history[k]]
      /\ tx' = [v \in Workers |->
                  IF v = w THEN Idle
                  ELSE IF tx[v].busy
                  THEN [tx[v] EXCEPT !.stale = @ \cup (Written(v) \cap (mine \cup moved))]
                  ELSE tx[v]]
      /\ Advance("budget_usage", q.aggregate)
      /\ UNCHANGED <<today, commands, events, budgets>>
  BY <1>1, <1>2, <1>3 DEF Commit
<1>5. TxGood(q) /\ UsageTypeOK /\ q.aggregate \in Aggregates
  BY <1>1, <1>4, TxFields DEF UsageInv
<1>6. FeedOK' /\ Grown
  BY <1>4, <1>5, AdvanceHolds, NothingGrows DEF Subscriptions
<1>7. SeenBy(q) = m
  BY <1>1, <1>3 DEF Seen, SeenBy
<1>8. mine \subseteq WindowKeys /\ DOMAIN usage \subseteq WindowKeys /\ DOMAIN history = DOMAIN usage
  BY <1>2, <1>5, TxFields, PartialIs DEF UsageTypeOK
<1>9. DOMAIN usage' = DOMAIN usage \cup mine /\ DOMAIN history' = DOMAIN usage \cup mine
  BY <1>4
<1>10. \A k \in mine : /\ usage'[k] = [spent |-> q.writes[k].spent, alerted |-> q.writes[k].alerted]
                       /\ history'[k] = HistoryOf(w, k)
  BY <1>4
<1>11. \A k \in DOMAIN usage \ mine :
          /\ usage'[k] = usage[k]
          /\ history'[k] = IF k \in moved THEN [history[k] EXCEPT !.stale = TRUE]
                           ELSE history[k]
  BY <1>4
<1>12. RowsSame(mine \cup moved)
  <2> SUFFICES ASSUME NEW k \in WindowKeys \ (mine \cup moved)
               PROVE  LoadUsage(k)' = LoadUsage(k)
    BY DEF RowsSame
  <2>1. k \in DOMAIN usage' <=> k \in DOMAIN usage
    BY <1>9
  <2>2. QED
    BY <1>11, <2>1 DEF LoadUsage
<1>13. ASSUME NEW k \in WindowKeys \ moved, HasWindow(k)
       PROVE  /\ SameSum(m, mirror, k)
              /\ \A a \in Expenses, r \in Rows :
                    a # q.aggregate => SameSum([m EXCEPT ![a] = r], [mirror EXCEPT ![a] = r], k)
  <2>1. k \in WindowKeys /\ k \notin Moved(w) /\ TxGood(tx[w])
    BY <1>1, <1>2, <1>5, <1>13
  <2>2. /\ SameSum(m, mirror, k)
        /\ \A a \in Expenses, r \in Rows :
              a # tx[w].aggregate => SameSum([m EXCEPT ![a] = r], [mirror EXCEPT ![a] = r], k)
    BY <1>3, <1>4, <1>5, <1>13, <2>1, SumsKept
  <2>3. QED
    BY <1>1, <2>2
<1>14. ASSUME NEW v \in Workers \ {w}, tx[v].busy
       PROVE  SumsSame(IF tx[v].own.found THEN [m EXCEPT ![tx[v].aggregate] = tx[v].own] ELSE m,
                       SeenBy(tx[v]), mine \cup moved)
  <2>1. PICK u \in Transactions : u = tx[v]
    BY <1>5, <1>14, BusyTx
  <2>2. (u.own.found => u.aggregate \in Expenses) /\ u.own \in Rows /\ u.aggregate # q.aggregate
    BY <1>1, <1>4, <1>5, <1>14, <2>1, TxFields, OthersElsewhere DEF UsageInv, TxGood
  <2>3. CASE u.own.found
    <3>1. SumsSame([m EXCEPT ![u.aggregate] = u.own], [mirror EXCEPT ![u.aggregate] = u.own],
                   mine \cup moved)
      BY <1>13, <2>2, <2>3 DEF SumsSame
    <3>2. QED
      BY <2>1, <2>3, <3>1 DEF SeenBy
  <2>4. CASE ~u.own.found
    <3>1. SumsSame(m, mirror, mine \cup moved)
      BY <1>13 DEF SumsSame
    <3>2. QED
      BY <2>1, <2>4, <3>1 DEF SeenBy
  <2>5. QED
    BY <2>3, <2>4
<1>15. /\ tx' \in [Workers -> {Idle} \cup Transactions]
       /\ \A u, v \in Workers :
             tx'[u].busy /\ tx'[v].busy /\ tx'[u].aggregate = tx'[v].aggregate => u = v
       /\ \A v \in Workers : tx'[v].busy => TxGood(tx[v])'
  <2>1. PICK touched : touched = mine \cup moved
    OBVIOUS
  <2>2. tx' = [v \in Workers |->
                 IF v = w THEN Idle
                 ELSE IF tx[v].busy
                 THEN [tx[v] EXCEPT !.stale = @ \cup (Written(v) \cap touched)]
                 ELSE tx[v]]
    BY <1>4, <2>1
  <2>3. RowsSame(touched)
    BY <1>12, <2>1
  <2>4. \A v \in Workers \ {w} : tx[v].busy =>
           SumsSame(IF tx[v].own.found THEN [m EXCEPT ![tx[v].aggregate] = tx[v].own] ELSE m,
                    SeenBy(tx[v]), touched)
    BY <1>14, <2>1
  <2>5. QED
    BY <1>4, <1>6, <2>2, <2>3, <2>4, OthersKept
<1>16. ASSUME NEW k \in mine
       PROVE  /\ usage'[k] \in Stored /\ usage'[k].spent = q.writes[k].spent
              /\ usage'[k].alerted = q.writes[k].alerted
              /\ history'[k] \in Histories /\ history'[k].version = q.writes[k].version
              /\ history'[k].stale <=> k \in q.stale
              /\ AlertGood(k)'
  <2>1. PICK h : h = HistoryOf(w, k)
    OBVIOUS
  <2>2. /\ h \in Histories /\ h.version = q.writes[k].version /\ (h.stale <=> k \in q.stale)
        /\ Seldom(h.mails, q.writes[k].alerted, h.crossed)
        /\ h.crossed = 0 => AlertOK(h.mails, q.writes[k].alerted, h.replayed)
    BY <1>1, <1>2, <1>4, <1>16, <2>1, HistoryIs
  <2>3. q.writes[k] \in Lines
    BY <1>2, <1>16, TxFields
  <2>4. q.writes[k].spent \in Int /\ q.writes[k].alerted \in 0 .. 100
    BY <2>3 DEF Lines, LineShapes
  <2>5. usage'[k] = [spent |-> q.writes[k].spent, alerted |-> q.writes[k].alerted] /\ history'[k] = h
    BY <1>10, <1>16, <2>1
  <2>6. AlertGood(k)'
    BY <2>2, <2>5 DEF AlertGood
  <2>7. QED
    BY <2>2, <2>4, <2>5, <2>6 DEF Stored
<1>17. ASSUME NEW k \in DOMAIN usage \ mine
       PROVE  /\ usage'[k] \in Stored /\ usage'[k] = usage[k]
              /\ history'[k] \in Histories /\ history'[k].version = history[k].version
              /\ history'[k].mails = history[k].mails /\ history'[k].replayed = history[k].replayed
              /\ history'[k].crossed = history[k].crossed
              /\ ~history'[k].stale => ~history[k].stale /\ k \notin moved
  <2>1. usage[k] \in Stored /\ history[k] \in Histories
    BY <1>5, <1>8, <1>17, PartialIs DEF UsageTypeOK
  <2>2. PICK h : h = [history[k] EXCEPT !.stale = TRUE]
    OBVIOUS
  <2>3. /\ h \in Histories /\ h.stale = TRUE /\ h.crossed = history[k].crossed
        /\ h.version = history[k].version
        /\ h.mails = history[k].mails /\ h.replayed = history[k].replayed
    BY <2>1, <2>2 DEF Histories
  <2>4. QED
    BY <1>11, <1>17, <2>1, <2>2, <2>3
<1>18. UsageTypeOK'
  <2>1. usage' \in Partial(WindowKeys, Stored)
    <3>1. \A k \in DOMAIN usage' : usage'[k] \in Stored
      BY <1>9, <1>16, <1>17
    <3>2. usage' = [k \in DOMAIN usage' |-> usage'[k]]
      BY <1>4
    <3>3. QED
      BY <1>8, <1>9, <3>1, <3>2, PartialIs
  <2>2. history' \in Partial(WindowKeys, Histories)
    <3>1. \A k \in DOMAIN history' : history'[k] \in Histories
      BY <1>9, <1>16, <1>17
    <3>2. history' = [k \in DOMAIN history' |-> history'[k]]
      BY <1>4
    <3>3. QED
      BY <1>8, <1>9, <3>1, <3>2, PartialIs
  <2>3. QED
    BY <1>3, <1>4, <1>9, <1>15, <2>1, <2>2 DEF UsageTypeOK
<1>19. ASSUME NEW k \in DOMAIN usage'
       PROVE  RowGood(k)'
  <2>1. k \in WindowKeys
    BY <1>8, <1>9, <1>19
  <2>2. PICK v, s : v = history'[k].version /\ s = usage'[k].spent
    OBVIOUS
  <2>3. CASE k \in mine
    <3>1. v = q.writes[k].version /\ s = q.writes[k].spent /\ (history'[k].stale <=> k \in q.stale)
      BY <1>16, <2>2, <2>3
    <3>2. v \in Nat /\ Dated(k, v) /\ (k \notin q.stale => Tells(m, k, v, s))
      BY <1>2, <1>5, <1>7, <2>3, <3>1, TxFields DEF TxGood, LineGood
    <3>3. Dated(k, v)' /\ (k \notin q.stale => Tells(m, k, v, s)')
      BY <1>6, <2>1, <3>2, DatedKept
    <3>4. QED
      BY <1>4, <2>2, <3>1, <3>3 DEF RowGood
  <2>4. CASE k \notin mine
    <3>1. k \in DOMAIN usage \ mine
      BY <1>9, <1>19, <2>4
    <3>2. v = history[k].version /\ s = usage[k].spent /\ history'[k] \in Histories
          /\ (~history'[k].stale => ~history[k].stale /\ k \notin moved)
      BY <1>17, <2>2, <3>1
    <3>3. v \in Nat
      BY <2>2, <3>2 DEF Histories
    <3>4. Dated(k, v) /\ (~history[k].stale => Tells(mirror, k, v, s))
      BY <3>1, <3>2 DEF UsageInv, RowGood
    <3>5. ~history'[k].stale => Tells(m, k, v, s)
      <4> HAVE ~history'[k].stale
      <4>1. k \in WindowKeys \ moved /\ Tells(mirror, k, v, s)
        BY <2>1, <3>2, <3>4
      <4>2. Fresh(k, v) => HasWindow(k)
        BY <3>4 DEF Dated, Fresh, HasWindow
      <4>3. Fresh(k, v) => SameSum(m, mirror, k)
        BY <1>13, <4>1, <4>2
      <4>4. QED
        BY <4>1, <4>3 DEF Tells, SameSum
    <3>6. Dated(k, v)' /\ (~history'[k].stale => Tells(m, k, v, s)')
      BY <1>6, <2>1, <3>3, <3>4, <3>5, DatedKept
    <3>7. QED
      BY <1>4, <2>2, <3>6 DEF RowGood
  <2>5. QED
    BY <2>3, <2>4
<1>20. ASSUME NEW k \in DOMAIN usage'
       PROVE  AlertGood(k)'
  <2>1. CASE k \in mine
    BY <1>16, <2>1
  <2>2. CASE k \notin mine
    <3>1. k \in DOMAIN usage \ mine
      BY <1>9, <1>20, <2>2
    <3>2. AlertGood(k)
      BY <3>1 DEF UsageInv
    <3>3. QED
      BY <1>17, <3>1, <3>2 DEF AlertGood
  <2>3. QED
    BY <2>1, <2>2
<1>21. UsageInv'
  BY <1>15, <1>18, <1>19, <1>20 DEF UsageInv
<1>22. QED
  BY <1>6, <1>21

(* A removed budget's rows are deleted. *)
LEMMA DeleteUsageHolds ==
    ASSUME FeedOK, UsageInv, NEW w \in Workers, DeleteUsage(w)
    PROVE  UsageInv' /\ FeedOK'
<1>1. PICK q \in Transactions : q = tx[w]
  BY BusyTx DEF UsageInv, DeleteUsage
<1>2. PICK kept : kept = {k \in DOMAIN usage : k.budget # q.aggregate}
  OBVIOUS
<1>3. PICK gone : gone = DOMAIN usage \ kept
  OBVIOUS
<1>4. /\ tx[w].busy /\ usage' = [k \in kept |-> usage[k]] /\ history' = [k \in kept |-> history[k]]
      /\ tx' = [v \in Workers |->
                  IF v = w THEN Idle
                  ELSE IF tx[v].busy
                  THEN [tx[v] EXCEPT !.stale = @ \cup (Written(v) \cap gone)]
                  ELSE tx[v]]
      /\ Advance("budget_usage", q.aggregate)
      /\ UNCHANGED <<today, commands, events, budgets, mirror>>
  BY <1>1, <1>2, <1>3 DEF DeleteUsage
<1>5. UsageTypeOK /\ q.aggregate \in Aggregates
  BY TxFields DEF UsageInv
<1>6. FeedOK' /\ Grown
  BY <1>4, <1>5, AdvanceHolds, NothingGrows DEF Subscriptions
<1>7. kept \subseteq DOMAIN usage /\ DOMAIN usage \subseteq WindowKeys /\ DOMAIN history = DOMAIN usage
  BY <1>2, <1>5, PartialIs DEF UsageTypeOK
<1>8. /\ DOMAIN usage' = kept /\ DOMAIN history' = kept
      /\ \A k \in kept : usage'[k] = usage[k] /\ history'[k] = history[k]
  BY <1>4
<1>9. RowsSame(gone)
  <2> SUFFICES ASSUME NEW k \in WindowKeys \ gone
               PROVE  LoadUsage(k)' = LoadUsage(k)
    BY DEF RowsSame
  <2>1. k \in DOMAIN usage' <=> k \in DOMAIN usage
    BY <1>3, <1>7, <1>8
  <2>2. QED
    BY <1>8, <2>1 DEF LoadUsage
<1>10. PICK m : m = mirror
  OBVIOUS
<1>11. \A v \in Workers \ {w} : tx[v].busy =>
          SumsSame(IF tx[v].own.found THEN [m EXCEPT ![tx[v].aggregate] = tx[v].own] ELSE m,
                   SeenBy(tx[v]), gone)
  BY <1>10 DEF SeenBy, SumsSame, SameSum
<1>12. /\ tx' \in [Workers -> {Idle} \cup Transactions]
       /\ \A u, v \in Workers :
             tx'[u].busy /\ tx'[v].busy /\ tx'[u].aggregate = tx'[v].aggregate => u = v
       /\ \A v \in Workers : tx'[v].busy => TxGood(tx[v])'
  BY <1>4, <1>6, <1>9, <1>10, <1>11, OthersKept
<1>13. UsageTypeOK'
  <2>1. \A k \in kept : usage[k] \in Stored /\ history[k] \in Histories
    BY <1>5, <1>7, PartialIs DEF UsageTypeOK
  <2>2. usage' \in Partial(WindowKeys, Stored)
    <3>1. usage' = [k \in DOMAIN usage' |-> usage'[k]]
      BY <1>4
    <3>2. QED
      BY <1>7, <1>8, <2>1, <3>1, PartialIs
  <2>3. history' \in Partial(WindowKeys, Histories)
    <3>1. history' = [k \in DOMAIN history' |-> history'[k]]
      BY <1>4
    <3>2. QED
      BY <1>7, <1>8, <2>1, <3>1, PartialIs
  <2>4. QED
    BY <1>4, <1>5, <1>8, <1>12, <2>2, <2>3 DEF UsageTypeOK
<1>14. ASSUME NEW k \in DOMAIN usage'
       PROVE  RowGood(k)'
  <2>1. k \in kept /\ k \in DOMAIN usage /\ k \in WindowKeys /\ history[k] \in Histories
    BY <1>5, <1>7, <1>8, <1>14, PartialIs DEF UsageTypeOK
  <2>2. PICK v, s : v = history[k].version /\ s = usage[k].spent /\ v \in Nat
    BY <2>1 DEF Histories
  <2>3. Dated(k, v) /\ (~history[k].stale => Tells(m, k, v, s))
    BY <1>10, <2>1, <2>2 DEF UsageInv, RowGood
  <2>4. Dated(k, v)' /\ (~history[k].stale => Tells(m, k, v, s)')
    BY <1>6, <2>1, <2>2, <2>3, DatedKept
  <2>5. history'[k].version = v /\ usage'[k].spent = s /\ history'[k].stale = history[k].stale
        /\ mirror' = m
    BY <1>4, <1>8, <1>10, <2>1, <2>2
  <2>6. QED
    BY <2>4, <2>5 DEF RowGood
<1>15. \A k \in DOMAIN usage' : AlertGood(k)'
  BY <1>7, <1>8 DEF UsageInv, AlertGood
<1>16. UsageInv'
  BY <1>12, <1>13, <1>14, <1>15 DEF UsageInv
<1>17. QED
  BY <1>6, <1>16

-----------------------------------------------------------------------------
(* The invariant of the projections. *)

ProjectionsInv == FeedOK /\ RecordsOK /\ RollupsOK /\ EntriesOK /\ UsageInv

(* At the start every sum is zero. *)
LEMMA SumOfZeros ==
    ASSUME NEW S, IsFiniteSet(S), NEW f, DOMAIN f = S, \A x \in S : f[x] = 0
    PROVE  Sum(f) = 0
<1>1. PICK g : Sums(g, f, S) /\ Sum(f) = g[S]
  BY SumHolds
<1> DEFINE B == {s \in SUBSET S : g[s] # 0}
<1> SUFFICES ASSUME B # {} PROVE FALSE
  BY <1>1
<1>2. B \subseteq SUBSET S
  OBVIOUS
<1>3. PICK s \in B : \A V \in B : V \subseteq s => V = s
  <2> HIDE DEF B
  <2>1. QED
    BY <1>2, SmallestSet
<1>4. s \in SUBSET S /\ g[s] # 0
  OBVIOUS
<1>5. g[s] = (IF s = {} THEN 0 ELSE f[One(s)] + g[s \ {One(s)}])
  <2>1. s \in SUBSET S
    BY <1>4
  <2> HIDE DEF B
  <2>2. QED
    BY <1>1, <2>1, SumsStep
<1>6. s # {}
  BY <1>4, <1>5
<1>7. One(s) \in s
  BY <1>6, OneIn
<1>8. s \ {One(s)} \in SUBSET S /\ s \ {One(s)} \subseteq s /\ s \ {One(s)} # s
  BY <1>4, <1>7
<1>9. g[s \ {One(s)}] = 0
  BY <1>3, <1>8
<1>10. f[One(s)] = 0
  BY <1>4, <1>7
<1>11. QED
  BY <1>4, <1>5, <1>6, <1>9, <1>10

(* The invariant holds at the start, and every step keeps it. *)
LEMMA ProjectionsStart == Init => ProjectionsInv
<1> SUFFICES ASSUME Init
             PROVE  ProjectionsInv
  OBVIOUS
<1>1. FeedOK
  <2>1. PICK s \in Scenarios : commands = s.commands /\ today = s.today
    BY DEF Init
  <2>2. today \in Int /\ commands \subseteq AllCommands
    BY <2>1, ProjectionsAssumption DEF AllCommands
  <2>3. events = [a \in Aggregates |-> <<>>] /\ budgets = [b \in Budgets |-> NoRow]
        /\ delivered = [s2 \in Subscriptions |-> [a \in Aggregates |-> 0]]
    BY DEF Init
  <2>4. events \in [Aggregates -> Seq(Posted)] /\ \A a \in Aggregates : Len(events[a]) = 0
    BY <2>3
  <2>5. delivered \in [Subscriptions -> [Aggregates -> Nat]]
        /\ \A s2 \in Subscriptions, a \in Aggregates : delivered[s2][a] = 0
    BY <2>3
  <2>6. budgets \in [Budgets -> {NoRow} \cup [found : {TRUE}, body : Limits]]
    BY <2>3
  <2>7. \A x \in Expenses : Len(events[x]) = 0
    BY <2>4 DEF Aggregates
  <2>8. \A x \in Expenses : \A n \in 1 .. Len(events[x]) :
           events[x][n].type # "removed" => events[x][n].body \in Bills
    BY <2>7
  <2>9. \A s2 \in {"analytics", "audit"}, a \in Aggregates : delivered[s2][a] <= Len(events[a])
    BY <2>4, <2>5 DEF Subscriptions
  <2>10. QED
    BY <2>2, <2>4, <2>5, <2>6, <2>8, <2>9 DEF FeedOK
<1>2. RecordsOK
  <2>1. contributions = [x \in Expenses |-> NoRow] /\ NoRow \in Rows /\ ~NoRow.found
    BY DEF Init, Rows, NoRow
  <2>2. \A x \in Expenses : delivered["analytics"][x] = 0
    BY DEF Init, Aggregates, Subscriptions
  <2>3. \A x \in Expenses : ~Active(contributions, x) /\ x \notin Counted("analytics")
    BY <2>1, <2>2 DEF Active, Counted
  <2>4. QED
    BY <2>1, <2>3 DEF RecordsOK
<1>3. RollupsOK
  <2> SUFFICES ASSUME NEW k
               PROVE  /\ AmountIn(rollups, k) = AmountOf(contributions, k)
                      /\ CountIn(rollups, k) = CountOf(contributions, k)
    BY DEF RollupsOK, Balanced
  <2>1. AmountIn(rollups, k) = 0 /\ CountIn(rollups, k) = 0
    BY DEF Init, AmountIn, CountIn
  <2>2. Inside(contributions, k) = {}
    BY DEF Init, Inside, Active, NoRow
  <2>3. AmountOf(contributions, k) = 0 /\ CountOf(contributions, k) = 0
    BY <2>2, SumOfNone DEF AmountOf, CountOf
  <2>4. QED
    BY <2>1, <2>3
<1>4. EntriesOK
  <2>1. entries = <<>> /\ delivered["audit"] = [a \in Aggregates |-> 0]
    BY DEF Init, Subscriptions
  <2>2. entries \in Seq(EntrySet) /\ Len(entries) = 0
    BY <2>1
  <2>3. Sum(delivered["audit"]) = 0
    BY <2>1, AggregatesFinite, SumOfZeros
  <2>4. QED
    BY <2>1, <2>2, <2>3 DEF EntriesOK
<1>5. UsageInv
  <2>1. /\ mirror = [x \in Expenses |-> NoRow] /\ usage = <<>> /\ history = <<>>
        /\ tx = [w \in Workers |-> Idle] /\ DOMAIN <<>> = {}
    BY DEF Init
  <2>2. <<>> \in Partial(WindowKeys, Stored) /\ <<>> \in Partial(WindowKeys, Histories)
    <3>1. \A T : <<>> \in [{} -> T]
      BY <2>1
    <3>2. {} \in SUBSET WindowKeys
      OBVIOUS
    <3>3. QED
      BY <3>1, <3>2 DEF Partial
  <2>3. \A w \in Workers : ~tx[w].busy
    BY <2>1, NotBusy
  <2>4. UsageTypeOK
    BY <2>1, <2>2, <2>3 DEF UsageTypeOK, Rows
  <2>5. QED
    BY <2>1, <2>3, <2>4 DEF UsageInv
<1>6. QED
  BY <1>1, <1>2, <1>3, <1>4, <1>5 DEF ProjectionsInv

(* Steps that touch neither analytics nor audit. *)
LEMMA LedgersKept ==
    ASSUME ProjectionsInv, Grown, UNCHANGED <<contributions, rollups, entries>>,
           delivered'["analytics"] = delivered["analytics"], delivered'["audit"] = delivered["audit"]
    PROVE  RecordsOK' /\ RollupsOK' /\ EntriesOK'
<1>1. RecordsOK'
  BY RecordsKept DEF ProjectionsInv
<1>2. RollupsOK'
  BY DEF ProjectionsInv, RollupsOK
<1>3. EntriesOK'
  BY EntriesKept DEF ProjectionsInv
<1>4. QED
  BY <1>1, <1>2, <1>3

(* The steps of the three subscriptions. *)
LEMMA AnalyticsStep ==
    ASSUME ProjectionsInv, NEW x \in Expenses, DeliverAnalytics(x) \/ RedeliverAnalytics(x)
    PROVE  ProjectionsInv'
<1>1. FeedOK /\ RecordsOK /\ RollupsOK /\ EntriesOK /\ UsageInv
  BY DEF ProjectionsInv
<1>2. UNCHANGED <<today, commands, events, budgets, mirror, usage, entries, tx, history>>
  BY DEF DeliverAnalytics, RedeliverAnalytics
<1>3. Grown /\ x \in Aggregates
  BY <1>1, <1>2, NothingGrows DEF Aggregates
<1>4. /\ delivered["analytics"][x] \in Nat /\ delivered["analytics"][x] <= Len(events[x])
      /\ Len(events[x]) \in Nat
  BY <1>1, <1>3, LenProperties DEF FeedOK, Subscriptions
<1>5. CASE DeliverAnalytics(x)
  <2>1. /\ delivered["analytics"][x] < Len(events[x]) /\ Advance("analytics", x)
        /\ AnalyticsHandle(x, events[x][delivered["analytics"][x] + 1])
    BY <1>5 DEF DeliverAnalytics, HasNext, NextEvent
  <2>2. /\ FeedOK' /\ delivered'["analytics"][x] = delivered["analytics"][x] + 1
        /\ \A d \in Aggregates \ {x} : delivered'["analytics"][d] = delivered["analytics"][d]
        /\ \A q \in Subscriptions \ {"analytics"} : delivered'[q] = delivered[q]
    BY <1>1, <1>2, <1>3, <2>1, AdvanceHolds DEF Subscriptions
  <2>3. PICK n \in 1 .. Len(events[x]) : n = delivered["analytics"][x] + 1
    BY <1>4, <2>1
  <2>4. AnalyticsHandle(x, events[x][n]) /\ delivered'["analytics"][x] = n
        /\ \A y \in Expenses \ {x} : delivered'["analytics"][y] = delivered["analytics"][y]
    BY <2>1, <2>2, <2>3 DEF Aggregates
  <2>5. RecordsOK' /\ RollupsOK'
    BY <1>1, <1>2, <2>4, AnalyticsHolds
  <2>6. EntriesOK'
    BY <1>1, <1>2, <2>2, EntriesKept DEF Subscriptions
  <2>7. UsageInv'
    BY <1>1, <1>2, <1>3, <2>2, UsageKept
  <2>8. QED
    BY <2>2, <2>5, <2>6, <2>7 DEF ProjectionsInv
<1>6. CASE RedeliverAnalytics(x)
  <2>1. /\ delivered["analytics"][x] > 0 /\ UNCHANGED delivered
        /\ AnalyticsHandle(x, events[x][delivered["analytics"][x]])
    BY <1>6 DEF RedeliverAnalytics
  <2>2. FeedOK'
    BY <1>1, <1>2, <2>1 DEF FeedOK
  <2>3. PICK n \in 1 .. Len(events[x]) : n = delivered["analytics"][x]
    BY <1>4, <2>1
  <2>4. AnalyticsHandle(x, events[x][n]) /\ delivered'["analytics"][x] = n
        /\ \A y \in Expenses \ {x} : delivered'["analytics"][y] = delivered["analytics"][y]
    BY <2>1, <2>3
  <2>5. RecordsOK' /\ RollupsOK'
    BY <1>1, <1>2, <2>4, AnalyticsHolds
  <2>6. EntriesOK'
    BY <1>1, <1>2, <2>1, EntriesKept
  <2>7. UsageInv'
    BY <1>1, <1>2, <1>3, <2>2, UsageKept
  <2>8. QED
    BY <2>2, <2>5, <2>6, <2>7 DEF ProjectionsInv
<1>7. QED
  BY <1>5, <1>6

LEMMA AuditStep ==
    ASSUME ProjectionsInv, NEW a \in Aggregates, DeliverAudit(a) \/ RedeliverAudit(a)
    PROVE  ProjectionsInv'
<1>1. FeedOK /\ RecordsOK /\ RollupsOK /\ EntriesOK /\ UsageInv
  BY DEF ProjectionsInv
<1>2. UNCHANGED <<today, commands, events, budgets, contributions, rollups, mirror, usage, tx, history>>
  BY DEF DeliverAudit, RedeliverAudit
<1>3. FeedOK' /\ EntriesOK'
  <2>1. CASE DeliverAudit(a)
    BY <1>1, <2>1, DeliverAuditHolds
  <2>2. CASE RedeliverAudit(a)
    <3>1. EntriesOK' /\ UNCHANGED delivered
      BY <1>1, <2>2, RedeliverAuditHolds DEF RedeliverAudit
    <3>2. QED
      BY <1>1, <1>2, <3>1 DEF FeedOK
  <2>3. QED
    BY <2>1, <2>2
<1>4. delivered'["analytics"] = delivered["analytics"]
  <2>1. CASE DeliverAudit(a)
    <3>1. Advance("audit", a)
      BY <2>1 DEF DeliverAudit
    <3>2. QED
      BY <1>1, <3>1 DEF Advance, FeedOK
  <2>2. CASE RedeliverAudit(a)
    BY <2>2 DEF RedeliverAudit
  <2>3. QED
    BY <2>1, <2>2
<1>5. Grown
  BY <1>1, <1>2, NothingGrows
<1>6. RecordsOK'
  BY <1>1, <1>2, <1>4, <1>5, RecordsKept
<1>7. RollupsOK'
  BY <1>1, <1>2 DEF RollupsOK
<1>8. UsageInv'
  BY <1>1, <1>2, <1>3, <1>5, UsageKept
<1>9. QED
  BY <1>3, <1>6, <1>7, <1>8 DEF ProjectionsInv

LEMMA UsageStep ==
    ASSUME ProjectionsInv, NEW w \in Workers,
           \/ \E x \in Expenses : BeginExpense(w, x)
           \/ \E b \in Budgets : BeginBudget(w, b)
           \/ ReadSum(w) \/ ReadUsage(w) \/ SaveUsage(w) \/ Commit(w) \/ DeleteUsage(w)
           \/ DeadlockVictim(w) \/ Abort(w)
    PROVE  ProjectionsInv'
<1>1. FeedOK /\ UsageInv
  BY DEF ProjectionsInv
<1>2. UNCHANGED <<events, budgets, contributions, rollups, entries>>
  BY DEF BeginExpense, BeginBudget, ReadSum, ReadUsage, SaveUsage, Commit, DeleteUsage, DeadlockVictim,
         Abort, readModels
<1>3. Grown
  BY <1>1, <1>2, NothingGrows
<1>4. UNCHANGED delivered \/ Advance("budget_usage", tx[w].aggregate)
  BY DEF BeginExpense, BeginBudget, ReadSum, ReadUsage, SaveUsage, Commit, DeleteUsage, DeadlockVictim,
         Abort
<1>5. delivered'["analytics"] = delivered["analytics"] /\ delivered'["audit"] = delivered["audit"]
  <2>1. CASE UNCHANGED delivered
    BY <2>1
  <2>2. CASE Advance("budget_usage", tx[w].aggregate)
    <3>1. delivered \in [Subscriptions -> [Aggregates -> Nat]]
      BY <1>1 DEF FeedOK
    <3>2. PICK f : delivered' = [delivered EXCEPT !["budget_usage"] = f]
      BY <2>2 DEF Advance
    <3>3. QED
      BY <3>1, <3>2 DEF Subscriptions
  <2>3. QED
    BY <1>4, <2>1, <2>2
<1>6. RecordsOK' /\ RollupsOK' /\ EntriesOK'
  BY <1>2, <1>3, <1>5, LedgersKept
<1>7. UsageInv' /\ FeedOK'
  BY <1>1, BeginExpenseHolds, BeginBudgetHolds, ReadSumHolds, ReadUsageHolds, SaveUsageHolds,
     CommitHolds, DeleteUsageHolds, AbortHolds
<1>8. QED
  BY <1>6, <1>7 DEF ProjectionsInv

LEMMA ProjectionsStep ==
    ASSUME ProjectionsInv, [Next]_vars
    PROVE  ProjectionsInv'
<1>1. CASE \E c \in commands : Command(c)
  <2>1. PICK c \in commands : Command(c)
    BY <1>1
  <2>2. FeedOK' /\ Grown /\ UNCHANGED ReadSide
    BY <2>1, CommandHolds DEF ProjectionsInv
  <2>3. UNCHANGED <<delivered, contributions, rollups, mirror, usage, entries, tx, history>>
    BY <2>2 DEF ReadSide
  <2>4. RecordsOK' /\ RollupsOK' /\ EntriesOK'
    BY <2>2, <2>3, LedgersKept
  <2>5. UsageInv'
    BY <2>2, <2>3, UsageKept DEF ProjectionsInv
  <2>6. QED
    BY <2>2, <2>4, <2>5 DEF ProjectionsInv
<1>2. CASE Project
  BY <1>2, AnalyticsStep, AuditStep, UsageStep DEF Project
<1>3. CASE Fault
  BY <1>3, AnalyticsStep, AuditStep, UsageStep DEF Fault
<1>4. CASE UNCHANGED vars
  <2>1. /\ UNCHANGED <<today, commands, events, budgets, delivered, contributions, rollups, mirror>>
        /\ UNCHANGED <<usage, entries, tx, history>>
    BY <1>4 DEF vars, readModels
  <2>2. FeedOK' /\ Grown
    BY <2>1, NothingGrows DEF ProjectionsInv, FeedOK
  <2>3. RecordsOK' /\ RollupsOK' /\ EntriesOK'
    BY <2>1, <2>2, LedgersKept
  <2>4. UsageInv'
    BY <2>1, <2>2, UsageKept DEF ProjectionsInv
  <2>5. QED
    BY <2>2, <2>3, <2>4 DEF ProjectionsInv
<1>5. QED
  BY <1>1, <1>2, <1>3, <1>4 DEF Next, Rest

(* The invariant holds in every state. *)
THEOREM ProjectionsSound == Spec => []ProjectionsInv
<1>1. Init => ProjectionsInv
  BY ProjectionsStart
<1>2. ProjectionsInv /\ [Next]_vars => ProjectionsInv'
  BY ProjectionsStep
<1>3. QED
  BY <1>1, <1>2, PTL DEF Spec

(* The invariant gives the two ledgers. *)
LEMMA InvGivesRollups == ProjectionsInv => RollupsAgree
<1> SUFFICES ASSUME ProjectionsInv
             PROVE  RollupsAgree
  OBVIOUS
<1> DEFINE live == Counted("analytics")
           where == [x \in live |-> Buckets(BodyAt("analytics", x))]
           In(k) == {x \in live : k \in where[x]}
           C == contributions
<1>1. RecordsOK /\ RollupsOK
  BY DEF ProjectionsInv
<1>2. ASSUME NEW k
      PROVE  /\ AmountIn(rollups, k) = Sum([x \in In(k) |-> AmountFor(BodyAt("analytics", x), k)])
             /\ CountIn(rollups, k) = Sum([x \in In(k) |-> Times(BodyAt("analytics", x), k)])
  <2>1. \A x \in Expenses : /\ Active(C, x) <=> x \in live
                            /\ Active(C, x) => C[x].body = BodyAt("analytics", x)
    BY <1>1 DEF RecordsOK
  <2>2. \A x \in live : x \in Expenses /\ where[x] = Buckets(BodyAt("analytics", x))
    BY DEF Counted
  <2> HIDE DEF live, where
  <2>3. Inside(C, k) = In(k)
    BY <2>1, <2>2 DEF Inside
  <2>4. \A x \in In(k) : C[x].body = BodyAt("analytics", x)
    BY <2>1, <2>2
  <2> HIDE DEF In
  <2>5. [x \in Inside(C, k) |-> AmountFor(C[x].body, k)]
           = [x \in In(k) |-> AmountFor(BodyAt("analytics", x), k)]
    BY <2>3, <2>4
  <2>6. [x \in Inside(C, k) |-> Times(C[x].body, k)]
           = [x \in In(k) |-> Times(BodyAt("analytics", x), k)]
    BY <2>3, <2>4
  <2>7. AmountIn(rollups, k) = AmountOf(C, k) /\ CountIn(rollups, k) = CountOf(C, k)
    BY <1>1 DEF RollupsOK, Balanced
  <2>8. QED
    BY <2>5, <2>6, <2>7 DEF AmountOf, CountOf
<1>3. QED
  BY <1>2, Zenon DEF RollupsAgree

LEMMA InvGivesAudit == ProjectionsInv => AuditComplete
<1> SUFFICES ASSUME ProjectionsInv
             PROVE  AuditComplete
  OBVIOUS
<1>1. EntriesOK
  BY DEF ProjectionsInv
<1>2. DOMAIN entries = 1 .. Len(entries)
  BY <1>1, LenProperties DEF EntriesOK
<1>3. ASSUME NEW a \in Aggregates, NEW n \in 1 .. delivered["audit"][a]
      PROVE  Cardinality({i \in DOMAIN entries : entries[i].event = <<a, n>>}) = 1
  <2>1. PICK j \in 1 .. Len(entries) : entries[j].event = <<a, n>>
    BY <1>1, <1>3 DEF EntriesOK
  <2>2. \A i \in 1 .. Len(entries) : entries[i].event = entries[j].event => i = j
    BY <1>1 DEF EntriesOK
  <2>3. {i \in DOMAIN entries : entries[i].event = <<a, n>>} = {j}
    BY <1>2, <2>1, <2>2
  <2>4. QED
    BY <2>3, FS_Singleton
<1>4. QED
  BY <1>1, <1>3 DEF AuditComplete, EntriesOK

(* Every bucket of every granularity holds exactly the expenses that their  *)
(* latest delivered events still count, and the audit trail exactly one     *)
(* entry for each event delivered, after any edits, removals, repeats and   *)
(* replays: AnalyticsProjection.Handle and AuditProjection.Handle.          *)
THEOREM LedgersHold == Spec => []LedgersAgree
<1>1. ProjectionsInv => LedgersAgree
  BY InvGivesRollups, InvGivesAudit DEF LedgersAgree
<1>2. QED
  BY <1>1, ProjectionsSound, PTL

(* A stored usage row equals the sum of the mirrored expenses in its window *)
(* unless two transactions crossed, for any number of workers, budgets and  *)
(* expenses: BudgetUsageProjection.recompute.                               *)
THEOREM UsageHolds == Spec => []UsageAgrees
<1>1. ProjectionsInv => UsageAgrees
  <2> SUFFICES ASSUME ProjectionsInv, NEW k \in DOMAIN usage,
                      budgets[k.budget].found, history[k].version = Len(events[k.budget]),
                      ~history[k].stale
               PROVE  usage[k].spent = SpentIn(mirror, budgets[k.budget].body, k.start)
    BY DEF UsageAgrees
  <2>1. RowGood(k)
    BY DEF ProjectionsInv, UsageInv
  <2>2. QED
    BY <2>1 DEF RowGood, Tells, Fresh
<1>2. QED
  BY <1>1, ProjectionsSound, PTL

(* Since the spend of a window was last below the threshold, its owner was  *)
(* mailed each rung at most once for the record and once more for each      *)
(* transaction that crossed another; with no crossing the rungs rose up to  *)
(* the one recorded.  BudgetThresholdCrossing and AlertedPercentFor, across *)
(* aborts, replays, edits and removals of the budget.                       *)
THEOREM AlertsHold == Spec => []AlertsTrue
<1>1. ProjectionsInv => AlertsTrue
  <2> SUFFICES ASSUME ProjectionsInv, NEW k \in DOMAIN usage
               PROVE  /\ \A r \in 1 .. 100 :
                            Cardinality(Mailed(history[k].mails, r)) <= 1 + history[k].crossed
                      /\ history[k].crossed = 0 =>
                            AlertOK(history[k].mails, usage[k].alerted, history[k].replayed)
    BY Zenon DEF AlertsTrue, AlertOK, Rises, LastMail, Mailed
  <2>1. UsageTypeOK /\ AlertGood(k)
    BY DEF ProjectionsInv, UsageInv
  <2>2. history[k] \in Histories
    BY <2>1, PartialIs DEF UsageTypeOK
  <2>3. PICK c \in Nat, mails \in Seq(0 .. 100) : c = history[k].crossed /\ mails = history[k].mails
    BY <2>2 DEF Histories
  <2>4. ASSUME NEW r \in 1 .. 100
        PROVE  Cardinality(Mailed(mails, r)) <= 1 + c
    <3>1. PICK n \in 0 .. 100 : n = 0
      OBVIOUS
    <3>2. Cardinality(Mailed(mails, r)) \in Nat
      BY <3>1, MailAdded
    <3>3. Cardinality(Mailed(mails, r)) <= c + (IF r <= usage[k].alerted THEN 1 ELSE 0)
      BY <2>1, <2>3 DEF AlertGood, Seldom
    <3>4. QED
      BY <3>2, <3>3
  <2>5. QED
    BY <2>1, <2>3, <2>4 DEF AlertGood
<1>2. QED
  BY <1>1, ProjectionsSound, PTL

-----------------------------------------------------------------------------
(* Sums over parts of a set. *)

Part(f, A) == Sum([x \in A |-> f[x]])

LEMMA PartNone == \A f : Part(f, {}) = 0
BY SumOfNone DEF Part

LEMMA PartType ==
    ASSUME NEW S, IsFiniteSet(S), NEW f, Numbers(f, S)
    PROVE  \A A \in SUBSET S : Part(f, A) \in Int
<1> SUFFICES ASSUME NEW A \in SUBSET S PROVE Part(f, A) \in Int
  OBVIOUS
<1> DEFINE g == [x \in A |-> f[x]]
<1>1. IsFiniteSet(DOMAIN g) /\ Numbers(g, DOMAIN g)
  BY FS_Subset DEF Numbers
<1> HIDE DEF g
<1>2. Sum(g) \in Int
  BY <1>1, SumIsNumber
<1>3. QED
  BY <1>2 DEF Part, g

LEMMA PartSplits ==
    ASSUME NEW S, IsFiniteSet(S), NEW f, Numbers(f, S)
    PROVE  \A A \in SUBSET S : \A x \in A : Part(f, A) = f[x] + Part(f, A \ {x})
<1> SUFFICES ASSUME NEW A \in SUBSET S, NEW x \in A PROVE Part(f, A) = f[x] + Part(f, A \ {x})
  OBVIOUS
<1> DEFINE g == [y \in A |-> f[y]]
<1>1. IsFiniteSet(DOMAIN g) /\ Numbers(g, DOMAIN g) /\ x \in DOMAIN g
  BY FS_Subset DEF Numbers
<1>2. [y \in DOMAIN g \ {x} |-> g[y]] = [y \in A \ {x} |-> f[y]] /\ g[x] = f[x]
  OBVIOUS
<1> HIDE DEF g
<1>3. Sum(g) = g[x] + Sum([y \in DOMAIN g \ {x} |-> g[y]])
  BY <1>1, SumSplits
<1>4. Sum(g) = f[x] + Sum([y \in A \ {x} |-> f[y]])
  BY <1>2, <1>3
<1>5. QED
  BY <1>4 DEF Part, g

(* Two sets that have nothing in common add up. *)
LEMMA PartsJoin ==
    ASSUME NEW S, IsFiniteSet(S), NEW f, Numbers(f, S), NEW B \in SUBSET S
    PROVE  \A A \in SUBSET (S \ B) : Part(f, A \cup B) = Part(f, A) + Part(f, B)
<1> DEFINE Bad == {A \in SUBSET (S \ B) : Part(f, A \cup B) # Part(f, A) + Part(f, B)}
<1> SUFFICES ASSUME Bad # {} PROVE FALSE
  OBVIOUS
<1>1. Bad \subseteq SUBSET S
  OBVIOUS
<1>2. PICK A \in Bad : \A V \in Bad : V \subseteq A => V = A
  <2> HIDE DEF Bad
  <2>1. QED
    BY <1>1, SmallestSet
<1>3. A \in SUBSET (S \ B) /\ Part(f, A \cup B) # Part(f, A) + Part(f, B)
  OBVIOUS
<1>4. A # {}
  <2>1. Part(f, B) \in Int
    BY PartType
  <2>2. {} \cup B = B
    OBVIOUS
  <2>3. QED
    BY <1>3, <2>1, <2>2, PartNone
<1>5. PICK x : x \in A
  BY <1>4
<1>6. PICK D : D = A \ {x}
  OBVIOUS
<1>7. D \in SUBSET (S \ B) /\ D \subseteq A /\ D # A
  BY <1>3, <1>5, <1>6
<1>8. Part(f, D \cup B) = Part(f, D) + Part(f, B)
  BY <1>2, <1>7
<1>9. A \cup B \in SUBSET S /\ x \in A \cup B /\ (A \cup B) \ {x} = D \cup B
  BY <1>3, <1>5, <1>6
<1>10. Part(f, A \cup B) = f[x] + Part(f, D \cup B)
  BY <1>9, PartSplits
<1>11. A \in SUBSET S /\ Part(f, A) = f[x] + Part(f, D)
  BY <1>3, <1>5, <1>6, PartSplits
<1>12. f[x] \in Int /\ Part(f, D) \in Int /\ Part(f, B) \in Int
  BY <1>3, <1>5, <1>7, PartType DEF Numbers
<1>13. QED
  BY <1>3, <1>8, <1>10, <1>11, <1>12

(* A sum by parts is the sum of what the parts hold together. *)
Parted(part, T, S) ==
    /\ \A t \in T : part[t] \in SUBSET S
    /\ \A t, u \in T : t # u => part[t] \cap part[u] = {}

Together(part, U) == UNION {part[t] : t \in U}

LEMMA SumByParts ==
    ASSUME NEW S, IsFiniteSet(S), NEW f, Numbers(f, S), NEW T, IsFiniteSet(T),
           NEW part, Parted(part, T, S)
    PROVE  Sum([t \in T |-> Part(f, part[t])]) = Part(f, Together(part, T))
<1> DEFINE h == [t \in T |-> Part(f, part[t])]
           Bad == {U \in SUBSET T : Part(h, U) # Part(f, Together(part, U))}
<1>1. Numbers(h, T)
  BY PartType DEF Numbers, Parted
<1>2. \A U \in SUBSET T : Together(part, U) \in SUBSET S
  BY DEF Together, Parted
<1>3. \A t \in T : h[t] = Part(f, part[t])
  OBVIOUS
<1>4. h = [t \in T |-> h[t]]
  OBVIOUS
<1> HIDE DEF h
<1>5. Bad = {}
  <2> SUFFICES ASSUME Bad # {} PROVE FALSE
    OBVIOUS
  <2>1. Bad \subseteq SUBSET T
    OBVIOUS
  <2>2. PICK U \in Bad : \A V \in Bad : V \subseteq U => V = U
    <3> HIDE DEF Bad
    <3>1. QED
      BY <2>1, SmallestSet
  <2>3. U \in SUBSET T /\ Part(h, U) # Part(f, Together(part, U))
    OBVIOUS
  <2>4. U # {}
    <3>1. Together(part, {}) = {}
      BY DEF Together
    <3>2. QED
      BY <2>3, <3>1, PartNone
  <2>5. PICK t : t \in U
    BY <2>4
  <2>6. PICK V : V = U \ {t}
    OBVIOUS
  <2>7. V \in SUBSET T /\ V \subseteq U /\ V # U /\ t \in T
    BY <2>3, <2>5, <2>6
  <2>8. Part(h, V) = Part(f, Together(part, V))
    BY <2>2, <2>7
  <2>9. Part(h, U) = h[t] + Part(h, V)
    BY <1>1, <2>3, <2>5, <2>6, PartSplits
  <2>10. Together(part, U) = part[t] \cup Together(part, V)
    BY <2>5, <2>6 DEF Together
  <2>11. part[t] \in SUBSET (S \ Together(part, V))
    BY <2>6, <2>7 DEF Together, Parted
  <2>12. Part(f, part[t] \cup Together(part, V)) = Part(f, part[t]) + Part(f, Together(part, V))
    <3>1. Together(part, V) \in SUBSET S
      BY <1>2, <2>7
    <3>2. QED
      BY <2>11, <3>1, PartsJoin
  <2>13. QED
    BY <1>3, <2>3, <2>7, <2>8, <2>9, <2>10, <2>12
<1>6. Part(h, T) = Part(f, Together(part, T))
  BY <1>5
<1>7. QED
  BY <1>4, <1>6 DEF Part, h

(* A part is no larger than the whole when no term is negative. *)
LEMMA PartIsLess ==
    ASSUME NEW S, IsFiniteSet(S), NEW f, \A x \in S : f[x] \in Nat, NEW A \in SUBSET S,
           NEW B \in SUBSET S, A \subseteq B
    PROVE  Part(f, A) <= Part(f, B)
<1>1. Numbers(f, S)
  BY DEF Numbers
<1> DEFINE Bad == {D \in SUBSET S : ~(Part(f, D) >= 0)}
<1>2. Bad = {}
  <2> SUFFICES ASSUME Bad # {} PROVE FALSE
    OBVIOUS
  <2>1. Bad \subseteq SUBSET S
    OBVIOUS
  <2>2. PICK D \in Bad : \A V \in Bad : V \subseteq D => V = D
    <3> HIDE DEF Bad
    <3>1. QED
      BY <2>1, SmallestSet
  <2>3. D # {}
    BY PartNone
  <2>4. PICK x : x \in D
    BY <2>3
  <2>5. D \in SUBSET S /\ D \ {x} \in SUBSET S /\ D \ {x} \subseteq D /\ D \ {x} # D /\ x \in S
    BY <2>4
  <2>6. Part(f, D \ {x}) >= 0
    BY <2>2, <2>5
  <2>7. Part(f, D) = f[x] + Part(f, D \ {x})
    BY <1>1, <2>4, <2>5, PartSplits
  <2>8. Part(f, D \ {x}) \in Int /\ f[x] \in Nat
    BY <1>1, <2>5, PartType
  <2>9. QED
    BY <2>6, <2>7, <2>8
<1>3. A \in SUBSET (S \ (B \ A)) /\ B \ A \in SUBSET S /\ A \cup (B \ A) = B
  OBVIOUS
<1>4. Part(f, B) = Part(f, A) + Part(f, B \ A)
  BY <1>1, <1>3, PartsJoin
<1>5. Part(f, B \ A) >= 0
  BY <1>2, <1>3
<1>6. Part(f, A) \in Int /\ Part(f, B \ A) \in Int
  BY <1>1, <1>3, PartType
<1>7. QED
  BY <1>4, <1>5, <1>6

-----------------------------------------------------------------------------
(* The queries over the rollups. *)

(* A day is in the period that holds at just when its own period starts there. *)
LEMMA PeriodTiles ==
    ASSUME NEW p \in AnalyticsPeriods, NEW at \in Int
    PROVE  \E s, e \in Int : Tiles(p, at, s, e)
<1>1. p = "day" \/ p = "week" \/ p = "month" \/ p = "year"
  BY DEF AnalyticsPeriods
<1>2. CASE p = "day"
  BY <1>2, DaysTile
<1>3. CASE p = "week"
  <2>1. PICK s \in Int : Tiles("week", at, s, s + 7)
    BY WeeksTile
  <2>2. QED
    BY <1>3, <2>1
<1>4. CASE p = "month"
  BY <1>4, MonthsTile
<1>5. CASE p = "year"
  BY <1>5, YearsTile
<1>6. QED
  BY <1>1, <1>2, <1>3, <1>4, <1>5

(* The period p that holds at runs from s until e. *)
Spans(p, at, s, e) == s = RollupPeriodStart(p, at) /\ e = periodEnd(p, s)

LEMMA SpanIs ==
    ASSUME NEW p \in AnalyticsPeriods, NEW at \in Int, NEW s, NEW e, Spans(p, at, s, e)
    PROVE  s \in Int /\ e \in Int /\ s <= at /\ at < e /\ RollupPeriodStart(p, s) = s
<1>1. PICK a, b \in Int : Tiles(p, at, a, b)
  BY PeriodTiles
<1>2. QED
  BY <1>1 DEF Tiles, Spans

LEMMA SpanHolds ==
    ASSUME NEW p \in AnalyticsPeriods, NEW at \in Int, NEW s, NEW e, Spans(p, at, s, e)
    PROVE  \A d \in Int : RollupPeriodStart(p, d) = s <=> s <= d /\ d < e
<1> SUFFICES ASSUME NEW d \in Int PROVE RollupPeriodStart(p, d) = s <=> s <= d /\ d < e
  OBVIOUS
<1>1. PICK a, b \in Int : Tiles(p, d, a, b)
  BY PeriodTiles
<1>2. ASSUME RollupPeriodStart(p, d) = s PROVE s <= d /\ d < e
  BY <1>1, <1>2 DEF Tiles, Spans
<1>3. s <= d /\ d < e => RollupPeriodStart(p, d) = s
  BY PeriodKept DEF Spans
<1>4. QED
  BY <1>2, <1>3

(* The rows of categories, whose sums the queries take. *)
CategoryRows(p) == {k \in DOMAIN rollups : k.dimension = "category" /\ k.period = p}
Pairs == {<<b.category, b.currency>> : b \in Bills}
KeysOK ==
    \A p \in AnalyticsPeriods :
       /\ IsFiniteSet(CategoryRows(p))
       /\ \A k \in CategoryRows(p) : k.start \in Int /\ <<k.id, k.currency>> \in Pairs

(* What each expense counts for, and the row of a category that counts it. *)
Worth    == [x \in Expenses |-> IF Active(contributions, x)
                                  THEN contributions[x].body.amount ELSE 0]
Home(x, p) == Bucket(contributions[x].body, "category", contributions[x].body.category, p)
Homed(p, R) == {x \in Expenses : Active(contributions, x) /\ Home(x, p) \in R}

LEMMA WorthIs ==
    ASSUME RecordsOK
    PROVE  /\ IsFiniteSet(Expenses) /\ Numbers(Worth, Expenses)
           /\ \A x \in Expenses : Worth[x] \in Nat
<1>1. contributions \in [Expenses -> Rows]
  BY DEF RecordsOK
<1>2. \A x \in Expenses : Active(contributions, x) => contributions[x].body.amount \in Nat
  BY <1>1, ActiveRow DEF Bills
<1>3. \A x \in Expenses : Worth[x] \in Nat
  BY <1>2 DEF Worth
<1>4. QED
  BY <1>3, ProjectionsAssumption DEF Numbers

(* An expense counts in one row of each period. *)
LEMMA HomeIs ==
    ASSUME NEW p \in AnalyticsPeriods, NEW x \in Expenses, Active(contributions, x),
           NEW k, k.dimension = "category", k.period = p
    PROVE  x \in Inside(contributions, k) <=> k = Home(x, p)
<1> DEFINE c == contributions[x].body
<1>1. k = Home(x, p) => k \in Buckets(c)
  BY DEF Home, Buckets
<1>2. ASSUME k \in Buckets(c) PROVE k = Home(x, p)
  <2>1. PICK q \in AnalyticsPeriods :
            \/ k = Bucket(c, "category", c.category, q)
            \/ \E i \in DOMAIN c.tags : k = Bucket(c, "tag", c.tags[i], q)
    BY <1>2 DEF Buckets
  <2>2. k = Bucket(c, "category", c.category, q)
    BY <2>1 DEF Bucket
  <2>3. q = p
    BY <2>2 DEF Bucket
  <2>4. QED
    BY <2>2, <2>3 DEF Home
<1>3. QED
  BY <1>1, <1>2 DEF Inside

LEMMA HomeThere ==
    ASSUME RecordsOK, RollupsOK, NEW p \in AnalyticsPeriods,
           NEW x \in Expenses, Active(contributions, x)
    PROVE  Home(x, p) \in CategoryRows(p)
<1> DEFINE k == Home(x, p)
<1>1. k.dimension = "category" /\ k.period = p
  BY DEF Home, Bucket
<1>2. x \in Inside(contributions, k)
  <2> HIDE DEF k
  <2>1. k = Home(x, p)
    BY DEF k
  <2>2. QED
    BY <1>1, <2>1, HomeIs
<1>3. CountIn(rollups, k) = CountOf(contributions, k)
  BY DEF RollupsOK, Balanced
<1>4. CountOf(contributions, k) # 0
  <2> DEFINE A == Inside(contributions, k)
             ones == [y \in Expenses |-> 1]
  <2>1. \A y \in A : Times(contributions[y].body, k) = 1
    BY <1>1 DEF Times
  <2>2. A \in SUBSET Expenses /\ IsFiniteSet(Expenses) /\ \A y \in Expenses : ones[y] = 1
    BY ProjectionsAssumption DEF Inside
  <2>3. [y \in A |-> Times(contributions[y].body, k)] = [y \in A |-> ones[y]]
    BY <2>1, <2>2
  <2>4. CountOf(contributions, k) = Part(ones, A)
    BY <2>3 DEF CountOf, Part
  <2>5. x \in A
    BY <1>2
  <2> HIDE DEF A, ones, k
  <2>6. Numbers(ones, Expenses) /\ {x} \in SUBSET Expenses /\ {x} \subseteq A
    BY <2>2, <2>5 DEF Numbers
  <2>7. Part(ones, {x}) = 1 + Part(ones, {})
    <3>1. Part(ones, {x}) = ones[x] + Part(ones, {x} \ {x})
      BY <2>2, <2>6, PartSplits
    <3>2. {x} \ {x} = {}
      OBVIOUS
    <3>3. QED
      BY <2>2, <3>1, <3>2
  <2>8. Part(ones, {x}) <= Part(ones, A)
    BY <2>2, <2>6, PartIsLess
  <2>9. QED
    BY <2>4, <2>7, <2>8, PartNone
<1>5. k \in DOMAIN rollups
  BY <1>3, <1>4 DEF CountIn
<1>6. QED
  BY <1>1, <1>5 DEF CategoryRows

(* The total of some rows is what the expenses that count in them amount to. *)
LEMMA TotalIs ==
    ASSUME RecordsOK, RollupsOK, KeysOK, NEW p \in AnalyticsPeriods, NEW R \in SUBSET CategoryRows(p)
    PROVE  Total(R) = Part(Worth, Homed(p, R))
<1> DEFINE C == contributions
           part == [k \in R |-> Inside(C, k)]
<1>1. \A k \in R : k \in DOMAIN rollups /\ k.dimension = "category" /\ k.period = p
  BY DEF CategoryRows
<1>2. IsFiniteSet(R)
  BY FS_Subset DEF KeysOK
<1>3. \A k \in R : rollups[k].amount = Part(Worth, part[k])
  <2> TAKE k \in R
  <2>1. rollups[k].amount = AmountOf(C, k)
    BY <1>1 DEF RollupsOK, Balanced, AmountIn
  <2>2. ASSUME NEW x \in Inside(C, k) PROVE AmountFor(C[x].body, k) = Worth[x]
    <3>1. x \in Expenses /\ Active(C, x)
      BY <2>2 DEF Inside
    <3>2. PICK a \in Int : a = C[x].body.amount
      BY <3>1, ActiveRow DEF RecordsOK
    <3>3. Worth[x] = a
      BY <3>1, <3>2 DEF Worth
    <3>4. Times(C[x].body, k) = 1
      BY <1>1 DEF Times
    <3>5. QED
      BY <3>2, <3>3, <3>4 DEF AmountFor
  <2>3. [x \in Inside(C, k) |-> AmountFor(C[x].body, k)] = [x \in Inside(C, k) |-> Worth[x]]
    BY <2>2
  <2>4. QED
    BY <2>1, <2>3 DEF AmountOf, Part
<1>4. Total(R) = Sum([k \in R |-> Part(Worth, part[k])])
  <2>1. [k \in R |-> rollups[k].amount] = [k \in R |-> Part(Worth, part[k])]
    BY <1>3
  <2>2. QED
    BY <2>1 DEF Total
<1>5. Parted(part, R, Expenses)
  <2>1. \A k \in R : part[k] \in SUBSET Expenses
    BY DEF Inside
  <2>2. ASSUME NEW k \in R, NEW l \in R, NEW x, x \in part[k], x \in part[l]
        PROVE  k = l
    <3>1. x \in Expenses /\ Active(C, x) /\ x \in Inside(C, k) /\ x \in Inside(C, l)
      BY <2>2 DEF Inside
    <3>2. k = Home(x, p) /\ l = Home(x, p)
      BY <1>1, <3>1, HomeIs
    <3>3. QED
      BY <3>2
  <2> HIDE DEF part
  <2>3. QED
    BY <2>1, <2>2 DEF Parted
<1>6. Together(part, R) = Homed(p, R)
  <2>1. ASSUME NEW x \in Expenses, Active(C, x), NEW k \in R
        PROVE  x \in part[k] <=> k = Home(x, p)
    BY <1>1, <2>1, HomeIs
  <2>2. \A k \in R : \A x \in part[k] : x \in Expenses /\ Active(C, x)
    BY DEF Inside
  <2> HIDE DEF part
  <2>3. QED
    BY <2>1, <2>2 DEF Together, Homed
<1> HIDE DEF part
<1>7. QED
  BY <1>2, <1>4, <1>5, <1>6, WorthIs, SumByParts

(* Rows put into groups add up to the rows. *)
LEMMA GroupsAddUp ==
    ASSUME RecordsOK, RollupsOK, KeysOK, NEW p \in AnalyticsPeriods,
           NEW T, IsFiniteSet(T), NEW part, Parted(part, T, CategoryRows(p))
    PROVE  Sum([t \in T |-> Total(part[t])]) = Total(Together(part, T))
<1> DEFINE f == [k \in CategoryRows(p) |-> rollups[k].amount]
<1>1. IsFiniteSet(CategoryRows(p))
  BY DEF KeysOK
<1>2. Numbers(f, CategoryRows(p))
  <2>1. ASSUME NEW k \in CategoryRows(p) PROVE rollups[k].amount \in Int
    <3>1. rollups[k].amount = AmountOf(contributions, k)
      BY DEF RollupsOK, Balanced, AmountIn, CategoryRows
    <3>2. QED
      BY <3>1, AmountIsNumber DEF RecordsOK
  <2>2. QED
    BY <2>1 DEF Numbers
<1>3. \A R \in SUBSET CategoryRows(p) : Total(R) = Part(f, R)
  <2> TAKE R \in SUBSET CategoryRows(p)
  <2>1. [k \in R |-> rollups[k].amount] = [k \in R |-> f[k]]
    OBVIOUS
  <2>2. QED
    BY <2>1 DEF Total, Part
<1> HIDE DEF f
<1>4. \A t \in T : Total(part[t]) = Part(f, part[t])
  BY <1>3 DEF Parted
<1>5. [t \in T |-> Total(part[t])] = [t \in T |-> Part(f, part[t])]
  BY <1>4
<1>6. Together(part, T) \in SUBSET CategoryRows(p)
  BY DEF Together, Parted
<1>7. QED
  BY <1>1, <1>2, <1>3, <1>5, <1>6, SumByParts

LEMMA ListedRows ==
    ASSUME NEW p, NEW from, NEW to
    PROVE  /\ ListExpenseRollups(p, from, to) \in SUBSET CategoryRows(p)
           /\ \A k \in CategoryRows(p) : k \in ListExpenseRollups(p, from, to)
                                              <=> k.start >= from /\ k.start <= to
BY DEF ListExpenseRollups, CategoryRows

LEMMA ListedFinite ==
    ASSUME KeysOK, NEW p \in AnalyticsPeriods, NEW from, NEW to
    PROVE  IsFiniteSet(ListExpenseRollups(p, from, to))
BY ListedRows, FS_Subset DEF KeysOK

(* A set with as many members as labels is as finite as they are. *)
LEMMA LabelsBound ==
    ASSUME NEW T, NEW L, IsFiniteSet(L), NEW f \in [T -> L], \A t, u \in T : f[t] = f[u] => t = u
    PROVE  IsFiniteSet(T) /\ Cardinality(T) <= Cardinality(L)
<1>1. f \in Injection(T, L)
  BY DEF Injection, IsInjective
<1>2. QED
  BY <1>1, FS_Injection

LEMMA RangeFinite ==
    ASSUME NEW S, IsFiniteSet(S), NEW f
    PROVE  IsFiniteSet({f[x] : x \in S})
<1> DEFINE T == {f[x] : x \in S}
           g == [x \in S |-> f[x]]
<1>1. g \in Surjection(S, T)
  BY DEF Surjection
<1> HIDE DEF g, T
<1>2. IsFiniteSet(T)
  BY <1>1, FS_Surjection
<1>3. QED
  BY <1>2 DEF T

(* The rows of a currency in the days or in the period itself. *)
InCurrency(R, c) == {k \in R : k.currency = c}

(* DailyTotals: the days of a currency add up to its rows. *)
LEMMA DaysAddUp ==
    ASSUME RecordsOK, RollupsOK, KeysOK, NEW from, NEW to, NEW c
    PROVE  Sum([x \in {d \in DailyTotals(from, to) : d.currency = c} |-> x.amount])
             = Total(InCurrency(ListExpenseRollups("day", from, to), c))
<1> DEFINE D == ListExpenseRollups("day", from, to)
           Of(day, cur) == {k \in D : k.start = day /\ k.currency = cur}
           Rec(day, cur) == [day |-> day, currency |-> cur, amount |-> Total(Of(day, cur)),
                             count |-> Count(Of(day, cur))]
           T == {d \in DailyTotals(from, to) : d.currency = c}
           part == [t \in T |-> Of(t.day, t.currency)]
<1>1. DailyTotals(from, to) = {Rec(g.start, g.currency) : g \in D}
  BY DEF DailyTotals
<1>2. \A day, cur : /\ Rec(day, cur).day = day /\ Rec(day, cur).currency = cur
                     /\ Rec(day, cur).amount = Total(Of(day, cur))
  OBVIOUS
<1>3. "day" \in AnalyticsPeriods
  BY DEF AnalyticsPeriods
<1>4. D \in SUBSET CategoryRows("day") /\ IsFiniteSet(D)
  BY <1>3, ListedRows, ListedFinite
<1> HIDE DEF Rec, D
<1>5. \A t \in T : t = Rec(t.day, c) /\ t.currency = c /\ t.day \in {g.start : g \in D}
  BY <1>1, <1>2
<1>6. \A t, u \in T : t.day = u.day => t = u
  <2> HIDE DEF T
  <2>1. QED
    BY <1>5
<1>7. \A g \in D : g.currency = c => \E t \in T : t.day = g.start
  <2> SUFFICES ASSUME NEW g \in D, g.currency = c
               PROVE  Rec(g.start, c) \in T /\ Rec(g.start, c).day = g.start
    OBVIOUS
  <2>1. Rec(g.start, c) \in DailyTotals(from, to)
    BY <1>1
  <2>2. QED
    BY <1>2, <2>1
<1>8. \A t \in T : part[t] = Of(t.day, c) /\ t.amount = Total(part[t])
  <2> TAKE t \in T
  <2>1. part[t] = Of(t.day, t.currency)
    OBVIOUS
  <2> HIDE DEF T, part, Of
  <2>2. QED
    BY <1>2, <1>5, <2>1
<1>9. IsFiniteSet(T)
  <2>1. \A t \in T : t.day \in {g.start : g \in D}
    BY <1>5
  <2>2. IsFiniteSet({g.start : g \in D})
    <3> DEFINE s == [g \in D |-> g.start]
    <3>1. {g.start : g \in D} = {s[g] : g \in D}
      OBVIOUS
    <3> HIDE DEF s, D
    <3>2. QED
      BY <1>4, <3>1, RangeFinite
  <2>3. PICK L : L = {g.start : g \in D}
    OBVIOUS
  <2> DEFINE f == [t \in T |-> t.day]
  <2>4. f \in [T -> L] /\ \A t, u \in T : f[t] = f[u] => t = u
    <3> HIDE DEF T, D
    <3>1. QED
      BY <1>6, <2>1, <2>3
  <2> HIDE DEF f, T, D
  <2>5. QED
    BY <2>2, <2>3, <2>4, LabelsBound
<1> HIDE DEF T, D, part
<1>10. Parted(part, T, CategoryRows("day"))
  BY <1>4, <1>6, <1>8 DEF Parted
<1>11. Together(part, T) = InCurrency(D, c)
  BY <1>7, <1>8 DEF Together, InCurrency
<1>12. [x \in T |-> x.amount] = [x \in T |-> Total(part[x])]
  BY <1>8
<1>13. Sum([t \in T |-> Total(part[t])]) = Total(Together(part, T))
  BY <1>3, <1>9, <1>10, GroupsAddUp
<1>14. QED
  BY <1>11, <1>12, <1>13 DEF T, D

(* WeekdayBreakdown: so do its weekdays. *)
LEMMA WeekdaysAddUp ==
    ASSUME RecordsOK, RollupsOK, KeysOK, NEW from, NEW to, NEW c
    PROVE  Sum([x \in {d \in WeekdayBreakdown(from, to) : d.currency = c} |-> x.amount])
             = Total(InCurrency(ListExpenseRollups("day", from, to), c))
<1> DEFINE D == ListExpenseRollups("day", from, to)
           Of(day, cur) == {k \in D : Weekday(k.start) = day /\ k.currency = cur}
           Rec(day, cur) == [weekday |-> day, currency |-> cur, amount |-> Total(Of(day, cur)),
                             count |-> Count(Of(day, cur))]
           T == {d \in WeekdayBreakdown(from, to) : d.currency = c}
           part == [t \in T |-> Of(t.weekday, t.currency)]
<1>1. \A t : t \in WeekdayBreakdown(from, to)
               <=> \E d \in 0 .. 6, e \in currencies(D) : t = Rec(d, e)
  BY DEF WeekdayBreakdown
<1>2. \A day, cur : /\ Rec(day, cur).weekday = day /\ Rec(day, cur).currency = cur
                     /\ Rec(day, cur).amount = Total(Of(day, cur))
  OBVIOUS
<1>3. "day" \in AnalyticsPeriods
  BY DEF AnalyticsPeriods
<1>4. D \in SUBSET CategoryRows("day") /\ \A k \in D : k.start \in Int
  BY <1>3, ListedRows DEF KeysOK
<1> HIDE DEF Rec, D
<1>5. \A t \in T : t = Rec(t.weekday, c) /\ t.currency = c /\ t.weekday \in 0 .. 6
  BY <1>1, <1>2
<1>6. \A t, u \in T : t.weekday = u.weekday => t = u
  <2> HIDE DEF T
  <2>1. QED
    BY <1>5
<1>7. \A g \in D : Weekday(g.start) \in 0 .. 6
  BY <1>4 DEF Weekday
<1>8. \A g \in D : g.currency = c => \E t \in T : t.weekday = Weekday(g.start)
  <2> SUFFICES ASSUME NEW g \in D, g.currency = c
               PROVE  /\ Rec(Weekday(g.start), c) \in T
                      /\ Rec(Weekday(g.start), c).weekday = Weekday(g.start)
    OBVIOUS
  <2>1. c \in currencies(D)
    BY DEF currencies
  <2>2. Rec(Weekday(g.start), c) \in WeekdayBreakdown(from, to)
    BY <1>1, <1>7, <2>1
  <2>3. QED
    BY <1>2, <2>2
<1>9. \A t \in T : part[t] = Of(t.weekday, c) /\ t.amount = Total(part[t])
  <2> TAKE t \in T
  <2>1. part[t] = Of(t.weekday, t.currency)
    OBVIOUS
  <2> HIDE DEF T, part, Of
  <2>2. QED
    BY <1>2, <1>5, <2>1
<1>10. IsFiniteSet(T)
  <2>1. \A t \in T : t.weekday \in 0 .. 6
    BY <1>5
  <2>2. IsFiniteSet(0 .. 6)
    <3>1. 0 \in Int /\ 6 \in Int
      OBVIOUS
    <3>2. QED
      BY <3>1, FS_Interval
  <2> DEFINE f == [t \in T |-> t.weekday]
  <2>3. f \in [T -> 0 .. 6] /\ \A t, u \in T : f[t] = f[u] => t = u
    <3> HIDE DEF T, D
    <3>1. QED
      BY <1>6, <2>1
  <2> HIDE DEF f, T, D
  <2>4. QED
    BY <2>2, <2>3, LabelsBound
<1> HIDE DEF T, D, part
<1>11. Parted(part, T, CategoryRows("day"))
  BY <1>4, <1>6, <1>9 DEF Parted
<1>12. Together(part, T) = InCurrency(D, c)
  BY <1>8, <1>9 DEF Together, InCurrency
<1>13. [x \in T |-> x.amount] = [x \in T |-> Total(part[x])]
  BY <1>9
<1>14. Sum([t \in T |-> Total(part[t])]) = Total(Together(part, T))
  BY <1>3, <1>10, <1>11, GroupsAddUp
<1>15. QED
  BY <1>12, <1>13, <1>14 DEF T, D

(* TopCategoryChanges, when no more than it lists are there. *)
FewGroups == IsFiniteSet(Pairs) /\ Cardinality(Pairs) <= 50

LEMMA SmallerOf ==
    ASSUME NEW a \in Int, NEW b \in Int
    PROVE  Min({a, b}) = IF a < b THEN a ELSE b
<1>1. PICK m \in {a, b} : \A y \in {a, b} : m =< y
  OBVIOUS
<1>2. Min({a, b}) \in {a, b} /\ \A y \in {a, b} : Min({a, b}) =< y
  BY <1>1, Zenon DEF Min
<1>3. PICK n : n = Min({a, b})
  OBVIOUS
<1>4. QED
  BY <1>2, <1>3

(* The best of no more than asked for are all. *)
Best(changes, limit) ==
    CHOOSE top \in SUBSET changes :
       /\ Cardinality(top) = Min({limit, Cardinality(changes)})
       /\ \A x \in top, y \in changes \ top : x.current >= y.current

LEMMA BestOfFew ==
    ASSUME NEW changes, IsFiniteSet(changes), NEW limit \in Nat, Cardinality(changes) <= limit
    PROVE  Best(changes, limit) = changes
<1>1. Cardinality(changes) \in Nat
  BY FS_CardinalityType
<1>2. Min({limit, Cardinality(changes)}) = Cardinality(changes)
  BY <1>1, SmallerOf
<1>3. \E top \in SUBSET changes : /\ Cardinality(top) = Min({limit, Cardinality(changes)})
                                   /\ \A x \in top, y \in changes \ top : x.current >= y.current
  <2>1. changes \in SUBSET changes /\ changes \ changes = {}
    OBVIOUS
  <2>2. QED
    BY <1>2, <2>1
<1>4. /\ Best(changes, limit) \in SUBSET changes
      /\ Cardinality(Best(changes, limit)) = Min({limit, Cardinality(changes)})
  BY <1>3, Zenon DEF Best
<1>5. QED
  BY <1>2, <1>4, FS_Subset

LEMMA CategoriesAddUp ==
    ASSUME RecordsOK, RollupsOK, KeysOK, FewGroups, NEW p \in AnalyticsPeriods, NEW c,
           NEW s, s = RollupPeriodStart(p, today)
    PROVE  Sum([x \in {d \in TopCategoryChanges(p, 50) : d.currency = c} |-> x.current])
             = Total(InCurrency(ListExpenseRollups(p, s, s), c))
<1> DEFINE q == previousPeriodStart(p, s)
           D == ListExpenseRollups(p, s, s)
           E == ListExpenseRollups(p, q, q)
           Of(rows, id, cur) == {k \in rows : k.id = id /\ k.currency = cur}
           Rec(id, cur) == [id |-> id, currency |-> cur, current |-> Total(Of(D, id, cur)),
                            previous |-> Total(Of(E, id, cur)), count |-> Count(Of(D, id, cur))]
           all == {Rec(g.id, g.currency) : g \in D \cup E}
           T == {d \in all : d.currency = c}
           part == [t \in T |-> Of(D, t.id, t.currency)]
<1>1. TopCategoryChanges(p, 50) = Best(all, 50)
  BY DEF TopCategoryChanges, Best
<1>2. \A id, cur : /\ Rec(id, cur).id = id /\ Rec(id, cur).currency = cur
                    /\ Rec(id, cur).current = Total(Of(D, id, cur))
  OBVIOUS
<1>3. D \in SUBSET CategoryRows(p) /\ E \in SUBSET CategoryRows(p)
  BY ListedRows
<1>4. \A g \in D \cup E : <<g.id, g.currency>> \in Pairs
  BY <1>3 DEF KeysOK
<1> HIDE DEF Rec, D, E
<1>5. \A t \in all : t = Rec(t.id, t.currency) /\ <<t.id, t.currency>> \in Pairs
  <2> TAKE t \in all
  <2>1. PICK g \in D \cup E : t = Rec(g.id, g.currency)
    OBVIOUS
  <2>2. t.id = g.id /\ t.currency = g.currency
    BY <1>2, <2>1
  <2>3. QED
    BY <1>4, <2>1, <2>2
<1>6. IsFiniteSet(all) /\ Cardinality(all) <= Cardinality(Pairs)
  <2> DEFINE f == [t \in all |-> <<t.id, t.currency>>]
  <2> HIDE DEF all
  <2>1. f \in [all -> Pairs] /\ \A t, u \in all : f[t] = f[u] => t = u
    BY <1>5
  <2> HIDE DEF f
  <2>2. QED
    BY <2>1, LabelsBound DEF FewGroups
<1>7. Best(all, 50) = all
  <2>1. Cardinality(all) \in Nat /\ Cardinality(Pairs) \in Nat
    BY <1>6, FS_CardinalityType DEF FewGroups
  <2> HIDE DEF all
  <2>2. QED
    BY <1>6, <2>1, BestOfFew DEF FewGroups
<1>8. IsFiniteSet(T)
  <2>1. T \in SUBSET all
    OBVIOUS
  <2> HIDE DEF T, all
  <2>2. QED
    BY <1>6, <2>1, FS_Subset
<1>9. \A t, u \in T : t.id = u.id => t = u
  <2> HIDE DEF all
  <2>1. QED
    BY <1>5
<1>10. \A g \in D : g.currency = c => \E t \in T : t.id = g.id
  <2> SUFFICES ASSUME NEW g \in D, g.currency = c
               PROVE  Rec(g.id, c) \in T /\ Rec(g.id, c).id = g.id
    OBVIOUS
  <2>1. Rec(g.id, c) \in all
    OBVIOUS
  <2>2. QED
    BY <1>2, <2>1
<1>11. \A t \in T : part[t] = Of(D, t.id, c) /\ t.current = Total(part[t])
  <2> TAKE t \in T
  <2>1. part[t] = Of(D, t.id, t.currency) /\ t \in all /\ t.currency = c
    OBVIOUS
  <2>2. t = Rec(t.id, c)
    BY <1>5, <2>1
  <2> HIDE DEF T, part, Of, all
  <2>3. t.current = Total(Of(D, t.id, c))
    BY <1>2, <2>2
  <2>4. QED
    BY <2>1, <2>3
<1> HIDE DEF T, part, all
<1>12. Parted(part, T, CategoryRows(p))
  BY <1>3, <1>9, <1>11 DEF Parted
<1>13. Together(part, T) = InCurrency(D, c)
  BY <1>10, <1>11 DEF Together, InCurrency
<1>14. [x \in T |-> x.current] = [x \in T |-> Total(part[x])]
  BY <1>11
<1>15. Sum([t \in T |-> Total(part[t])]) = Total(Together(part, T))
  BY <1>8, <1>12, GroupsAddUp
<1>16. {d \in TopCategoryChanges(p, 50) : d.currency = c} = T
  BY <1>1, <1>7 DEF T
<1>17. QED
  BY <1>13, <1>14, <1>15, <1>16 DEF D

(* sumByCurrency and ComparePeriods: a currency without rows has none. *)
LEMMA TotalOfNone == Total({}) = 0
BY SumOfNone DEF Total

LEMMA SpentIs ==
    ASSUME NEW R, NEW c
    PROVE  At(sumByCurrency(R), c) = Total(InCurrency(R, c))
<1>1. CASE c \in currencies(R)
  BY <1>1 DEF At, sumByCurrency, InCurrency
<1>2. CASE c \notin currencies(R)
  <2>1. InCurrency(R, c) = {}
    BY <1>2 DEF InCurrency, currencies
  <2>2. QED
    BY <1>2, <2>1, TotalOfNone DEF At, sumByCurrency
<1>3. QED
  BY <1>1, <1>2

CurrentOf(p, c) == IF c \in DOMAIN ComparePeriods(p) THEN ComparePeriods(p)[c].current ELSE 0

LEMMA CurrentIs ==
    ASSUME NEW p, NEW c, NEW s, s = RollupPeriodStart(p, today)
    PROVE  /\ CurrentOf(p, c) = Total(InCurrency(ListExpenseRollups(p, s, s), c))
           /\ currencies(ListExpenseRollups(p, s, s)) \subseteq DOMAIN ComparePeriods(p)
<1> DEFINE now    == sumByCurrency(ListExpenseRollups(p, s, s))
           q      == previousPeriodStart(p, s)
           before == sumByCurrency(ListExpenseRollups(p, q, q))
<1>1. ComparePeriods(p) = [d \in DOMAIN now \cup DOMAIN before |->
                             [current |-> At(now, d), previous |-> At(before, d)]]
  BY DEF ComparePeriods
<1>2. DOMAIN now = currencies(ListExpenseRollups(p, s, s))
  BY DEF sumByCurrency
<1>3. At(now, c) = Total(InCurrency(ListExpenseRollups(p, s, s), c))
  BY SpentIs
<1>4. c \notin DOMAIN now => At(now, c) = 0
  BY DEF At
<1> HIDE DEF now, before
<1>5. QED
  BY <1>1, <1>2, <1>3, <1>4 DEF CurrentOf

LEMMA HomeListed ==
    ASSUME RecordsOK, RollupsOK, NEW p \in AnalyticsPeriods, NEW x \in Expenses,
           Active(contributions, x), NEW from, NEW to
    PROVE  /\ Home(x, p) \in ListExpenseRollups(p, from, to)
                 <=> /\ RollupPeriodStart(p, contributions[x].body.day) >= from
                     /\ RollupPeriodStart(p, contributions[x].body.day) <= to
           /\ Home(x, p).currency = contributions[x].body.currency
           /\ Home(x, p).id = contributions[x].body.category
           /\ contributions[x].body.day \in Int
<1>1. Home(x, p) \in CategoryRows(p)
  BY HomeThere
<1>2. /\ Home(x, p).start = RollupPeriodStart(p, contributions[x].body.day)
      /\ Home(x, p).currency = contributions[x].body.currency
      /\ Home(x, p).id = contributions[x].body.category
  BY DEF Home, Bucket
<1>3. contributions[x].body.day \in Int
  BY ActiveRow DEF RecordsOK, Bills
<1>4. QED
  BY <1>1, <1>2, <1>3, ListedRows

(* A period holds what its days hold. *)
LEMMA PeriodIsItsDays ==
    ASSUME RecordsOK, RollupsOK, KeysOK, today \in Int, NEW p \in AnalyticsPeriods,
           NEW s, NEW e, Spans(p, today, s, e), NEW c
    PROVE  Total(InCurrency(ListExpenseRollups(p, s, s), c))
             = Total(InCurrency(ListExpenseRollups("day", s, e - 1), c))
<1> DEFINE P == InCurrency(ListExpenseRollups(p, s, s), c)
           D == InCurrency(ListExpenseRollups("day", s, e - 1), c)
<1>1. "day" \in AnalyticsPeriods
  BY DEF AnalyticsPeriods
<1>2. s \in Int /\ e \in Int
  BY SpanIs
<1>3. P \in SUBSET CategoryRows(p) /\ D \in SUBSET CategoryRows("day")
  BY ListedRows DEF InCurrency
<1>4. ASSUME NEW x \in Expenses, Active(contributions, x)
      PROVE  Home(x, p) \in P <=> Home(x, "day") \in D
  <2>1. PICK d : d = contributions[x].body.day
    OBVIOUS
  <2>2. d \in Int /\ RollupPeriodStart("day", d) = d
    BY <1>4, <2>1, HomeListed, RollupIs
  <2>3. PICK a, b \in Int : Tiles(p, d, a, b)
    BY <2>2, PeriodTiles
  <2>4. RollupPeriodStart(p, d) \in Int
    BY <2>3 DEF Tiles
  <2>5. Home(x, p) \in P <=> /\ RollupPeriodStart(p, d) >= s /\ RollupPeriodStart(p, d) <= s
                              /\ contributions[x].body.currency = c
    BY <1>4, <2>1, HomeListed DEF InCurrency
  <2>6. Home(x, "day") \in D <=> d >= s /\ d <= e - 1 /\ contributions[x].body.currency = c
    BY <1>1, <1>4, <2>1, <2>2, HomeListed DEF InCurrency
  <2>7. RollupPeriodStart(p, d) = s <=> s <= d /\ d < e
    BY <2>2, SpanHolds
  <2>8. QED
    BY <1>2, <2>2, <2>4, <2>5, <2>6, <2>7
<1>5. Homed(p, P) = Homed("day", D)
  BY <1>4 DEF Homed
<1> HIDE DEF P, D
<1>6. Total(P) = Total(D)
  BY <1>1, <1>3, <1>5, TotalIs
<1>7. QED
  BY <1>6 DEF P, D

(* BurnRate extrapolates what was spent. *)
LEMMA RateIs ==
    ASSUME RecordsOK, RollupsOK, KeysOK, today \in Int, NEW p \in AnalyticsPeriods,
           NEW s, NEW e, Spans(p, today, s, e), NEW c \in DOMAIN BurnRate(p)
    PROVE  /\ BurnRate(p)[c].spent = Total(InCurrency(ListExpenseRollups(p, s, s), c))
           /\ BurnRate(p)[c].elapsed \in 1 .. BurnRate(p)[c].total
           /\ BurnRate(p)[c].elapsed = BurnRate(p)[c].total
                 => BurnRate(p)[c].projected <= BurnRate(p)[c].spent
<1> DEFINE total   == Max({1, e - s})
           elapsed == Max({1, Min({today - s + 1, total})})
           spent   == At(sumByCurrency(ListExpenseRollups(p, s, s)), c)
<1>1. s = RollupPeriodStart(p, today) /\ e = periodEnd(p, s)
  BY DEF Spans
<1>2. /\ BurnRate(p)[c].spent = spent /\ BurnRate(p)[c].elapsed = elapsed
      /\ BurnRate(p)[c].total = total /\ BurnRate(p)[c].projected = (spent \div elapsed) * total
  BY <1>1 DEF BurnRate
<1>3. spent = Total(InCurrency(ListExpenseRollups(p, s, s), c))
  BY SpentIs
<1>4. spent \in Int
  <2>1. InCurrency(ListExpenseRollups(p, s, s), c) \in SUBSET CategoryRows(p)
    BY ListedRows DEF InCurrency
  <2>2. PICK R : R = InCurrency(ListExpenseRollups(p, s, s), c)
    OBVIOUS
  <2>3. Total(R) = Part(Worth, Homed(p, R)) /\ Homed(p, R) \in SUBSET Expenses
    BY <2>1, <2>2, TotalIs DEF Homed
  <2>4. QED
    BY <1>3, <2>2, <2>3, WorthIs, PartType
<1>5. s \in Int /\ e \in Int /\ s <= today /\ today < e
  BY SpanIs
<1>6. total = e - s
  BY <1>5, LargerOf
<1>7. elapsed = today - s + 1
  <2>1. Min({today - s + 1, total}) = today - s + 1
    <3>1. today - s + 1 \in Int /\ e - s \in Int /\ today - s + 1 <= e - s
      BY <1>5
    <3>2. QED
      BY <1>6, <3>1, SmallerOf
  <2>2. today - s + 1 \in Int /\ today - s + 1 >= 1
    BY <1>5
  <2>3. PICK n \in Int : n = today - s + 1
    BY <2>2
  <2>4. n >= 1 /\ Max({1, n}) = IF 1 > n THEN 1 ELSE n
    BY <2>2, <2>3, LargerOf
  <2>5. elapsed = Max({1, n})
    BY <2>1, <2>3
  <2> HIDE DEF elapsed, total
  <2>6. QED
    BY <2>3, <2>4, <2>5
<1> HIDE DEF total, elapsed, spent
<1>8. \A n \in Int : n > 0 => (spent \div n) * n <= spent
  BY <1>4
<1>9. elapsed \in 1 .. total
  BY <1>5, <1>6, <1>7
<1>10. elapsed = total => (spent \div elapsed) * total <= spent
  BY <1>5, <1>6, <1>7, <1>8
<1>11. QED
  BY <1>2, <1>3, <1>9, <1>10

(* The currencies of a comparison add up to the rows of the period. *)
LEMMA CurrenciesAddUp ==
    ASSUME RecordsOK, RollupsOK, KeysOK, NEW p \in AnalyticsPeriods,
           NEW s, s = RollupPeriodStart(p, today)
    PROVE  Sum([c \in DOMAIN ComparePeriods(p) |-> CurrentOf(p, c)])
             = Total(ListExpenseRollups(p, s, s))
<1> DEFINE M == ListExpenseRollups(p, s, s)
           q == previousPeriodStart(p, s)
           E == ListExpenseRollups(p, q, q)
           T == DOMAIN ComparePeriods(p)
           part == [c \in T |-> InCurrency(M, c)]
<1>1. T = currencies(M) \cup currencies(E)
  BY DEF ComparePeriods, sumByCurrency
<1>2. M \in SUBSET CategoryRows(p) /\ IsFiniteSet(M) /\ IsFiniteSet(E)
  BY ListedRows, ListedFinite
<1>3. IsFiniteSet(T)
  <2>1. ASSUME NEW R, IsFiniteSet(R) PROVE IsFiniteSet(currencies(R))
    <3> DEFINE f == [k \in R |-> k.currency]
    <3>1. currencies(R) = {f[k] : k \in R}
      BY DEF currencies
    <3> HIDE DEF f
    <3>2. QED
      BY <2>1, <3>1, RangeFinite
  <2> HIDE DEF T, M, E
  <2>2. IsFiniteSet(currencies(M)) /\ IsFiniteSet(currencies(E))
    BY <1>2, <2>1
  <2>3. QED
    BY <1>1, <2>2, FS_Union
<1>4. \A c \in T : CurrentOf(p, c) = Total(part[c]) /\ part[c] = InCurrency(M, c)
  <2> TAKE c \in T
  <2>1. part[c] = InCurrency(M, c)
    OBVIOUS
  <2>2. CurrentOf(p, c) = Total(InCurrency(M, c))
    BY CurrentIs
  <2>3. QED
    BY <2>1, <2>2
<1>5. Together(part, T) = M
  <2>1. \A k \in M : k.currency \in T
    <3> HIDE DEF T, M, E
    <3>1. QED
      BY <1>1 DEF currencies
  <2> HIDE DEF T, M, part
  <2>2. QED
    BY <1>4, <2>1 DEF Together, InCurrency
<1> HIDE DEF part, T, M
<1>6. Parted(part, T, CategoryRows(p))
  BY <1>2, <1>4 DEF Parted, InCurrency
<1>7. Sum([c \in T |-> Total(part[c])]) = Total(M)
  BY <1>3, <1>5, <1>6, GroupsAddUp
<1>8. [c \in T |-> Total(part[c])] = [c \in T |-> CurrentOf(p, c)]
  BY <1>4
<1>9. QED
  BY <1>7, <1>8 DEF T, M

(* ListBudgetSuggestions: no category spends more than the month. *)
LEMMA SuggestedIsLess ==
    ASSUME RecordsOK, RollupsOK, KeysOK, today \in Int, NEW v \in ListBudgetSuggestions,
           NEW s, NEW e, Spans("month", today, s, e)
    PROVE  v.spent <= Total(ListExpenseRollups("month", s, s))
<1> DEFINE M == ListExpenseRollups("month", s, s)
           R == ListExpenseRollups("month", s, today)
<1>1. "month" \in AnalyticsPeriods /\ s = RollupPeriodStart("month", today)
  BY DEF AnalyticsPeriods, Spans
<1>2. PICK b \in Budgets : v.spent = Total({k \in R : k.id = budgets[b].body.category})
  BY <1>1 DEF ListBudgetSuggestions
<1>3. PICK W : W = {k \in R : k.id = budgets[b].body.category}
  OBVIOUS
<1>4. M \in SUBSET CategoryRows("month") /\ W \in SUBSET CategoryRows("month")
  BY <1>3, ListedRows
<1>5. s \in Int /\ e \in Int /\ s <= today /\ today < e
  BY <1>1, SpanIs
<1>6. ASSUME NEW x \in Expenses, Active(contributions, x), Home(x, "month") \in W
      PROVE  Home(x, "month") \in M
  <2>1. PICK d : d = contributions[x].body.day
    OBVIOUS
  <2>2. d \in Int
    BY <1>1, <1>6, <2>1, HomeListed
  <2>3. PICK r : r = RollupPeriodStart("month", d)
    OBVIOUS
  <2>4. PICK a, z \in Int : Tiles("month", d, a, z)
    BY <1>1, <2>2, PeriodTiles
  <2>5. r \in Int /\ RollupPeriodStart("month", r) = r
    BY <2>3, <2>4 DEF Tiles
  <2>6. Home(x, "month") \in R
    BY <1>3, <1>6
  <2>7. r >= s /\ r <= today
    BY <1>1, <1>6, <2>1, <2>3, <2>6, HomeListed
  <2>8. RollupPeriodStart("month", r) = s <=> s <= r /\ r < e
    BY <1>1, <2>5, SpanHolds
  <2>9. r = s
    BY <1>5, <2>5, <2>7, <2>8
  <2>10. QED
    BY <1>1, <1>5, <1>6, <2>1, <2>3, <2>9, HomeListed
<1>7. Homed("month", W) \subseteq Homed("month", M)
  BY <1>6 DEF Homed
<1>8. Homed("month", W) \in SUBSET Expenses /\ Homed("month", M) \in SUBSET Expenses
  BY DEF Homed
<1>9. Part(Worth, Homed("month", W)) <= Part(Worth, Homed("month", M))
  <2> HIDE DEF M
  <2>1. PICK A, B : A = Homed("month", W) /\ B = Homed("month", M)
    OBVIOUS
  <2>2. QED
    BY <1>7, <1>8, <2>1, WorthIs, PartIsLess
<1> HIDE DEF M, R
<1>10. QED
  BY <1>1, <1>2, <1>3, <1>4, <1>9, TotalIs DEF M

(* DashboardAgrees. *)
LEMMA DashboardHolds ==
    ASSUME RecordsOK, RollupsOK, KeysOK, FewGroups, today \in Int
    PROVE  DashboardAgrees
<1> SUFFICES ASSUME NEW p \in AnalyticsPeriods
             PROVE  LET start == RollupPeriodStart(p, today)
                        end   == periodEnd(p, start)
                        days  == DailyTotals(start, end - 1)
                        Amounts(S) == Sum([x \in S |-> x.amount])
                        compare == ComparePeriods(p)
                        Amount(c) == IF c \in DOMAIN compare THEN compare[c].current ELSE 0
                        Of(S, c)   == {x \in S : x.currency = c}
                    IN  /\ start <= today /\ today < end
                        /\ \A c \in DOMAIN compare \cup {d.currency : d \in days} :
                              /\ Amount(c) = Amounts(Of(days, c))
                              /\ Amount(c) = Amounts(Of(WeekdayBreakdown(start, end - 1), c))
                              /\ Amount(c) = Sum([x \in Of(TopCategoryChanges(p, 50), c) |-> x.current])
                        /\ \A c \in DOMAIN BurnRate(p) :
                              LET rate == BurnRate(p)[c]
                              IN  /\ rate.spent = Amount(c)
                                  /\ rate.elapsed \in 1 .. rate.total
                                  /\ rate.elapsed = rate.total => rate.projected <= rate.spent
                        /\ \A v \in ListBudgetSuggestions :
                              p = "month" => v.spent <= Sum([c \in DOMAIN compare |-> Amount(c)])
  BY Zenon DEF DashboardAgrees
<1> DEFINE s == RollupPeriodStart(p, today)
           e == periodEnd(p, s)
           Days(c) == {d \in DailyTotals(s, e - 1) : d.currency = c}
           Weekdays(c) == {d \in WeekdayBreakdown(s, e - 1) : d.currency = c}
           Changes(c) == {d \in TopCategoryChanges(p, 50) : d.currency = c}
<1>1. Spans(p, today, s, e)
  BY DEF Spans
<1>2. s <= today /\ today < e
  <2> HIDE DEF s, e
  <2>1. QED
    BY <1>1, SpanIs
<1>3. \A c : CurrentOf(p, c) = Total(InCurrency(ListExpenseRollups(p, s, s), c))
  BY CurrentIs
<1>4. \A c : CurrentOf(p, c) = Total(InCurrency(ListExpenseRollups("day", s, e - 1), c))
  <2> HIDE DEF s, e
  <2>1. QED
    BY <1>1, <1>3, PeriodIsItsDays
<1>5. \A c : CurrentOf(p, c) = Sum([x \in Days(c) |-> x.amount])
  <2> HIDE DEF s, e
  <2>1. QED
    BY <1>4, DaysAddUp
<1>6. \A c : CurrentOf(p, c) = Sum([x \in Weekdays(c) |-> x.amount])
  <2> HIDE DEF s, e
  <2>1. QED
    BY <1>4, WeekdaysAddUp
<1>7. \A c : CurrentOf(p, c) = Sum([x \in Changes(c) |-> x.current])
  BY <1>3, CategoriesAddUp
<1>8. \A c \in DOMAIN BurnRate(p) :
         /\ BurnRate(p)[c].spent = CurrentOf(p, c)
         /\ BurnRate(p)[c].elapsed \in 1 .. BurnRate(p)[c].total
         /\ BurnRate(p)[c].elapsed = BurnRate(p)[c].total
               => BurnRate(p)[c].projected <= BurnRate(p)[c].spent
  <2> HIDE DEF s, e
  <2>1. QED
    BY <1>1, <1>3, RateIs
<1>9. ASSUME NEW v \in ListBudgetSuggestions
      PROVE  p = "month" => v.spent <= Sum([c \in DOMAIN ComparePeriods(p) |-> CurrentOf(p, c)])
  <2>1. Sum([c \in DOMAIN ComparePeriods(p) |-> CurrentOf(p, c)]) = Total(ListExpenseRollups(p, s, s))
    BY CurrenciesAddUp
  <2> HIDE DEF s, e
  <2>2. p = "month" => v.spent <= Total(ListExpenseRollups(p, s, s))
    BY <1>1, <1>9, SuggestedIsLess
  <2>3. QED
    BY <2>1, <2>2
<1>10. \A c : CurrentOf(p, c)
                = IF c \in DOMAIN ComparePeriods(p) THEN ComparePeriods(p)[c].current ELSE 0
  BY DEF CurrentOf
<1>11. [c \in DOMAIN ComparePeriods(p) |-> CurrentOf(p, c)]
          = [c \in DOMAIN ComparePeriods(p) |->
               IF c \in DOMAIN ComparePeriods(p) THEN ComparePeriods(p)[c].current ELSE 0]
  BY DEF CurrentOf
<1>12. QED
  BY <1>2, <1>5, <1>6, <1>7, <1>8, <1>9, <1>10, <1>11, ZenonT(60)

-----------------------------------------------------------------------------
(* What the queries need of the rows, in every state. *)

RowsOf(r, p) == {k \in DOMAIN r : k.dimension = "category" /\ k.period = p}
KeysGood(r) ==
    \A p \in AnalyticsPeriods :
       /\ IsFiniteSet(RowsOf(r, p))
       /\ \A k \in RowsOf(r, p) : k.start \in Int /\ <<k.id, k.currency>> \in Pairs

LEMMA KeysAre == KeysOK <=> KeysGood(rollups)
BY DEF KeysOK, KeysGood, RowsOf, CategoryRows

(* adjust adds at most one row of a category to each period. *)
LEMMA AdjustKeys ==
    ASSUME NEW r, KeysGood(r), NEW c \in Bills, NEW d
    PROVE  KeysGood(adjust(r, c, d))
<1> SUFFICES ASSUME NEW p \in AnalyticsPeriods
             PROVE  /\ IsFiniteSet(RowsOf(adjust(r, c, d), p))
                    /\ \A k \in RowsOf(adjust(r, c, d), p) :
                          k.start \in Int /\ <<k.id, k.currency>> \in Pairs
  BY DEF KeysGood
<1>1. PICK h : h = Bucket(c, "category", c.category, p)
  OBVIOUS
<1>2. ASSUME NEW k \in RowsOf(adjust(r, c, d), p)
      PROVE  k \in RowsOf(r, p) \/ k = h
  <2>1. k \in DOMAIN r \/ k \in Buckets(c)
    BY <1>2 DEF RowsOf, adjust
  <2>2. k.dimension = "category" /\ k.period = p
    BY <1>2 DEF RowsOf
  <2>3. CASE k \in DOMAIN r
    BY <2>2, <2>3 DEF RowsOf
  <2>4. CASE k \in Buckets(c)
    <3>1. PICK q \in AnalyticsPeriods :
              \/ k = Bucket(c, "category", c.category, q)
              \/ \E i \in DOMAIN c.tags : k = Bucket(c, "tag", c.tags[i], q)
      BY <2>4 DEF Buckets
    <3>2. k = Bucket(c, "category", c.category, q)
      BY <2>2, <3>1 DEF Bucket
    <3>3. q = p
      BY <2>2, <3>2 DEF Bucket
    <3>4. QED
      BY <1>1, <3>2, <3>3
  <2>5. QED
    BY <2>1, <2>3, <2>4
<1>3. h.start \in Int /\ <<h.id, h.currency>> \in Pairs
  <2>1. c.day \in Int
    BY DEF Bills
  <2>2. PICK a, b \in Int : Tiles(p, c.day, a, b)
    BY <2>1, PeriodTiles
  <2>3. RollupPeriodStart(p, c.day) \in Int
    BY <2>2 DEF Tiles
  <2>4. h.start = RollupPeriodStart(p, c.day) /\ h.id = c.category /\ h.currency = c.currency
    BY <1>1 DEF Bucket
  <2>5. QED
    BY <2>3, <2>4 DEF Pairs
<1>4. IsFiniteSet(RowsOf(r, p)) /\ \A k \in RowsOf(r, p) : k.start \in Int /\ <<k.id, k.currency>> \in Pairs
  BY DEF KeysGood
<1>5. IsFiniteSet(RowsOf(r, p) \cup {h})
  BY <1>4, FS_AddElement
<1>6. RowsOf(adjust(r, c, d), p) \subseteq RowsOf(r, p) \cup {h}
  BY <1>2
<1>7. IsFiniteSet(RowsOf(adjust(r, c, d), p))
  BY <1>5, <1>6, FS_Subset
<1>8. QED
  BY <1>2, <1>3, <1>4, <1>7

LEMMA KeysKept ==
    ASSUME FeedOK, RecordsOK, KeysOK, NEW x \in Expenses, NEW n \in 1 .. Len(events[x]),
           AnalyticsHandle(x, events[x][n])
    PROVE  KeysOK'
<1> DEFINE e == events[x][n]
<1>1. KeysGood(rollups) /\ contributions \in [Expenses -> Rows]
  BY KeysAre DEF RecordsOK
<1>2. KeysGood(Reverse(contributions[x]))
  <2>1. CASE Active(contributions, x)
    <3>1. contributions[x].body \in Bills
      BY <1>1, <2>1, ActiveRow
    <3>2. QED
      BY <1>1, <2>1, <3>1, AdjustKeys DEF Reverse, Active
  <2>2. CASE ~Active(contributions, x)
    BY <1>1, <2>2 DEF Reverse, Active
  <2>3. QED
    BY <2>1, <2>2
<1>3. e.type # "removed" => e.body \in Bills
  BY DEF FeedOK
<1>4. rollups' = Reverse(contributions[x])
        \/ (e.type # "removed" /\ rollups' = adjust(Reverse(contributions[x]), e.body, 1))
  <2>1. CASE e.type = "removed"
    BY <2>1 DEF AnalyticsHandle, DecodeExpenseContribution
  <2>2. CASE e.type # "removed"
    BY <2>2 DEF AnalyticsHandle, DecodeExpenseContribution
  <2>3. QED
    BY <2>1, <2>2
<1>5. PICK r : r = Reverse(contributions[x])
  OBVIOUS
<1> HIDE DEF e
<1>6. KeysGood(rollups')
  <2>1. KeysGood(r)
    BY <1>2, <1>5
  <2>2. e.type # "removed" => KeysGood(adjust(r, e.body, 1))
    BY <1>3, <2>1, AdjustKeys
  <2>3. QED
    BY <1>4, <1>5, <2>1, <2>2
<1>7. QED
  BY <1>6, KeysAre DEF KeysOK, KeysGood, RowsOf, CategoryRows

(* The mirror is what the events delivered to the budgets left, and a       *)
(* transaction brings it to the next one.                                   *)
MirrorGood(x) ==
    /\ delivered["budget_usage"][x] <= Len(events[x])
    /\ Active(mirror, x) <=> x \in Counted("budget_usage")
    /\ Active(mirror, x) => mirror[x].body = BodyAt("budget_usage", x)
Brings(own, row, e) ==
    IF e.type = "removed" THEN ~(own.found /\ own.active) /\ (row.found => own.found)
    ELSE own = [found |-> TRUE, active |-> TRUE, body |-> e.body]
OwnGood(t) ==
    /\ t.drop => t.aggregate \in Budgets
    /\ t.aggregate \in Expenses =>
          /\ delivered["budget_usage"][t.aggregate] < Len(events[t.aggregate])
          /\ Brings(t.own, mirror[t.aggregate], NextEvent("budget_usage", t.aggregate))
MirrorOK ==
    /\ \A x \in Expenses : MirrorGood(x)
    /\ \A w \in Workers : tx[w].busy => OwnGood(tx[w])
ReadsInv == KeysOK /\ MirrorOK

(* Nothing of the mirror changes when it, the deliveries and the            *)
(* transactions' rows do not.                                               *)
SameWork ==
    \A w \in Workers : tx'[w].busy =>
       /\ tx[w].busy /\ tx'[w].drop = tx[w].drop
       /\ tx'[w].aggregate = tx[w].aggregate /\ tx'[w].own = tx[w].own

(* An event delivered or next stays what it is. *)
LEMMA DeliveredStays ==
    ASSUME FeedOK, Grown, NEW x \in Expenses, NEW n \in Nat, n <= Len(events[x])
    PROVE  n <= Len(events'[x]) /\ (n > 0 => events'[x][n] = events[x][n])
<1>1. Len(events[x]) \in Nat /\ x \in Aggregates
  BY LenProperties DEF FeedOK, Aggregates
<1>2. Len(events[x]) <= Len(events'[x])
  BY <1>1 DEF Grown
<1>3. QED
  BY <1>1, <1>2 DEF Grown

LEMMA MirrorGoodKept ==
    ASSUME FeedOK, FeedOK', Grown, NEW x \in Expenses, MirrorGood(x), mirror'[x] = mirror[x],
           delivered'["budget_usage"][x] = delivered["budget_usage"][x]
    PROVE  MirrorGood(x)'
<1>1. PICK n \in Nat : n = delivered["budget_usage"][x]
  BY DEF FeedOK, Subscriptions, Aggregates
<1>2. n <= Len(events[x]) /\ delivered'["budget_usage"][x] = n
  BY <1>1 DEF MirrorGood
<1>3. n <= Len(events'[x]) /\ (n > 0 => events'[x][n] = events[x][n])
  BY <1>2, DeliveredStays
<1>4. (x \in Counted("budget_usage"))' <=> x \in Counted("budget_usage")
  BY <1>1, <1>2, <1>3 DEF Counted
<1>5. x \in Counted("budget_usage") => BodyAt("budget_usage", x)' = BodyAt("budget_usage", x)
  BY <1>1, <1>2, <1>3 DEF Counted, BodyAt
<1>6. Active(mirror, x)' <=> Active(mirror, x)
  BY DEF Active
<1>7. QED
  BY <1>2, <1>3, <1>4, <1>5, <1>6 DEF MirrorGood

LEMMA OwnGoodKept ==
    ASSUME FeedOK, FeedOK', Grown, NEW t, OwnGood(t),
           t.aggregate \in Expenses => /\ mirror'[t.aggregate] = mirror[t.aggregate]
                                      /\ delivered'["budget_usage"][t.aggregate]
                                            = delivered["budget_usage"][t.aggregate]
    PROVE  OwnGood(t)'
<1>1. CASE t.aggregate \in Expenses
  <2>1. PICK x \in Expenses : x = t.aggregate
    BY <1>1
  <2>2. x \in Aggregates /\ Len(events[x]) \in Nat
    BY LenProperties DEF FeedOK, Aggregates
  <2>3. PICK n \in Nat : n = delivered["budget_usage"][x] + 1
    BY <2>2 DEF FeedOK, Subscriptions
  <2>4. delivered["budget_usage"][x] \in Nat /\ delivered["budget_usage"][x] < Len(events[x])
    BY <1>1, <2>1, <2>2 DEF OwnGood, FeedOK, Subscriptions
  <2>5. n <= Len(events[x]) /\ n > 0
    BY <2>2, <2>3, <2>4
  <2>6. n <= Len(events'[x]) /\ events'[x][n] = events[x][n] /\ Len(events'[x]) \in Nat
    BY <2>2, <2>5, DeliveredStays, LenProperties DEF FeedOK
  <2>7. NextEvent("budget_usage", x)' = NextEvent("budget_usage", x)
    BY <1>1, <2>1, <2>3, <2>6 DEF NextEvent
  <2>8. delivered'["budget_usage"][x] = delivered["budget_usage"][x] /\ mirror'[x] = mirror[x]
    BY <1>1, <2>1
  <2>9. delivered'["budget_usage"][x] < Len(events'[x])
    BY <2>3, <2>4, <2>6, <2>8
  <2>10. Brings(t.own, mirror[x], NextEvent("budget_usage", x))'
    BY <1>1, <2>1, <2>7, <2>8 DEF OwnGood, Brings
  <2>11. QED
    BY <2>1, <2>9, <2>10 DEF OwnGood
<1>2. CASE t.aggregate \notin Expenses
  BY <1>2 DEF OwnGood
<1>3. QED
  BY <1>1, <1>2

(* Workers that do not touch the row of an expense leave the mirror good. *)
Untouched(x) ==
    /\ mirror'[x] = mirror[x]
    /\ delivered'["budget_usage"][x] = delivered["budget_usage"][x]

LEMMA WorkKept ==
    ASSUME FeedOK, FeedOK', Grown, NEW v \in Workers, tx[v].busy, OwnGood(tx[v]),
           tx'[v].drop = tx[v].drop, tx'[v].aggregate = tx[v].aggregate, tx'[v].own = tx[v].own,
           tx[v].aggregate \in Expenses => Untouched(tx[v].aggregate)
    PROVE  OwnGood(tx[v])'
<1>1. PICK t : t = tx[v]
  OBVIOUS
<1>2. OwnGood(t)'
  BY <1>1, OwnGoodKept DEF Untouched
<1>3. PICK u : u = tx'[v]
  OBVIOUS
<1>4. OwnGood(u)'
  BY <1>1, <1>2, <1>3 DEF OwnGood
<1>5. QED
  BY <1>3, <1>4

LEMMA MirrorKept ==
    ASSUME FeedOK, FeedOK', Grown, MirrorOK, SameWork, \A x \in Expenses : Untouched(x)
    PROVE  MirrorOK'
<1>1. \A x \in Expenses : MirrorGood(x)'
  BY MirrorGoodKept DEF MirrorOK, Untouched
<1>2. \A w \in Workers : tx'[w].busy => OwnGood(tx[w])'
  BY WorkKept DEF MirrorOK, SameWork
<1>3. QED
  BY <1>1, <1>2 DEF MirrorOK

(* A transaction begins: the others stay as they are. *)
LEMMA MirrorKeptByOne ==
    ASSUME FeedOK, FeedOK', Grown, MirrorOK, NEW w \in Workers, NEW t, OwnGood(t),
           tx \in [Workers -> {Idle} \cup Transactions],
           tx' = [tx EXCEPT ![w] = t], \A x \in Expenses : Untouched(x)
    PROVE  MirrorOK'
<1>1. \A x \in Expenses : MirrorGood(x)'
  BY MirrorGoodKept DEF MirrorOK, Untouched
<1>2. tx'[w] = t /\ \A v \in Workers \ {w} : tx'[v] = tx[v]
  OBVIOUS
<1>3. OwnGood(tx[w])'
  <2>1. OwnGood(t)'
    BY OwnGoodKept DEF Untouched
  <2>2. QED
    BY <1>2, <2>1
<1>4. \A v \in Workers \ {w} : tx'[v].busy => OwnGood(tx[v])'
  BY <1>2, WorkKept DEF MirrorOK
<1>5. QED
  BY <1>1, <1>3, <1>4 DEF MirrorOK

LEMMA BeginExpenseMirrors ==
    ASSUME ProjectionsInv, ProjectionsInv', MirrorOK, NEW w \in Workers, NEW x \in Expenses,
           BeginExpense(w, x)
    PROVE  MirrorOK'
<1> DEFINE e == NextEvent("budget_usage", x)
           decoded == DecodeExpenseContribution(e)
           own == IF decoded.active THEN decoded
                  ELSE IF mirror[x].found THEN [mirror[x] EXCEPT !.active = FALSE] ELSE NoRow
<1>1. /\ HasNext("budget_usage", x) /\ Open(w, x, own, affectedWindows(mirror[x], own))
      /\ UNCHANGED <<events, budgets, delivered, mirror>>
  BY DEF BeginExpense, readModels
<1>2. FeedOK /\ FeedOK' /\ UsageTypeOK
  BY DEF ProjectionsInv, UsageInv
<1>3. Grown
  BY <1>1, <1>2, NothingGrows
<1>4. Brings(own, mirror[x], e)
  <2>1. CASE e.type # "removed"
    <3>1. decoded = [found |-> TRUE, active |-> TRUE, body |-> e.body]
      BY <2>1 DEF DecodeExpenseContribution
    <3>2. decoded.active = TRUE
      BY <3>1
    <3> HIDE DEF decoded
    <3>3. own = decoded
      BY <3>2
    <3> HIDE DEF own, e
    <3>4. QED
      BY <2>1, <3>1, <3>3 DEF Brings
  <2>2. CASE e.type = "removed"
    <3>1. decoded.active = FALSE
      BY <2>2 DEF DecodeExpenseContribution
    <3>2. mirror[x] \in Rows
      BY <1>2 DEF UsageTypeOK
    <3>3. CASE mirror[x].found
      <4>1. mirror[x] # NoRow
        BY <3>3 DEF NoRow
      <4>2. mirror[x] \in [found : {TRUE}, active : BOOLEAN, body : Bills]
        BY <3>2, <4>1 DEF Rows
      <4>3. own = [mirror[x] EXCEPT !.active = FALSE]
        BY <3>1, <3>3
      <4> HIDE DEF own, e, decoded
      <4>4. own.found /\ ~own.active
        BY <4>2, <4>3
      <4>5. QED
        BY <2>2, <4>4 DEF Brings
    <3>4. CASE ~mirror[x].found
      <4>1. own = NoRow
        BY <3>1, <3>4
      <4> HIDE DEF own, e, decoded
      <4>2. ~own.found
        BY <4>1 DEF NoRow
      <4>3. QED
        BY <2>2, <3>4, <4>2 DEF Brings
    <3>5. QED
      BY <3>3, <3>4
  <2>3. QED
    BY <2>1, <2>2
<1>5. PICK windows : windows = affectedWindows(mirror[x], own)
  OBVIOUS
<1>6. PICK row : row = own
  OBVIOUS
<1> HIDE DEF own
<1>7. PICK t : /\ tx' = [tx EXCEPT ![w] = t]
               /\ t.drop = FALSE /\ t.aggregate = x /\ t.own = row
  <2>1. Open(w, x, row, windows)
    BY <1>1, <1>5, <1>6
  <2> DEFINE t == [busy |-> TRUE, aggregate |-> x, replay |-> Replay("budget_usage", x),
                   own |-> row, drop |-> FALSE, stale |-> {},
                   todo |-> {[key |-> k, body |-> budgets[k.budget].body,
                              version |-> Len(events[k.budget])] : k \in windows},
                   read |-> Idle, writes |-> <<>>]
  <2>2. tx' = [tx EXCEPT ![w] = t]
    BY <2>1 DEF Open
  <2>3. t.drop = FALSE /\ t.aggregate = x /\ t.own = row
    OBVIOUS
  <2> HIDE DEF t
  <2>4. QED
    BY <2>2, <2>3
<1>8. OwnGood(t)
  BY <1>1, <1>4, <1>6, <1>7 DEF OwnGood, HasNext
<1>9. \A y \in Expenses : Untouched(y)
  BY <1>1 DEF Untouched
<1>10. tx \in [Workers -> {Idle} \cup Transactions]
  BY <1>2 DEF UsageTypeOK
<1>11. QED
  BY <1>2, <1>3, <1>7, <1>8, <1>9, <1>10, MirrorKeptByOne

LEMMA BeginBudgetMirrors ==
    ASSUME ProjectionsInv, ProjectionsInv', MirrorOK, NEW w \in Workers, NEW b \in Budgets,
           BeginBudget(w, b)
    PROVE  MirrorOK'
<1>1. UNCHANGED <<events, budgets, delivered, mirror>>
  BY DEF BeginBudget, readModels
<1>2. FeedOK /\ FeedOK' /\ UsageTypeOK
  BY DEF ProjectionsInv, UsageInv
<1>3. Grown
  BY <1>1, <1>2, NothingGrows
<1>4. PICK t : tx' = [tx EXCEPT ![w] = t] /\ t.aggregate = b
  <2> DEFINE T(drop, todo) ==
               [busy |-> TRUE, aggregate |-> b, replay |-> Replay("budget_usage", b),
                own |-> NoRow, drop |-> drop, stale |-> {}, todo |-> todo,
                read |-> Idle, writes |-> <<>>]
  <2>1. \E drop, todo : tx' = [tx EXCEPT ![w] = T(drop, todo)]
    <3>1. \/ tx' = [tx EXCEPT ![w] = T(TRUE, {})]
          \/ tx' = [tx EXCEPT ![w] =
                      T(FALSE, {[key |-> k, body |-> budgets[k.budget].body,
                                 version |-> Len(events[k.budget])] : k \in {Window(b, today)}})]
      BY Zenon DEF BeginBudget, Open
    <3> HIDE DEF T
    <3>2. QED
      BY <3>1
  <2>2. \A drop, todo : T(drop, todo).aggregate = b
    OBVIOUS
  <2> HIDE DEF T
  <2>3. QED
    BY <2>1, <2>2
<1>5. b \notin Expenses
  BY ProjectionsAssumption
<1>6. OwnGood(t)
  BY <1>4, <1>5 DEF OwnGood
<1>7. \A y \in Expenses : Untouched(y)
  BY <1>1 DEF Untouched
<1>8. tx \in [Workers -> {Idle} \cup Transactions]
  BY <1>2 DEF UsageTypeOK
<1>9. QED
  BY <1>2, <1>3, <1>4, <1>6, <1>7, <1>8, MirrorKeptByOne

(* Reading, writing and giving up leave what a transaction brings. *)
LEMMA WorkMirrors ==
    ASSUME ProjectionsInv, ProjectionsInv', MirrorOK, NEW w \in Workers,
           ReadSum(w) \/ ReadUsage(w) \/ SaveUsage(w) \/ DeadlockVictim(w) \/ Abort(w)
    PROVE  MirrorOK'
<1>1. UNCHANGED <<events, budgets, delivered, mirror>>
  BY DEF ReadSum, ReadUsage, SaveUsage, DeadlockVictim, Abort, readModels
<1>2. FeedOK /\ FeedOK' /\ UsageTypeOK
  BY DEF ProjectionsInv, UsageInv
<1>3. Grown
  BY <1>1, <1>2, NothingGrows
<1>4. tx \in [Workers -> {Idle} \cup Transactions] /\ tx[w].busy
  BY <1>2 DEF UsageTypeOK, ReadSum, ReadUsage, SaveUsage, DeadlockVictim, Abort
<1>5. tx[w] \in Transactions
  BY <1>2, <1>4, BusyTx
<1>6. SameWork
  <2>1. CASE ReadSum(w)
    <3>1. PICK q, r : tx' = [tx EXCEPT ![w].todo = q, ![w].read = r]
      BY <2>1 DEF ReadSum
    <3>2. /\ tx'[w].drop = tx[w].drop /\ tx'[w].aggregate = tx[w].aggregate /\ tx'[w].own = tx[w].own
          /\ \A v \in Workers \ {w} : tx'[v] = tx[v]
      BY <1>4, <1>5, <3>1 DEF Transactions
    <3>3. QED
      BY <1>4, <3>2 DEF SameWork
  <2>2. CASE ReadUsage(w)
    <3>1. PICK s : tx' = [tx EXCEPT ![w].read.loaded = TRUE, ![w].read.stored = s]
      BY <2>2 DEF ReadUsage
    <3>2. /\ tx'[w].drop = tx[w].drop /\ tx'[w].aggregate = tx[w].aggregate /\ tx'[w].own = tx[w].own
          /\ \A v \in Workers \ {w} : tx'[v] = tx[v]
      BY <1>4, <1>5, <3>1 DEF Transactions
    <3>3. QED
      BY <1>4, <3>2 DEF SameWork
  <2>3. CASE SaveUsage(w)
    <3>1. PICK q, r : tx' = [tx EXCEPT ![w].read = q, ![w].writes = r]
      BY <2>3 DEF SaveUsage
    <3>2. /\ tx'[w].drop = tx[w].drop /\ tx'[w].aggregate = tx[w].aggregate /\ tx'[w].own = tx[w].own
          /\ \A v \in Workers \ {w} : tx'[v] = tx[v]
      BY <1>4, <1>5, <3>1 DEF Transactions
    <3>3. QED
      BY <1>4, <3>2 DEF SameWork
  <2>4. CASE DeadlockVictim(w) \/ Abort(w)
    <3>1. tx' = [tx EXCEPT ![w] = Idle]
      BY <2>4 DEF DeadlockVictim, Abort
    <3>2. tx'[w] = Idle /\ \A v \in Workers \ {w} : tx'[v] = tx[v]
      BY <1>4, <3>1
    <3>3. QED
      BY <3>2, NotBusy DEF SameWork
  <2>5. QED
    BY <2>1, <2>2, <2>3, <2>4
<1>7. \A y \in Expenses : Untouched(y)
  BY <1>1 DEF Untouched
<1>8. QED
  BY <1>2, <1>3, <1>6, <1>7, MirrorKept

(* When a transaction ends, the others keep what they bring. *)
LEMMA OthersBring ==
    ASSUME FeedOK, FeedOK', Grown, MirrorOK, UsageTypeOK, NEW w \in Workers, tx[w].busy,
           NEW Z, tx' = [v \in Workers |->
                          IF v = w THEN Idle
                          ELSE IF tx[v].busy
                          THEN [tx[v] EXCEPT !.stale = @ \cup (Written(v) \cap Z)]
                          ELSE tx[v]],
           \A x \in Expenses : x # tx[w].aggregate => Untouched(x)
    PROVE  \A v \in Workers : tx'[v].busy => OwnGood(tx[v])'
<1> SUFFICES ASSUME NEW v \in Workers, tx'[v].busy
             PROVE  OwnGood(tx[v])'
  OBVIOUS
<1>1. v # w
  BY NotBusy
<1>2. tx[v].busy /\ tx'[v] = [tx[v] EXCEPT !.stale = @ \cup (Written(v) \cap Z)]
  BY <1>1
<1>3. tx[v] \in Transactions
  BY <1>2, BusyTx
<1>4. tx'[v].drop = tx[v].drop /\ tx'[v].aggregate = tx[v].aggregate /\ tx'[v].own = tx[v].own
  BY <1>2, <1>3 DEF Transactions
<1>5. tx[v].aggregate # tx[w].aggregate
  BY <1>1, <1>2 DEF UsageTypeOK
<1>6. OwnGood(tx[v])
  BY <1>2 DEF MirrorOK
<1>7. QED
  BY <1>2, <1>4, <1>5, <1>6, WorkKept

(* The deliveries of other aggregates stay where they are. *)
LEMMA OthersUndelivered ==
    ASSUME FeedOK, NEW a \in Aggregates, Advance("budget_usage", a)
    PROVE  /\ delivered'["budget_usage"][a] = delivered["budget_usage"][a] + 1
           /\ \A x \in Expenses : x # a => delivered'["budget_usage"][x] = delivered["budget_usage"][x]
<1>1. delivered \in [Subscriptions -> [Aggregates -> Nat]]
  BY DEF FeedOK
<1>2. PICK f \in [Aggregates -> Nat] : f = delivered["budget_usage"]
  BY <1>1 DEF Subscriptions
<1>3. delivered' = [delivered EXCEPT !["budget_usage"] = [f EXCEPT ![a] = f[a] + 1]]
  BY <1>2 DEF Advance
<1>4. delivered'["budget_usage"] = [f EXCEPT ![a] = f[a] + 1]
  BY <1>1, <1>3 DEF Subscriptions
<1>5. QED
  BY <1>2, <1>4 DEF Aggregates

LEMMA CommitMirrors ==
    ASSUME ProjectionsInv, ProjectionsInv', MirrorOK, NEW w \in Workers, Commit(w)
    PROVE  MirrorOK'
<1> DEFINE a == tx[w].aggregate
<1>1. FeedOK /\ FeedOK' /\ UsageTypeOK /\ UsageInv
  BY DEF ProjectionsInv, UsageInv
<1>2. tx[w].busy /\ mirror' = Seen(w) /\ Advance("budget_usage", a) /\ UNCHANGED <<events, budgets>>
  BY DEF Commit
<1>3. Grown
  BY <1>1, <1>2, NothingGrows
<1>4. tx[w] \in Transactions /\ a \in Aggregates /\ mirror \in [Expenses -> Rows]
  BY <1>1, <1>2, BusyTx DEF Transactions, UsageTypeOK
<1>5. tx[w].own.found => a \in Expenses
  BY <1>1, <1>2 DEF UsageInv, TxGood
<1>6. /\ delivered'["budget_usage"][a] = delivered["budget_usage"][a] + 1
      /\ \A x \in Expenses : x # a => delivered'["budget_usage"][x] = delivered["budget_usage"][x]
  BY <1>1, <1>2, <1>4, OthersUndelivered
<1>7. \A x \in Expenses : x # a => mirror'[x] = mirror[x]
  BY <1>2, <1>4, <1>5 DEF Seen
<1>8. \A x \in Expenses : x # a => Untouched(x)
  BY <1>6, <1>7 DEF Untouched
<1>9. \A v \in Workers : tx'[v].busy => OwnGood(tx[v])'
  <2>1. PICK Z : Z = DOMAIN tx[w].writes \cup Moved(w)
    OBVIOUS
  <2>2. tx' = [v \in Workers |->
                IF v = w THEN Idle
                ELSE IF tx[v].busy
                THEN [tx[v] EXCEPT !.stale = @ \cup (Written(v) \cap Z)]
                ELSE tx[v]]
    BY <2>1 DEF Commit
  <2>3. QED
    BY <1>1, <1>2, <1>3, <1>8, <2>2, OthersBring
<1>10. \A x \in Expenses : x # a => MirrorGood(x)'
  BY <1>1, <1>3, <1>8, MirrorGoodKept DEF MirrorOK, Untouched
<1>11. ASSUME NEW x \in Expenses, x = a PROVE MirrorGood(x)'
  <2>1. x = tx[w].aggregate
    BY <1>11
  <2>2. OwnGood(tx[w])
    BY <1>2 DEF MirrorOK
  <2>3. PICK n : n = delivered["budget_usage"][x] + 1
    OBVIOUS
  <2>4. delivered["budget_usage"][x] \in Nat /\ Len(events[x]) \in Nat
    BY <1>1, LenProperties DEF FeedOK, Subscriptions, Aggregates
  <2>5. delivered["budget_usage"][x] < Len(events[x])
    BY <2>1, <2>2 DEF OwnGood
  <2>6. n \in Nat /\ n > 0 /\ n <= Len(events'[x]) /\ delivered'["budget_usage"][x] = n
    BY <1>2, <1>6, <2>1, <2>3, <2>4, <2>5
  <2>7. PICK e : e = events[x][n]
    OBVIOUS
  <2>8. Brings(tx[w].own, mirror[x], e)
    BY <2>1, <2>2, <2>3, <2>7 DEF OwnGood, NextEvent
  <2>9. events'[x][n] = e
    BY <1>2, <2>7
  <2>10. (x \in Counted("budget_usage"))' <=> e.type # "removed"
    BY <2>6, <2>9 DEF Counted
  <2>11. BodyAt("budget_usage", x)' = e.body
    BY <2>6, <2>9 DEF BodyAt
  <2>12. mirror'[x] = IF tx[w].own.found THEN tx[w].own ELSE mirror[x]
    BY <1>2, <1>4, <2>1 DEF Seen
  <2>13. CASE e.type = "removed"
    <3>1. ~Active(mirror, x)'
      BY <2>8, <2>12, <2>13 DEF Brings, Active
    <3>2. MirrorGood(x)'
      BY <2>6, <2>10, <2>13, <3>1 DEF MirrorGood
    <3>3. QED
      BY <3>2
  <2>14. CASE e.type # "removed"
    <3>1. tx[w].own = [found |-> TRUE, active |-> TRUE, body |-> e.body]
      BY <2>8, <2>14 DEF Brings
    <3>2. mirror'[x] = [found |-> TRUE, active |-> TRUE, body |-> e.body]
      BY <2>12, <3>1
    <3>3. Active(mirror, x)' /\ mirror'[x].body = e.body
      BY <3>2 DEF Active
    <3>4. MirrorGood(x)'
      BY <2>6, <2>10, <2>11, <2>14, <3>3 DEF MirrorGood
    <3>5. QED
      BY <3>4
  <2>15. QED
    BY <2>13, <2>14
<1>12. \A x \in Expenses : MirrorGood(x)'
  BY <1>10, <1>11
<1>13. QED
  BY <1>9, <1>12 DEF MirrorOK

LEMMA DeleteUsageMirrors ==
    ASSUME ProjectionsInv, ProjectionsInv', MirrorOK, NEW w \in Workers, DeleteUsage(w)
    PROVE  MirrorOK'
<1> DEFINE a == tx[w].aggregate
<1>1. FeedOK /\ FeedOK' /\ UsageTypeOK
  BY DEF ProjectionsInv, UsageInv
<1>2. tx[w].busy /\ tx[w].drop /\ Advance("budget_usage", a) /\ UNCHANGED <<mirror, events, budgets>>
  BY DEF DeleteUsage
<1>3. Grown
  BY <1>1, <1>2, NothingGrows
<1>4. a \in Aggregates /\ a \notin Expenses
  BY <1>1, <1>2, BusyTx, ProjectionsAssumption DEF Transactions, MirrorOK, OwnGood
<1>5. \A x \in Expenses : x # a /\ Untouched(x)
  BY <1>1, <1>2, <1>4, OthersUndelivered DEF Untouched
<1>6. \A v \in Workers : tx'[v].busy => OwnGood(tx[v])'
  <2>1. PICK Z : Z = DOMAIN usage \ {k \in DOMAIN usage : k.budget # a}
    OBVIOUS
  <2>2. tx' = [v \in Workers |->
                IF v = w THEN Idle
                ELSE IF tx[v].busy
                THEN [tx[v] EXCEPT !.stale = @ \cup (Written(v) \cap Z)]
                ELSE tx[v]]
    BY <2>1 DEF DeleteUsage
  <2>3. QED
    BY <1>1, <1>2, <1>3, <1>5, <2>2, OthersBring
<1>7. \A x \in Expenses : MirrorGood(x)'
  BY <1>1, <1>3, <1>5, MirrorGoodKept DEF MirrorOK, Untouched
<1>8. QED
  BY <1>6, <1>7 DEF MirrorOK

LEMMA ReadsStart == Init => ReadsInv
<1> SUFFICES ASSUME Init PROVE ReadsInv
  OBVIOUS
<1>1. KeysOK
  <2>1. \A p : CategoryRows(p) = {}
    BY DEF Init, CategoryRows
  <2>2. QED
    BY <2>1, FS_EmptySet DEF KeysOK
<1>2. \A x \in Expenses : MirrorGood(x)
  <2> TAKE x \in Expenses
  <2>1. x \in Aggregates /\ delivered["budget_usage"][x] = 0 /\ events[x] = <<>> /\ mirror[x] = NoRow
    BY DEF Init, Subscriptions, Aggregates
  <2>2. ~Active(mirror, x) /\ x \notin Counted("budget_usage")
    BY <2>1 DEF Active, NoRow, Counted
  <2>3. QED
    BY <2>1, <2>2 DEF MirrorGood
<1>3. \A w \in Workers : ~tx[w].busy
  BY NotBusy DEF Init
<1>4. QED
  BY <1>1, <1>2, <1>3 DEF ReadsInv, MirrorOK

LEMMA ReadsStep ==
    ASSUME ProjectionsInv, ProjectionsInv', ReadsInv, [Next]_vars
    PROVE  ReadsInv'
<1>1. FeedOK /\ FeedOK' /\ RecordsOK /\ KeysOK /\ MirrorOK
  BY DEF ProjectionsInv, ReadsInv
<1>2. UNCHANGED rollups => KeysOK'
  BY <1>1 DEF KeysOK, CategoryRows
<1>3. Grown /\ UNCHANGED <<mirror, tx>> /\ delivered'["budget_usage"] = delivered["budget_usage"]
         => MirrorOK'
  BY <1>1, MirrorKept DEF SameWork, Untouched
<1>4. CASE \E c \in commands : Command(c)
  <2>1. Grown /\ UNCHANGED ReadSide
    BY <1>1, <1>4, CommandHolds
  <2>2. UNCHANGED <<rollups, delivered, mirror, tx>>
    BY <2>1 DEF ReadSide
  <2>3. QED
    BY <1>2, <1>3, <2>1, <2>2 DEF ReadsInv
<1>5. ASSUME NEW x \in Expenses, DeliverAnalytics(x) \/ RedeliverAnalytics(x)
      PROVE  ReadsInv'
  <2>1. /\ UNCHANGED <<events, budgets, mirror, tx>> /\ x \in Aggregates
        /\ UNCHANGED delivered \/ Advance("analytics", x)
    BY <1>5 DEF DeliverAnalytics, RedeliverAnalytics, Aggregates
  <2>2. delivered'["budget_usage"] = delivered["budget_usage"]
    BY <1>1, <2>1 DEF Advance, FeedOK, Subscriptions
  <2>3. MirrorOK'
    BY <1>1, <1>3, <2>1, <2>2, NothingGrows
  <2>4. delivered["analytics"][x] \in Nat /\ delivered["analytics"][x] <= Len(events[x])
        /\ Len(events[x]) \in Nat
    BY <1>1, <2>1, LenProperties DEF FeedOK, Subscriptions
  <2>5. PICK n \in 1 .. Len(events[x]) : AnalyticsHandle(x, events[x][n])
    BY <1>5, <2>4 DEF DeliverAnalytics, RedeliverAnalytics, HasNext, NextEvent
  <2>6. KeysOK'
    BY <1>1, <2>5, KeysKept
  <2>7. QED
    BY <2>3, <2>6 DEF ReadsInv
<1>6. ASSUME NEW a \in Aggregates, DeliverAudit(a) \/ RedeliverAudit(a)
      PROVE  ReadsInv'
  <2>1. /\ UNCHANGED <<events, budgets, mirror, tx, rollups>>
        /\ UNCHANGED delivered \/ Advance("audit", a)
    BY <1>6 DEF DeliverAudit, RedeliverAudit
  <2>2. delivered'["budget_usage"] = delivered["budget_usage"]
    BY <1>1, <2>1 DEF Advance, FeedOK, Subscriptions
  <2>3. QED
    BY <1>1, <1>2, <1>3, <2>1, <2>2, NothingGrows DEF ReadsInv
<1>7. ASSUME NEW w \in Workers,
             \/ \E x \in Expenses : BeginExpense(w, x)
             \/ \E b \in Budgets : BeginBudget(w, b)
             \/ ReadSum(w) \/ ReadUsage(w) \/ SaveUsage(w) \/ Commit(w) \/ DeleteUsage(w)
             \/ DeadlockVictim(w) \/ Abort(w)
      PROVE  ReadsInv'
  <2>1. UNCHANGED rollups
    BY <1>7 DEF BeginExpense, BeginBudget, ReadSum, ReadUsage, SaveUsage, Commit, DeleteUsage,
                DeadlockVictim, Abort, readModels
  <2>2. MirrorOK'
    BY <1>1, <1>7, BeginExpenseMirrors, BeginBudgetMirrors, WorkMirrors, CommitMirrors,
       DeleteUsageMirrors
  <2>3. QED
    BY <1>2, <2>1, <2>2 DEF ReadsInv
<1>8. CASE Project
  BY <1>5, <1>6, <1>7, <1>8 DEF Project
<1>9. CASE Fault
  BY <1>5, <1>6, <1>7, <1>9 DEF Fault
<1>10. CASE UNCHANGED vars
  <2>1. UNCHANGED <<events, budgets, delivered, mirror, tx, rollups>>
    BY <1>10 DEF vars, readModels
  <2>2. QED
    BY <1>1, <1>2, <1>3, <2>1, NothingGrows DEF ReadsInv
<1>11. QED
  BY <1>4, <1>8, <1>9, <1>10 DEF Next, Rest

(* The rows the queries read are finite in number and filed under what the  *)
(* expenses carry, and the mirror is what was delivered.                    *)
THEOREM ReadsSound == Spec => []ReadsInv
<1>1. Init => ReadsInv
  BY ReadsStart
<1>2. ProjectionsInv /\ ProjectionsInv' /\ ReadsInv /\ [Next]_vars => ReadsInv'
  BY ReadsStep
<1>3. QED
  BY <1>1, <1>2, ProjectionsSound, PTL DEF Spec

-----------------------------------------------------------------------------
(* The progress bar and the usage row. *)

(* A window has the same end seen from its first day. *)
LEMMA WindowEnds ==
    ASSUME NEW body \in Limits, NEW at \in Int
    PROVE  /\ BudgetWindow(body, at).from \in Int /\ BudgetWindow(body, at).to \in Int
           /\ BudgetWindow(body, BudgetWindow(body, at).from).to = BudgetWindow(body, at).to
<1>1. BudgetWindow(body, at).from \in Int
  BY WindowType
<1>2. CASE body.period = "custom"
  <2>1. body.created \in Int /\ body.due \in Int
    BY DEF Limits, Bodies
  <2>2. AddDate(body.created, 100, 0, 0) \in Int
    <3>1. PICK t \in Int, n \in Int : t = body.created /\ n = 100
      BY <2>1
    <3>2. PICK k \in Int, d \in Int : k = MonthIndex(t) /\ d = Day(t)
      BY DayIs
    <3>3. AddDate(t, n, 0, 0) = MonthStart(MonthIndex(t) + 12 * n + 0) + Day(t) + 0 - 1
      BY AddDateIs
    <3>4. MonthStart(k + 12 * n + 0) \in Int
      BY MonthStartType
    <3>5. QED
      BY <3>1, <3>2, <3>3, <3>4
  <2>3. \A s : BudgetWindow(body, s).to
                  = IF body.due # 0 THEN body.due ELSE AddDate(body.created, 100, 0, 0)
    BY <1>2 DEF BudgetWindow
  <2>4. QED
    BY <1>1, <2>1, <2>2, <2>3
<1>3. CASE body.period # "custom"
  <2>1. PICK p \in AnalyticsPeriods : \A s :
           /\ BudgetWindow(body, s).from = RollupPeriodStart(p, s)
           /\ BudgetWindow(body, s).to = periodEnd(p, RollupPeriodStart(p, s))
    BY <1>3, WindowOf
  <2>2. PICK s, e : s = RollupPeriodStart(p, at) /\ e = periodEnd(p, s)
    OBVIOUS
  <2>3. e \in Int /\ RollupPeriodStart(p, s) = s
    BY <2>2, PeriodKept
  <2>4. QED
    BY <1>1, <2>1, <2>2, <2>3
<1>4. QED
  BY <1>2, <1>3

(* The expenses a window counts, and what they are worth. *)
InWindow(C, category, from, to) ==
    {x \in Expenses : /\ Active(C, x) /\ C[x].body.category = category
                      /\ C[x].body.day >= from /\ C[x].body.day < to}

(* A mirror that has what analytics has of some expenses and nothing of the *)
(* others sums up what those are worth.                                     *)
Shows(m, F) ==
    \A x \in Expenses : /\ Active(m, x) <=> Active(contributions, x) /\ x \in F
                        /\ Active(m, x) => m[x].body = contributions[x].body

LEMMA SpentOfSome ==
    ASSUME NEW m, NEW F, F \in SUBSET Expenses, Shows(m, F)
    PROVE  \A body, from :
              SpentIn(m, body, from)
                = Part(Worth, F \cap InWindow(contributions, body.category, from,
                                                BudgetWindow(body, from).to))
<1> TAKE body, from
<1> DEFINE to == BudgetWindow(body, from).to
           R == {x \in Expenses : /\ m[x].found /\ m[x].active
                                  /\ m[x].body.category = body.category
                                  /\ m[x].body.day >= from /\ m[x].body.day < to}
<1>1. SpentIn(m, body, from) = Sum([x \in R |-> m[x].body.amount])
  BY DEF SpentIn, SumContributions
<1> HIDE DEF to
<1>2. R = F \cap InWindow(contributions, body.category, from, to)
  BY DEF InWindow, Active, Shows
<1>3. \A x \in R : m[x].body.amount = Worth[x]
  BY DEF Active, Worth, Shows
<1>4. [x \in R |-> m[x].body.amount] = [x \in R |-> Worth[x]]
  BY <1>3
<1> HIDE DEF R
<1>5. Sum([x \in R |-> m[x].body.amount]) = Part(Worth, R)
  BY <1>4 DEF Part
<1>6. SpentIn(m, body, from) = Part(Worth, R)
  BY <1>1, <1>5
<1>7. QED
  BY <1>2, <1>6 DEF to

(* BudgetProgress counts the expenses of the window in its own currency. *)
LEMMA ProgressIs ==
    ASSUME RecordsOK, RollupsOK, KeysOK, today \in Int, NEW b, NEW body \in Limits,
           body = budgets[b].body, NEW from, NEW to,
           from = BudgetWindow(body, today).from, to = BudgetWindow(body, today).to
    PROVE  /\ BudgetProgress(b).start = from
           /\ BudgetProgress(b).spent
                 = Part(Worth, {x \in InWindow(contributions, body.category, from, to) :
                                  contributions[x].body.currency = body.currency})
<1> DEFINE rows == {k \in ListExpenseRollups("day", from, to - 1) :
                      k.id = body.category /\ k.currency = body.currency}
<1>1. BudgetProgress(b).start = from /\ BudgetProgress(b).spent = Total(rows)
  BY DEF BudgetProgress
<1>2. "day" \in AnalyticsPeriods /\ from \in Int /\ to \in Int
  BY WindowEnds DEF AnalyticsPeriods
<1>3. rows \in SUBSET CategoryRows("day")
  BY ListedRows
<1>4. ASSUME NEW x \in Expenses, Active(contributions, x)
      PROVE  Home(x, "day") \in rows
                <=> /\ contributions[x].body.category = body.category
                    /\ contributions[x].body.currency = body.currency
                    /\ contributions[x].body.day >= from /\ contributions[x].body.day < to
  <2>1. PICK d : d = contributions[x].body.day
    OBVIOUS
  <2>2. /\ Home(x, "day") \in ListExpenseRollups("day", from, to - 1)
               <=> RollupPeriodStart("day", d) >= from /\ RollupPeriodStart("day", d) <= to - 1
        /\ Home(x, "day").currency = contributions[x].body.currency
        /\ Home(x, "day").id = contributions[x].body.category
        /\ d \in Int
    BY <1>2, <1>4, <2>1, HomeListed
  <2>3. RollupPeriodStart("day", d) = d
    BY RollupIs
  <2>4. QED
    BY <1>2, <2>1, <2>2, <2>3
<1>5. Homed("day", rows) = {x \in InWindow(contributions, body.category, from, to) :
                              contributions[x].body.currency = body.currency}
  <2> HIDE DEF rows
  <2>1. QED
    BY <1>4 DEF Homed, InWindow
<1> HIDE DEF rows
<1>6. Total(rows) = Part(Worth, Homed("day", rows))
  BY <1>2, <1>3, TotalIs
<1>7. QED
  BY <1>1, <1>5, <1>6

LEMMA ProgressHolds ==
    ASSUME ProjectionsInv, ReadsInv
    PROVE  ProgressAgrees
<1> SUFFICES ASSUME NEW b \in Budgets, budgets[b].found,
                    \A s \in {"analytics", "budget_usage"}, x \in Expenses :
                       delivered[s][x] = Len(events[x]),
                    NEW k, k = [budget |-> b, start |-> BudgetProgress(b).start],
                    k \in DOMAIN usage, history[k].version = Len(events[b]), ~history[k].stale,
                    NEW F, F = {x \in Expenses : mirror[x].found /\ mirror[x].active
                                       /\ mirror[x].body.currency # budgets[b].body.currency}
             PROVE  usage[k].spent - BudgetProgress(b).spent =
                      SpentIn([x \in Expenses |-> IF x \in F THEN mirror[x] ELSE NoRow],
                              budgets[b].body, k.start)
  BY Zenon DEF ProgressAgrees
<1>1. FeedOK /\ RecordsOK /\ RollupsOK /\ KeysOK /\ UsageInv /\ MirrorOK /\ today \in Int
  BY DEF ProjectionsInv, ReadsInv, FeedOK
<1>2. PICK body \in Limits : body = budgets[b].body
  BY <1>1, WindowTask
<1>3. PICK from, to : from = BudgetWindow(body, today).from /\ to = BudgetWindow(body, today).to
  OBVIOUS
<1>4. from \in Int /\ to \in Int /\ BudgetWindow(body, from).to = to
  BY <1>1, <1>3, WindowEnds
<1>5. PICK W : W = InWindow(contributions, body.category, from, to)
  OBVIOUS
<1>6. PICK O, G : /\ O = {x \in W : contributions[x].body.currency = body.currency}
                  /\ G = {x \in W : contributions[x].body.currency # body.currency}
  OBVIOUS
<1>7. W \in SUBSET Expenses /\ O \in SUBSET (Expenses \ G) /\ G \in SUBSET Expenses
      /\ O \cup G = W /\ O \in SUBSET Expenses
  BY <1>5, <1>6 DEF InWindow
<1>8. BudgetProgress(b).start = from /\ BudgetProgress(b).spent = Part(Worth, O)
  BY <1>1, <1>2, <1>3, <1>5, <1>6, ProgressIs
<1>9. k.start = from /\ k.budget = b
  BY <1>8
<1>10. \A x \in Expenses : /\ Active(mirror, x) <=> Active(contributions, x)
                           /\ Active(mirror, x) => mirror[x].body = contributions[x].body
  <2> TAKE x \in Expenses
  <2>1. delivered["analytics"][x] = delivered["budget_usage"][x]
    OBVIOUS
  <2>2. /\ x \in Counted("analytics") <=> x \in Counted("budget_usage")
        /\ BodyAt("analytics", x) = BodyAt("budget_usage", x)
    BY <2>1 DEF Counted, BodyAt
  <2>3. QED
    BY <1>1, <2>2 DEF RecordsOK, MirrorOK, MirrorGood
<1>11. usage[k].spent = Part(Worth, W)
  <2>1. RowGood(k)
    BY <1>1 DEF UsageInv
  <2>2. usage[k].spent = SpentIn(mirror, body, from)
    BY <1>2, <1>9, <2>1 DEF RowGood, Tells, Fresh
  <2>3. PICK E : E = Expenses
    OBVIOUS
  <2>4. SpentIn(mirror, body, from) = Part(Worth, E \cap W)
    <3>1. Shows(mirror, E)
      BY <1>10, <2>3 DEF Shows
    <3>2. E \in SUBSET Expenses
      BY <2>3
    <3>3. SpentIn(mirror, body, from)
             = Part(Worth, E \cap InWindow(contributions, body.category, from, BudgetWindow(body, from).to))
      BY <3>1, <3>2, SpentOfSome
    <3>4. QED
      BY <1>4, <1>5, <3>3
  <2>5. E \cap W = W
    BY <1>7, <2>3
  <2>6. QED
    BY <2>2, <2>4, <2>5
<1>12. PICK m : m = [x \in Expenses |-> IF x \in F THEN mirror[x] ELSE NoRow]
  OBVIOUS
<1>13. SpentIn(m, body, from) = Part(Worth, G)
  <2>1. ~NoRow.found
    BY DEF NoRow
  <2>2. \A x \in Expenses : x \in F <=> Active(mirror, x) /\ mirror[x].body.currency # body.currency
    BY <1>2 DEF Active
  <2>3. \A x \in Expenses : Active(m, x) <=> x \in F
    BY <1>12, <2>1, <2>2 DEF Active
  <2>4. \A x \in Expenses : Active(m, x) <=> Active(contributions, x) /\ x \in F
    BY <1>10, <2>2, <2>3
  <2>5. \A x \in Expenses : Active(m, x) => m[x].body = contributions[x].body
    BY <1>10, <1>12, <2>2, <2>3
  <2>6. F \in SUBSET Expenses
    OBVIOUS
  <2>7. SpentIn(m, body, from) = Part(Worth, F \cap W)
    <3>1. PICK q, H : q = m /\ H = F
      OBVIOUS
    <3>2. H \in SUBSET Expenses /\ Shows(q, H)
      BY <2>4, <2>5, <2>6, <3>1 DEF Shows
    <3>3. \A c, s : SpentIn(q, c, s)
             = Part(Worth, H \cap InWindow(contributions, c.category, s, BudgetWindow(c, s).to))
      BY <3>2, SpentOfSome
    <3>4. SpentIn(q, body, from)
             = Part(Worth, H \cap InWindow(contributions, body.category, from, BudgetWindow(body, from).to))
      BY <3>3
    <3>5. QED
      BY <1>4, <1>5, <3>1, <3>4
  <2>8. F \cap W = G
    <3>1. \A x \in W : x \in Expenses /\ Active(contributions, x)
      BY <1>5 DEF InWindow
    <3>2. \A x \in W : x \in F <=> contributions[x].body.currency # body.currency
      BY <1>10, <2>2, <3>1
    <3>3. QED
      BY <1>6, <3>2
  <2>9. QED
    BY <2>7, <2>8
<1>14. Part(Worth, W) = Part(Worth, O) + Part(Worth, G)
  BY <1>1, <1>7, WorthIs, PartsJoin
<1>15. Part(Worth, O) \in Int /\ Part(Worth, G) \in Int
  BY <1>1, <1>7, WorthIs, PartType
<1>16. QED
  BY <1>2, <1>8, <1>9, <1>11, <1>12, <1>13, <1>14, <1>15

(* The dashboard's views agree with one another at every moment, and once   *)
(* both subscriptions have caught up the progress bar and the usage row     *)
(* differ by the spend in other currencies alone, for windows that begin    *)
(* and end at midnight, as all do but those of a custom budget due at a     *)
(* time of day, for any expenses, budgets and workers.                      *)
(* TopCategoryChanges lists at most fifty, so its categories add up to the  *)
(* total when no more than fifty pairs of category and currency occur:      *)
(* AnalyticsService and BudgetUsageProjection.                              *)
THEOREM ReadsHold ==
    ASSUME FewGroups
    PROVE  Spec => []ReadsAgree
<1>1. ProjectionsInv /\ ReadsInv => ReadsAgree
  <2> SUFFICES ASSUME ProjectionsInv, ReadsInv PROVE ReadsAgree
    OBVIOUS
  <2>1. RecordsOK /\ RollupsOK /\ KeysOK /\ today \in Int
    BY DEF ProjectionsInv, ReadsInv, FeedOK
  <2>2. QED
    BY <2>1, DashboardHolds, ProgressHolds DEF ReadsAgree
<1>2. QED
  BY <1>1, ProjectionsSound, ReadsSound, PTL
=============================================================================
