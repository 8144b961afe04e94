--------------------------- MODULE DueCyclesProofs --------------------------
(***************************************************************************)
(* The properties of DueCycles for every calendar, of any length, with any *)
(* days without a run and any visits.                                      *)
(*                                                                         *)
(* First the date arithmetic of domain/cadence.ts for every date: a first  *)
(* due date is never in the past, every further one advances by at least a *)
(* week and at most a month, the clamped day of a short month is forgotten *)
(* in the next, and no day of the calendar lies between two due dates.     *)
(*                                                                         *)
(* Then the rows.  TypesOK, CalendarOK, SpacingOK and DecidedOK are the    *)
(* inductive invariant of the scheduler; WindowOK and AttentiveOK add the  *)
(* window of the grant and a user who never lets it run out.  Each has a   *)
(* lemma that says a step preserves it (TypesStep, ...).                   *)
(***************************************************************************)
EXTENDS DueCycles, SequenceTheorems, FiniteSetTheorems, TLAPS

\* Days before a year, counted from 2024.
YearStart(y) == 365 * y + ((y + 3) \div 4)

LeapDay(y) == IF y % 4 = 0 THEN 1 ELSE 0

\* The month with index r of the year y.
LEMMA MonthParts ==
  ASSUME NEW y \in Nat, NEW r \in 0 .. 11
  PROVE  /\ 12 * y + r \in Nat
         /\ (12 * y + r) \div 12 = y
         /\ (12 * y + r) % 12 = r
  OBVIOUS

\* Every month is the r-th of some year.
LEMMA MonthIsOfAYear ==
  ASSUME NEW m \in Nat
  PROVE  \E y \in Nat, r \in 0 .. 11 : m = 12 * y + r
<1>1. m \div 12 \in Nat /\ m % 12 \in 0 .. 11 /\ m = 12 * (m \div 12) + (m % 12)
  OBVIOUS
<1>2. QED
  BY <1>1

\* Whether a month belongs to a leap year is a matter of its year.
LEMMA LeapIsOfTheYear ==
  ASSUME NEW m \in Nat, NEW y \in Nat, NEW r \in 0 .. 11, m = 12 * y + r
  PROVE  LeapDay(y) = (IF Leap(m) THEN 1 ELSE 0) /\ LeapDay(y) \in {0, 1}
<1>1. m \div 12 = y
  BY MonthParts
<1>2. QED
  BY <1>1 DEF Leap, LeapDay

\* What a month adds to the table of a year without leap day.
Days(r) == IF r = 1 THEN 28 ELSE IF r \in {3, 5, 8, 10} THEN 30 ELSE 31

\* The table is that of the lengths.
LEMMA TableSteps ==
  ASSUME NEW r \in 0 .. 11
  PROVE  /\ DaysBefore[r + 1] \in Nat
         /\ 28 * r <= DaysBefore[r + 1] /\ DaysBefore[r + 1] <= 31 * r
         /\ r < 11 => DaysBefore[r + 2] = DaysBefore[r + 1] + Days(r)
         /\ r = 0 => DaysBefore[r + 1] = 0
         /\ r = 11 => DaysBefore[r + 1] + Days(r) = 365
<1>1. \/ r = 0 \/ r = 1 \/ r = 2 \/ r = 3 \/ r = 4 \/ r = 5
      \/ r = 6 \/ r = 7 \/ r = 8 \/ r = 9 \/ r = 10 \/ r = 11
  OBVIOUS
<1>2. QED
  BY <1>1 DEF DaysBefore, Days

\* The months of the table follow one another without overlap.
LEMMA TableOrdered ==
  ASSUME NEW r \in 0 .. 11, NEW s \in 0 .. 11, r < s
  PROVE  DaysBefore[r + 1] + Days(r) <= DaysBefore[s + 1]
<1>1. \/ r = 0 \/ r = 1 \/ r = 2 \/ r = 3 \/ r = 4 \/ r = 5
      \/ r = 6 \/ r = 7 \/ r = 8 \/ r = 9 \/ r = 10 \/ r = 11
  OBVIOUS
<1>2. \/ s = 0 \/ s = 1 \/ s = 2 \/ s = 3 \/ s = 4 \/ s = 5
      \/ s = 6 \/ s = 7 \/ s = 8 \/ s = 9 \/ s = 10 \/ s = 11
  OBVIOUS
<1>3. QED
  BY <1>1, <1>2 DEF DaysBefore, Days

\* A month starts at its place in the table, a day later after February of a leap year.
LEMMA MonthStarts ==
  ASSUME NEW m \in Nat, NEW y \in Nat, NEW r \in 0 .. 11, m = 12 * y + r
  PROVE  MonthStart(m) = YearStart(y) + DaysBefore[r + 1] + (IF r > 1 THEN LeapDay(y) ELSE 0)
<1>1. m \div 12 = y /\ m % 12 = r
  BY MonthParts
<1>2. DaysBefore[r + 1] \in Nat
  BY TableSteps
<1>3. LeapDay(y) = (IF Leap(m) THEN 1 ELSE 0)
  BY LeapIsOfTheYear
<1>4. QED
  BY <1>1, <1>2, <1>3 DEF MonthStart, YearStart

\* Only February has a length that depends on the year.
LEMMA MonthLengths ==
  ASSUME NEW m \in Nat, NEW y \in Nat, NEW r \in 0 .. 11, m = 12 * y + r
  PROVE  MonthLength(m) = Days(r) + (IF r = 1 THEN LeapDay(y) ELSE 0)
<1>1. m % 12 = r
  BY MonthParts
<1>2. LeapDay(y) = (IF Leap(m) THEN 1 ELSE 0)
  BY LeapIsOfTheYear
<1>3. QED
  BY <1>1, <1>2 DEF MonthLength, Days

\* A year begins where the one before it ends.
LEMMA YearSteps ==
  ASSUME NEW y \in Nat
  PROVE  YearStart(y) \in Nat /\ YearStart(y + 1) = YearStart(y) + 365 + LeapDay(y)
  BY DEF YearStart, LeapDay

\* A year is over before a later one begins.
LEMMA YearsOrdered ==
  ASSUME NEW y \in Nat, NEW z \in Nat, y < z
  PROVE  YearStart(y) + 365 + LeapDay(y) <= YearStart(z)
<1>1. YearStart(y + 1) <= YearStart(z)
  BY DEF YearStart
<1>2. QED
  BY <1>1, YearSteps

\* Years start at natural numbers, 365 days apart at least.
LEMMA YearTypes ==
  ASSUME NEW y \in Nat
  PROVE  YearStart(y) \in Nat /\ YearStart(y) >= 365 * y /\ LeapDay(y) \in {0, 1}
  BY DEF YearStart, LeapDay

\* Months start at natural numbers and last 28 to 31 days.
LEMMA MonthTypes ==
  ASSUME NEW m \in Nat
  PROVE  /\ MonthStart(m) \in Nat /\ MonthStart(m) >= 28 * m
         /\ MonthLength(m) \in 28 .. 31
<1>1. PICK y \in Nat, r \in 0 .. 11 : m = 12 * y + r
  BY MonthIsOfAYear
<1>2. DaysBefore[r + 1] \in Nat /\ DaysBefore[r + 1] >= 28 * r /\ Days(r) \in 28 .. 31
      /\ (r = 1 => Days(r) = 28)
  BY TableSteps DEF Days
<1>3. /\ MonthStart(m) = YearStart(y) + DaysBefore[r + 1] + (IF r > 1 THEN LeapDay(y) ELSE 0)
      /\ MonthLength(m) = Days(r) + (IF r = 1 THEN LeapDay(y) ELSE 0)
  BY <1>1, MonthStarts, MonthLengths
<1>4. YearStart(y) \in Nat /\ YearStart(y) >= 365 * y /\ LeapDay(y) \in {0, 1}
  BY YearTypes
<1>5. QED
  BY <1>1, <1>2, <1>3, <1>4

\* A month begins where the one before it ends.
LEMMA MonthSteps ==
  ASSUME NEW m \in Nat
  PROVE  MonthStart(m + 1) = MonthStart(m) + MonthLength(m)
<1>1. PICK y \in Nat, r \in 0 .. 11 : m = 12 * y + r
  BY MonthIsOfAYear
<1>2. DaysBefore[r + 1] \in Nat /\ Days(r) \in Nat
  BY TableSteps DEF Days
<1>3. YearStart(y) \in Nat /\ LeapDay(y) \in {0, 1}
  BY YearTypes
<1>4. MonthStart(m) = YearStart(y) + DaysBefore[r + 1] + (IF r > 1 THEN LeapDay(y) ELSE 0)
  BY <1>1, MonthStarts
<1>5. MonthLength(m) = Days(r) + (IF r = 1 THEN LeapDay(y) ELSE 0)
  BY <1>1, MonthLengths
<1>6. CASE r < 11
  <2>1. DaysBefore[(r + 1) + 1] = DaysBefore[r + 1] + Days(r)
    BY <1>6, TableSteps
  <2>2. m + 1 = 12 * y + (r + 1) /\ r + 1 \in 0 .. 11 /\ m + 1 \in Nat
    BY <1>1, <1>6
  <2>3. MonthStart(m + 1) =
          YearStart(y) + DaysBefore[(r + 1) + 1] + (IF r + 1 > 1 THEN LeapDay(y) ELSE 0)
    BY <2>2, MonthStarts
  <2>4. QED
    BY <1>2, <1>3, <1>4, <1>5, <2>1, <2>3
<1>7. CASE r = 11
  <2>1. m + 1 = 12 * (y + 1) + 0 /\ y + 1 \in Nat /\ 0 \in 0 .. 11 /\ m + 1 \in Nat
    BY <1>1, <1>7
  <2>2. MonthStart(m + 1) = YearStart(y + 1) + DaysBefore[0 + 1] + (IF 0 > 1 THEN LeapDay(y + 1) ELSE 0)
    BY <2>1, MonthStarts
  <2>3. DaysBefore[0 + 1] = 0 /\ DaysBefore[r + 1] + Days(r) = 365
    BY <1>7, TableSteps
  <2>4. YearStart(y + 1) = YearStart(y) + 365 + LeapDay(y)
    BY YearSteps
  <2>5. QED
    BY <1>2, <1>3, <1>4, <1>5, <1>7, <2>2, <2>3, <2>4
<1>8. QED
  BY <1>6, <1>7

\* A month lies within its year.
LEMMA MonthWithinYear ==
  ASSUME NEW m \in Nat, NEW y \in Nat, NEW r \in 0 .. 11, m = 12 * y + r
  PROVE  /\ YearStart(y) <= MonthStart(m)
         /\ MonthStart(m) + MonthLength(m) <= YearStart(y) + 365 + LeapDay(y)
<1>1. DaysBefore[r + 1] \in Nat /\ Days(r) \in Nat
  BY TableSteps DEF Days
<1>2. DaysBefore[r + 1] + Days(r) <= 365 /\ (r = 0 => DaysBefore[r + 1] = 0)
  <2>1. CASE r = 11
    BY <2>1, TableSteps
  <2>2. CASE r < 11
    BY <1>1, <2>2, TableOrdered, TableSteps DEF Days
  <2>3. QED
    BY <2>1, <2>2
<1>3. YearStart(y) \in Nat /\ LeapDay(y) \in {0, 1}
  BY YearTypes
<1>4. MonthStart(m) = YearStart(y) + DaysBefore[r + 1] + (IF r > 1 THEN LeapDay(y) ELSE 0)
  BY MonthStarts
<1>5. MonthLength(m) = Days(r) + (IF r = 1 THEN LeapDay(y) ELSE 0)
  BY MonthLengths
<1>6. QED
  BY <1>1, <1>2, <1>3, <1>4, <1>5

\* Months do not overlap.
LEMMA MonthsOrdered ==
  ASSUME NEW m \in Nat, NEW n \in Nat, m < n
  PROVE  MonthStart(m) + MonthLength(m) <= MonthStart(n)
<1>1. PICK y \in Nat, r \in 0 .. 11 : m = 12 * y + r
  BY MonthIsOfAYear
<1>2. PICK z \in Nat, s \in 0 .. 11 : n = 12 * z + s
  BY MonthIsOfAYear
<1>3. /\ MonthStart(m) \in Nat /\ MonthLength(m) \in Nat /\ MonthStart(n) \in Nat
      /\ YearStart(y) \in Nat /\ YearStart(z) \in Nat /\ LeapDay(y) \in {0, 1}
  <2>1. MonthStart(m) \in Nat /\ MonthLength(m) \in Nat
    BY MonthTypes
  <2>2. MonthStart(n) \in Nat
    BY MonthTypes
  <2>3. YearStart(y) \in Nat /\ YearStart(z) \in Nat /\ LeapDay(y) \in {0, 1}
    BY YearTypes
  <2>4. QED
    BY <2>1, <2>2, <2>3
<1>4. CASE y < z
  <2>1. MonthStart(m) + MonthLength(m) <= YearStart(y) + 365 + LeapDay(y)
    BY <1>1, MonthWithinYear
  <2>2. YearStart(z) <= MonthStart(n)
    BY <1>2, MonthWithinYear
  <2>3. YearStart(y) + 365 + LeapDay(y) <= YearStart(z)
    BY <1>4, YearsOrdered
  <2>4. QED
    BY <1>3, <2>1, <2>2, <2>3
<1>5. CASE y = z
  <2>1. r < s
    BY <1>1, <1>2, <1>5
  <2>2. /\ DaysBefore[r + 1] \in Nat /\ Days(r) \in Nat /\ DaysBefore[s + 1] \in Nat
        /\ DaysBefore[r + 1] + Days(r) <= DaysBefore[s + 1]
    BY <2>1, TableOrdered, TableSteps DEF Days
  <2>3. /\ MonthStart(m) = YearStart(y) + DaysBefore[r + 1] + (IF r > 1 THEN LeapDay(y) ELSE 0)
        /\ MonthLength(m) = Days(r) + (IF r = 1 THEN LeapDay(y) ELSE 0)
    BY <1>1, MonthStarts, MonthLengths
  <2>4. MonthStart(n) = YearStart(y) + DaysBefore[s + 1] + (IF s > 1 THEN LeapDay(y) ELSE 0)
    BY <1>2, <1>5, MonthStarts
  <2>5. QED
    BY <1>3, <2>1, <2>2, <2>3, <2>4
<1>6. QED
  BY <1>1, <1>2, <1>4, <1>5

\* A day of the month m is a day of no other month.
LEMMA MonthOfIs ==
  ASSUME NEW m \in Nat, NEW d \in Nat, d - MonthStart(m) \in 0 .. MonthLength(m) - 1
  PROVE  MonthOf(d) = m
<1>1. MonthStart(m) \in Nat /\ MonthStart(m) >= 28 * m /\ MonthLength(m) \in 28 .. 31
  BY MonthTypes
<1>2. m \in 0 .. d \div 28
  BY <1>1
<1>3. ASSUME NEW n \in 0 .. d \div 28, d - MonthStart(n) \in 0 .. MonthLength(n) - 1
      PROVE  n = m
  <2>1. n \in Nat /\ MonthStart(n) \in Nat /\ MonthLength(n) \in 28 .. 31
    BY MonthTypes
  <2>2. CASE n < m
    BY <1>1, <1>3, <2>1, <2>2, MonthsOrdered
  <2>3. CASE m < n
    BY <1>1, <1>3, <2>1, <2>3, MonthsOrdered
  <2>4. QED
    BY <2>1, <2>2, <2>3
<1>4. QED
  BY <1>2, <1>3 DEF MonthOf

\* A clamped day is the configured one or an earlier one of the same month.
LEMMA ClampedDay ==
  ASSUME NEW m \in Nat, NEW day \in 1 .. 31
  PROVE  /\ ClampedMonthDay(m, day) \in Nat
         /\ MonthOf(ClampedMonthDay(m, day)) = m
         /\ ClampedMonthDay(m, day) - MonthStart(m) + 1 <= day
         /\ day <= MonthLength(m) => ClampedMonthDay(m, day) - MonthStart(m) + 1 = day
         /\ day > MonthLength(m) => ClampedMonthDay(m, day) + 1 = MonthStart(m + 1)
<1>1. MonthStart(m) \in Nat /\ MonthLength(m) \in 28 .. 31
  BY MonthTypes
<1>2. MonthStart(m + 1) = MonthStart(m) + MonthLength(m)
  BY MonthSteps
<1>3. /\ ClampedMonthDay(m, day) \in Nat
      /\ ClampedMonthDay(m, day) - MonthStart(m) \in 0 .. MonthLength(m) - 1
  BY <1>1 DEF ClampedMonthDay
<1>4. MonthOf(ClampedMonthDay(m, day)) = m
  BY <1>3, MonthOfIs
<1>5. QED
  BY <1>1, <1>2, <1>3, <1>4 DEF ClampedMonthDay

-----------------------------------------------------------------------------
\* A due date the code can have stored for a cadence.
DueDate(c, d) ==
  /\ d \in Nat
  /\ c.kind = "MONTHLY" => \E m \in Nat : d = ClampedMonthDay(m, c.day)

\* Every due date lies at least a week and at most 31 days after the one before,
\* and is again one of the cadence: generateDueCycles() never meets a date that
\* does not advance, which it would throw on.
THEOREM DueDatesAdvance ==
  ASSUME NEW c \in CadenceSet, NEW previous, DueDate(c, previous)
  PROVE  /\ DueDate(c, NextDueAt(c, previous))
         /\ NextDueAt(c, previous) - previous \in 7 .. 31
<1>1. CASE c.kind # "MONTHLY"
  BY <1>1 DEF CadenceSet, Weekly, Monthly, DueDate, NextDueAt
<1>2. CASE c.kind = "MONTHLY"
  <2>1. c.day \in 1 .. 31
    BY <1>2 DEF CadenceSet, Weekly, Monthly
  <2>2. PICK m \in Nat : previous = ClampedMonthDay(m, c.day)
    BY <1>2 DEF DueDate
  <2>3. NextDueAt(c, previous) = ClampedMonthDay(m + 1, c.day)
    BY <1>2, <2>1, <2>2, ClampedDay DEF NextDueAt, NextCalendarMonth
  <2>4. /\ MonthStart(m) \in Nat /\ MonthLength(m) \in 28 .. 31
        /\ MonthStart(m + 1) = MonthStart(m) + MonthLength(m) /\ MonthLength(m + 1) \in 28 .. 31
    BY MonthTypes, MonthSteps
  <2>5. ClampedMonthDay(m + 1, c.day) - ClampedMonthDay(m, c.day) \in 7 .. 31
    BY <2>1, <2>4 DEF ClampedMonthDay
  <2>6. m + 1 \in Nat
    OBVIOUS
  <2>7. ClampedMonthDay(m + 1, c.day) \in Nat
    BY <2>1, <2>6, ClampedDay
  <2>8. QED
    BY <2>2, <2>3, <2>5, <2>6, <2>7 DEF DueDate
<1>3. QED
  BY <1>1, <1>2

\* The clamp does not stick: after any due date, the next one falls on the
\* configured day of the month if its month has that day, and on its last day
\* if not.
THEOREM ClampDoesNotStick ==
  ASSUME NEW c \in Monthly, NEW previous, DueDate(c, previous)
  PROVE  LET due == NextDueAt(c, previous)
             m == MonthOf(previous) + 1
         IN /\ MonthOf(due) = m
            /\ \/ due - MonthStart(m) + 1 = c.day
               \/ due + 1 = MonthStart(m + 1) /\ MonthLength(m) < c.day
<1>1. c.day \in 1 .. 31 /\ c.kind = "MONTHLY"
  BY DEF Monthly
<1>2. PICK n \in Nat : previous = ClampedMonthDay(n, c.day)
  BY <1>1 DEF DueDate
<1>3. MonthOf(previous) = n
  BY <1>1, <1>2, ClampedDay
<1>4. NextDueAt(c, previous) = ClampedMonthDay(n + 1, c.day)
  BY <1>1, <1>3 DEF NextDueAt, NextCalendarMonth
<1>5. n + 1 \in Nat /\ MonthLength(n + 1) \in 28 .. 31
  <2>1. n + 1 \in Nat
    OBVIOUS
  <2>2. QED
    BY <2>1, MonthTypes
<1>6. /\ MonthOf(ClampedMonthDay(n + 1, c.day)) = n + 1
      /\ c.day <= MonthLength(n + 1) =>
           ClampedMonthDay(n + 1, c.day) - MonthStart(n + 1) + 1 = c.day
      /\ c.day > MonthLength(n + 1) =>
           ClampedMonthDay(n + 1, c.day) + 1 = MonthStart((n + 1) + 1)
  BY <1>1, <1>5, ClampedDay
<1>7. QED
  BY <1>1, <1>3, <1>4, <1>5, <1>6
-----------------------------------------------------------------------------
\* Every day belongs to a year: 1461 days are four of them.
LEMMA EveryDayHasAYear ==
  ASSUME NEW d \in Nat
  PROVE  \E y \in Nat : d - YearStart(y) \in 0 .. 364 + LeapDay(y)
<1> DEFINE q == d \div 1461
           e == d % 1461
<1>1. q \in Nat /\ e \in 0 .. 1460 /\ d = 1461 * q + e
  OBVIOUS
<1>2. /\ YearStart(4 * q) = 1461 * q /\ YearStart(4 * q + 1) = 1461 * q + 366
      /\ YearStart(4 * q + 2) = 1461 * q + 731 /\ YearStart(4 * q + 3) = 1461 * q + 1096
      /\ LeapDay(4 * q) = 1 /\ LeapDay(4 * q + 1) = 0
      /\ LeapDay(4 * q + 2) = 0 /\ LeapDay(4 * q + 3) = 0
  BY <1>1 DEF YearStart, LeapDay
<1>3. CASE e < 366
  BY <1>1, <1>2, <1>3
<1>4. CASE 366 <= e /\ e < 731
  BY <1>1, <1>2, <1>4
<1>5. CASE 731 <= e /\ e < 1096
  BY <1>1, <1>2, <1>5
<1>6. CASE 1096 <= e
  BY <1>1, <1>2, <1>6
<1>7. QED
  BY <1>1, <1>3, <1>4, <1>5, <1>6

\* Every day lies in some month (MonthOf has one to choose).
LEMMA EveryDayHasAMonth ==
  ASSUME NEW d \in Nat
  PROVE  \E m \in Nat : d - MonthStart(m) \in 0 .. MonthLength(m) - 1
<1>1. PICK y \in Nat : d - YearStart(y) \in 0 .. 364 + LeapDay(y)
  BY EveryDayHasAYear
<1> DEFINE k == d - YearStart(y)
           Holds(r) ==
             /\ DaysBefore[r + 1] + (IF r > 1 THEN LeapDay(y) ELSE 0) <= k
             /\ k < DaysBefore[r + 1] + (IF r > 1 THEN LeapDay(y) ELSE 0)
                     + Days(r) + (IF r = 1 THEN LeapDay(y) ELSE 0)
<1>2. YearStart(y) \in Nat /\ LeapDay(y) \in {0, 1} /\ k \in 0 .. 364 + LeapDay(y)
  BY <1>1, YearTypes
<1>3. \E r \in 0 .. 11 : Holds(r)
  <2>1. /\ DaysBefore[1] = 0 /\ DaysBefore[2] = 31 /\ DaysBefore[3] = 59 /\ DaysBefore[4] = 90 /\ DaysBefore[5] = 120 /\ DaysBefore[6] = 151
        /\ DaysBefore[7] = 181 /\ DaysBefore[8] = 212 /\ DaysBefore[9] = 243 /\ DaysBefore[10] = 273 /\ DaysBefore[11] = 304 /\ DaysBefore[12] = 334
    BY DEF DaysBefore
  <2>2. CASE 0 <= k /\ k < 31
    <3>1. Holds(0)
      BY <1>2, <2>1, <2>2 DEF Days
    <3>2. QED
      BY <3>1
  <2>3. CASE 31 <= k /\ k < 59 + LeapDay(y)
    <3>1. Holds(1)
      BY <1>2, <2>1, <2>3 DEF Days
    <3>2. QED
      BY <3>1
  <2>4. CASE 59 + LeapDay(y) <= k /\ k < 90 + LeapDay(y)
    <3>1. Holds(2)
      BY <1>2, <2>1, <2>4 DEF Days
    <3>2. QED
      BY <3>1
  <2>5. CASE 90 + LeapDay(y) <= k /\ k < 120 + LeapDay(y)
    <3>1. Holds(3)
      BY <1>2, <2>1, <2>5 DEF Days
    <3>2. QED
      BY <3>1
  <2>6. CASE 120 + LeapDay(y) <= k /\ k < 151 + LeapDay(y)
    <3>1. Holds(4)
      BY <1>2, <2>1, <2>6 DEF Days
    <3>2. QED
      BY <3>1
  <2>7. CASE 151 + LeapDay(y) <= k /\ k < 181 + LeapDay(y)
    <3>1. Holds(5)
      BY <1>2, <2>1, <2>7 DEF Days
    <3>2. QED
      BY <3>1
  <2>8. CASE 181 + LeapDay(y) <= k /\ k < 212 + LeapDay(y)
    <3>1. Holds(6)
      BY <1>2, <2>1, <2>8 DEF Days
    <3>2. QED
      BY <3>1
  <2>9. CASE 212 + LeapDay(y) <= k /\ k < 243 + LeapDay(y)
    <3>1. Holds(7)
      BY <1>2, <2>1, <2>9 DEF Days
    <3>2. QED
      BY <3>1
  <2>10. CASE 243 + LeapDay(y) <= k /\ k < 273 + LeapDay(y)
    <3>1. Holds(8)
      BY <1>2, <2>1, <2>10 DEF Days
    <3>2. QED
      BY <3>1
  <2>11. CASE 273 + LeapDay(y) <= k /\ k < 304 + LeapDay(y)
    <3>1. Holds(9)
      BY <1>2, <2>1, <2>11 DEF Days
    <3>2. QED
      BY <3>1
  <2>12. CASE 304 + LeapDay(y) <= k /\ k < 334 + LeapDay(y)
    <3>1. Holds(10)
      BY <1>2, <2>1, <2>12 DEF Days
    <3>2. QED
      BY <3>1
  <2>13. CASE 334 + LeapDay(y) <= k /\ k < 365 + LeapDay(y)
    <3>1. Holds(11)
      BY <1>2, <2>1, <2>13 DEF Days
    <3>2. QED
      BY <3>1
  <2>14. QED
    BY <1>2, <2>2, <2>3, <2>4, <2>5, <2>6, <2>7, <2>8, <2>9, <2>10, <2>11, <2>12, <2>13
<1>4. PICK r \in 0 .. 11 : Holds(r)
  BY <1>3
<1>5. 12 * y + r \in Nat /\ DaysBefore[r + 1] \in Nat /\ Days(r) \in Nat
  BY TableSteps DEF Days
<1>6. /\ MonthStart(12 * y + r) =
           YearStart(y) + DaysBefore[r + 1] + (IF r > 1 THEN LeapDay(y) ELSE 0)
      /\ MonthLength(12 * y + r) = Days(r) + (IF r = 1 THEN LeapDay(y) ELSE 0)
  BY <1>5, MonthStarts, MonthLengths
<1>7. d - MonthStart(12 * y + r) \in 0 .. MonthLength(12 * y + r) - 1
  BY <1>2, <1>4, <1>5, <1>6
<1>8. QED
  BY <1>5, <1>7

\* A first due date is never before the day of creation, and at most a month
\* after it: a plan made on its due day is due at once.
THEOREM FirstDueInTime ==
  ASSUME NEW c \in CadenceSet, NEW start \in Nat
  PROVE  /\ DueDate(c, FirstDueAt(c, start))
         /\ FirstDueAt(c, start) - start \in 0 .. 31
<1>1. CASE c.kind # "MONTHLY"
  BY <1>1 DEF CadenceSet, Weekly, Monthly, DueDate, FirstDueAt, NextWeekdayAtOrAfter, Weekday
<1>2. CASE c.kind = "MONTHLY"
  <2>1. c.day \in 1 .. 31
    BY <1>2 DEF CadenceSet, Weekly, Monthly
  <2>2. PICK m \in Nat : start - MonthStart(m) \in 0 .. MonthLength(m) - 1
    BY EveryDayHasAMonth
  <2>3. MonthOf(start) = m
    BY <2>2, MonthOfIs
  <2>4. /\ MonthStart(m) \in Nat /\ MonthLength(m) \in 28 .. 31 /\ m + 1 \in Nat
        /\ MonthStart(m + 1) = MonthStart(m) + MonthLength(m)
    BY MonthTypes, MonthSteps
  <2>5. MonthLength(m + 1) \in 28 .. 31
    BY <2>4, MonthTypes
  <2>6. ClampedMonthDay(m, c.day) \in Nat /\ ClampedMonthDay(m + 1, c.day) \in Nat
    BY <2>1, <2>4, ClampedDay
  <2>7. CASE ClampedMonthDay(m, c.day) >= start
    <3>1. FirstDueAt(c, start) = ClampedMonthDay(m, c.day)
      BY <1>2, <2>3, <2>7 DEF FirstDueAt, MonthlyAtOrAfter
    <3>2. ClampedMonthDay(m, c.day) - start \in 0 .. 31
      BY <2>1, <2>2, <2>4, <2>6, <2>7 DEF ClampedMonthDay
    <3>3. QED
      BY <2>6, <3>1, <3>2 DEF DueDate
  <2>8. CASE ~(ClampedMonthDay(m, c.day) >= start)
    <3>1. FirstDueAt(c, start) = ClampedMonthDay(m + 1, c.day)
      BY <1>2, <2>3, <2>8 DEF FirstDueAt, MonthlyAtOrAfter, NextCalendarMonth
    <3>2. ClampedMonthDay(m + 1, c.day) - start \in 0 .. 31
      BY <2>1, <2>2, <2>4, <2>5, <2>6, <2>8 DEF ClampedMonthDay
    <3>3. QED
      BY <2>4, <2>6, <3>1, <3>2 DEF DueDate
  <2>9. QED
    BY <2>7, <2>8
<1>3. QED
  BY <1>1, <1>2

-----------------------------------------------------------------------------
(* The calendar of an obligation: its due dates are the days of OnCalendar. *)

\* The month a day lies in.
LEMMA DayInMonth ==
  ASSUME NEW d \in Nat
  PROVE  /\ MonthOf(d) \in Nat
         /\ MonthStart(MonthOf(d)) \in Nat
         /\ MonthLength(MonthOf(d)) \in 28 .. 31
         /\ MonthStart(MonthOf(d) + 1) = MonthStart(MonthOf(d)) + MonthLength(MonthOf(d))
         /\ d - MonthStart(MonthOf(d)) \in 0 .. MonthLength(MonthOf(d)) - 1
<1>1. PICK m \in Nat : d - MonthStart(m) \in 0 .. MonthLength(m) - 1
  BY EveryDayHasAMonth
<1>2. MonthOf(d) = m
  BY <1>1, MonthOfIs
<1>3. /\ MonthStart(m) \in Nat /\ MonthLength(m) \in 28 .. 31
      /\ MonthStart(m + 1) = MonthStart(m) + MonthLength(m)
  BY MonthTypes, MonthSteps
<1>4. QED
  BY <1>1, <1>2, <1>3

\* Later days do not lie in earlier months, and days of one month are at most 30 apart.
LEMMA MonthsInOrder ==
  ASSUME NEW d \in Nat, NEW e \in Nat, d <= e
  PROVE  /\ MonthOf(d) <= MonthOf(e)
         /\ MonthOf(d) = MonthOf(e) => e - d <= 30
<1>1. /\ MonthOf(d) \in Nat /\ MonthStart(MonthOf(d)) \in Nat /\ MonthLength(MonthOf(d)) \in 28 .. 31
      /\ d - MonthStart(MonthOf(d)) \in 0 .. MonthLength(MonthOf(d)) - 1
  BY DayInMonth
<1>2. /\ MonthOf(e) \in Nat /\ MonthStart(MonthOf(e)) \in Nat /\ MonthLength(MonthOf(e)) \in 28 .. 31
      /\ e - MonthStart(MonthOf(e)) \in 0 .. MonthLength(MonthOf(e)) - 1
  BY DayInMonth
<1>3. CASE MonthOf(e) < MonthOf(d)
  <2>1. MonthStart(MonthOf(e)) + MonthLength(MonthOf(e)) <= MonthStart(MonthOf(d))
    BY <1>1, <1>2, <1>3, MonthsOrdered
  <2>2. QED
    BY <1>1, <1>2, <2>1
<1>4. CASE MonthOf(d) <= MonthOf(e)
  BY <1>1, <1>2, <1>4
<1>5. QED
  BY <1>1, <1>2, <1>3, <1>4

\* For a monthly cadence the days of the calendar are the clamped days.
LEMMA ClampedOnCalendar ==
  ASSUME NEW c \in CadenceSet, NEW start, c.kind = "MONTHLY", NEW m \in Nat
  PROVE  OnCalendar(c, start, ClampedMonthDay(m, c.day))
<1>1. c.day \in 1 .. 31
  BY DEF CadenceSet, Weekly, Monthly
<1>2. DEFINE d == ClampedMonthDay(m, c.day)
<1>3. /\ d \in Nat /\ MonthOf(d) = m
      /\ c.day <= MonthLength(m) => d - MonthStart(m) + 1 = c.day
      /\ c.day > MonthLength(m) => d + 1 = MonthStart(m + 1)
  BY <1>1, ClampedDay
<1>4. /\ MonthStart(m) \in Nat /\ MonthLength(m) \in 28 .. 31
      /\ MonthStart(m + 1) = MonthStart(m) + MonthLength(m)
  BY MonthTypes, MonthSteps
<1>5. \/ d - MonthStart(m) + 1 = c.day
      \/ d + 1 = MonthStart(m + 1) /\ d - MonthStart(m) + 1 < c.day
  BY <1>1, <1>3, <1>4
<1> HIDE DEF d
<1>6. OnCalendar(c, start, d)
  BY <1>3, <1>5 DEF OnCalendar
<1> QED
  BY <1>6 DEF d

\* A day of a monthly calendar is the clamped day of its month.
LEMMA OnCalendarIsClamped ==
  ASSUME NEW c \in CadenceSet, NEW start, c.kind = "MONTHLY", NEW d \in Nat, OnCalendar(c, start, d)
  PROVE  d = ClampedMonthDay(MonthOf(d), c.day)
<1>1. c.day \in 1 .. 31
  BY DEF CadenceSet, Weekly, Monthly
<1>2. DEFINE m == MonthOf(d)
<1>3. /\ m \in Nat /\ MonthStart(m) \in Nat /\ MonthLength(m) \in 28 .. 31
      /\ MonthStart(m + 1) = MonthStart(m) + MonthLength(m)
      /\ d - MonthStart(m) \in 0 .. MonthLength(m) - 1
  BY DayInMonth
<1>4. \/ d - MonthStart(m) + 1 = c.day
      \/ d + 1 = MonthStart(m + 1) /\ d - MonthStart(m) + 1 < c.day
  BY DEF OnCalendar
<1> HIDE DEF m
<1>5. d = ClampedMonthDay(m, c.day)
  BY <1>1, <1>3, <1>4 DEF ClampedMonthDay
<1> QED
  BY <1>5 DEF m

\* What nextWeekdayAtOrAfter() adds leads to the weekday it asks for.
LEMMA WeekdayReached ==
  ASSUME NEW d \in Nat, NEW w \in 0 .. 6
  PROVE  LET wait == (w - Weekday(d) + 7) % 7 IN
         wait \in 0 .. 6 /\ Weekday(d + wait) = w
<1>1. PICK q \in Nat, v \in 0 .. 6 : d + 1 = 7 * q + v
  <2>1. (d + 1) \div 7 \in Nat /\ (d + 1) % 7 \in 0 .. 6
        /\ d + 1 = 7 * ((d + 1) \div 7) + ((d + 1) % 7)
    OBVIOUS
  <2>2. QED
    BY <2>1
<1>2. ASSUME NEW n \in Nat, NEW k \in 0 .. 6 PROVE (7 * n + k) % 7 = k
  OBVIOUS
<1>3. Weekday(d) = v
  BY <1>1, <1>2 DEF Weekday
<1>4. CASE v <= w
  <2>1. (w - v + 7) % 7 = w - v
    BY <1>2, <1>4
  <2>2. d + (w - v) + 1 = 7 * q + w
    BY <1>1
  <2>3. QED
    BY <1>2, <1>3, <1>4, <2>1, <2>2 DEF Weekday
<1>5. CASE w < v
  <2>1. (w - v + 7) % 7 = w - v + 7
    BY <1>5
  <2>2. d + (w - v + 7) + 1 = 7 * (q + 1) + w
    BY <1>1
  <2>3. q + 1 \in Nat
    OBVIOUS
  <2>4. QED
    BY <1>2, <1>3, <1>5, <2>1, <2>2, <2>3 DEF Weekday
<1>6. QED
  BY <1>4, <1>5

\* The first due date is the first day of the calendar.
LEMMA FirstOnCalendar ==
  ASSUME NEW c \in CadenceSet, NEW start \in Nat
  PROVE  LET first == FirstDueAt(c, start) IN
         /\ first \in Nat /\ first - start \in 0 .. 31
         /\ OnCalendar(c, start, first)
         /\ \A d \in start .. first - 1 : ~OnCalendar(c, start, d)
<1>1. DEFINE first == FirstDueAt(c, start)
<1>2. first - start \in 0 .. 31 /\ DueDate(c, first)
  BY FirstDueInTime
<1>3. first \in Nat
  BY <1>2 DEF DueDate
<1>4. CASE c.kind # "MONTHLY"
  <2>1. c.kind \in {"WEEKLY", "BIWEEKLY"} /\ c.day \in 0 .. 6
    BY <1>4 DEF CadenceSet, Weekly, Monthly
  <2>2. first = start + ((c.day - Weekday(start) + 7) % 7)
    BY <1>4 DEF FirstDueAt, NextWeekdayAtOrAfter
  <2>3. first - start \in 0 .. 6 /\ Weekday(first) = c.day
    <3>1. DEFINE wait == (c.day - Weekday(start) + 7) % 7
    <3>2. wait \in 0 .. 6 /\ Weekday(start + wait) = c.day
      BY <2>1, WeekdayReached
    <3>3. first = start + wait
      BY <2>2
    <3> HIDE DEF wait, first
    <3> QED
      BY <3>2, <3>3
  <2>4. \A d \in start .. first - 1 : Weekday(d) # c.day
    BY <1>3, <2>1, <2>3 DEF Weekday
  <2>5. (first - start) % 14 < 7
    BY <1>3, <2>3
  <2> HIDE DEF first
  <2>6. OnCalendar(c, start, first)
    BY <2>1, <2>3, <2>5 DEF OnCalendar
  <2>7. \A d \in start .. first - 1 : ~OnCalendar(c, start, d)
    BY <2>1, <2>4 DEF OnCalendar
  <2> QED
    BY <1>2, <1>3, <2>6, <2>7 DEF first
<1>5. CASE c.kind = "MONTHLY"
  <2>1. PICK m \in Nat : first = ClampedMonthDay(m, c.day)
    BY <1>2, <1>5 DEF DueDate
  <2>2. OnCalendar(c, start, first)
    BY <1>5, <2>1, ClampedOnCalendar
  <2>3. first = MonthlyAtOrAfter(start, c.day)
    BY <1>5 DEF FirstDueAt
  <2>4. c.day \in 1 .. 31
    BY <1>5 DEF CadenceSet, Weekly, Monthly
  <2>5. ASSUME NEW d \in start .. first - 1, OnCalendar(c, start, d)
        PROVE  FALSE
    <3>1. d \in Nat /\ start <= d /\ d < first
      BY <1>3, <2>5
    <3>2. d = ClampedMonthDay(MonthOf(d), c.day) /\ MonthOf(d) \in Nat
      BY <1>5, <2>5, <3>1, OnCalendarIsClamped, DayInMonth
    <3>3. MonthOf(start) <= MonthOf(d) /\ MonthOf(start) \in Nat
      BY <3>1, MonthsInOrder, DayInMonth
    <3>4. CASE MonthOf(d) = MonthOf(start)
      BY <2>3, <3>1, <3>2, <3>4 DEF MonthlyAtOrAfter
    <3>5. CASE MonthOf(start) < MonthOf(d)
      <4>1. MonthOf(d) <= MonthOf(first) /\ MonthOf(first) \in Nat
        BY <1>3, <3>1, MonthsInOrder, DayInMonth
      <4>2. \/ first = ClampedMonthDay(MonthOf(start), c.day)
            \/ first = ClampedMonthDay(MonthOf(start) + 1, c.day)
        BY <2>3 DEF MonthlyAtOrAfter, NextCalendarMonth
      <4>3. MonthOf(start) + 1 \in Nat
        BY <3>3
      <4>4. MonthOf(first) \in {MonthOf(start), MonthOf(start) + 1}
        <5>1. ASSUME NEW n \in Nat PROVE MonthOf(ClampedMonthDay(n, c.day)) = n
          BY <2>4, ClampedDay
        <5> HIDE DEF first
        <5> QED
          BY <3>3, <4>2, <4>3, <5>1
      <4>5. MonthOf(d) = MonthOf(start) + 1 /\ MonthOf(first) = MonthOf(start) + 1
        BY <3>2, <3>3, <3>5, <4>1, <4>4
      <4>6. first = ClampedMonthDay(MonthOf(first), c.day)
        BY <1>3, <1>5, <2>2, OnCalendarIsClamped
      <4> QED
        BY <3>1, <3>2, <4>5, <4>6
    <3> QED
      BY <3>2, <3>3, <3>4, <3>5
  <2> QED
    BY <1>2, <1>3, <2>2, <2>5
<1> QED
  BY <1>4, <1>5

\* The next due date is the next day of the calendar, a week to 31 days later.
LEMMA NextOnCalendar ==
  ASSUME NEW c \in CadenceSet, NEW start \in Nat,
         NEW due \in Nat, start <= due, OnCalendar(c, start, due)
  PROVE  LET next == NextDueAt(c, due) IN
         /\ next \in Nat /\ next - due \in 7 .. 31
         /\ OnCalendar(c, start, next)
         /\ \A d \in due + 1 .. next - 1 : ~OnCalendar(c, start, d)
         /\ c.kind = "WEEKLY" => next = due + 7
         /\ c.kind = "BIWEEKLY" => next = due + 14
         /\ c.kind = "MONTHLY" => MonthOf(next) = MonthOf(due) + 1
<1>1. DEFINE next == NextDueAt(c, due)
<1>2. CASE c.kind = "WEEKLY"
  <2>1. next = due + 7 /\ c.day \in 0 .. 6
    BY <1>2 DEF NextDueAt, CadenceSet, Weekly, Monthly
  <2>2. Weekday(due) = c.day
    BY <1>2 DEF OnCalendar
  <2>3. Weekday(next) = c.day
    BY <2>1, <2>2 DEF Weekday
  <2>4. \A d \in due + 1 .. next - 1 : Weekday(d) # c.day
    BY <2>1, <2>2 DEF Weekday
  <2> HIDE DEF next
  <2>5. OnCalendar(c, start, next) /\ \A d \in due + 1 .. next - 1 : ~OnCalendar(c, start, d)
    BY <1>2, <2>3, <2>4 DEF OnCalendar
  <2> QED
    BY <1>2, <2>1, <2>5 DEF next
<1>3. CASE c.kind = "BIWEEKLY"
  <2>1. next = due + 14 /\ c.day \in 0 .. 6
    BY <1>3 DEF NextDueAt, CadenceSet, Weekly, Monthly
  <2>2. Weekday(due) = c.day /\ (due - start) % 14 < 7
    BY <1>3 DEF OnCalendar
  <2>3. Weekday(next) = c.day /\ (next - start) % 14 < 7
    BY <2>1, <2>2 DEF Weekday
  <2>4. \A d \in due + 1 .. next - 1 : Weekday(d) = c.day => d = due + 7
    BY <2>1, <2>2 DEF Weekday
  <2>5. ~((due + 7 - start) % 14 < 7)
    BY <2>2
  <2> HIDE DEF next
  <2>6. OnCalendar(c, start, next) /\ \A d \in due + 1 .. next - 1 : ~OnCalendar(c, start, d)
    BY <1>3, <2>3, <2>4, <2>5 DEF OnCalendar
  <2> QED
    BY <1>3, <2>1, <2>6 DEF next
<1>4. CASE c.kind = "MONTHLY"
  <2>1. c.day \in 1 .. 31
    BY <1>4 DEF CadenceSet, Weekly, Monthly
  <2>2. due = ClampedMonthDay(MonthOf(due), c.day) /\ MonthOf(due) \in Nat
    BY <1>4, OnCalendarIsClamped, DayInMonth
  <2>3. DueDate(c, due)
    BY <2>2 DEF DueDate
  <2>4. next - due \in 7 .. 31 /\ DueDate(c, next)
    BY <2>3, DueDatesAdvance
  <2>5. next = ClampedMonthDay(MonthOf(due) + 1, c.day) /\ MonthOf(due) + 1 \in Nat
    BY <1>4, <2>2 DEF NextDueAt, NextCalendarMonth
  <2>6. next \in Nat /\ OnCalendar(c, start, next) /\ MonthOf(next) = MonthOf(due) + 1
    <3>1. DEFINE m == MonthOf(due) + 1
    <3>2. m \in Nat /\ next = ClampedMonthDay(m, c.day)
      BY <2>5
    <3> HIDE DEF m, next
    <3>3. OnCalendar(c, start, ClampedMonthDay(m, c.day))
      BY <1>4, <3>2, ClampedOnCalendar
    <3>4. ClampedMonthDay(m, c.day) \in Nat /\ MonthOf(ClampedMonthDay(m, c.day)) = m
      BY <2>1, <3>2, ClampedDay
    <3>5. next \in Nat /\ OnCalendar(c, start, next) /\ MonthOf(next) = m
      BY <3>2, <3>3, <3>4
    <3> QED
      BY <3>5 DEF m
  <2>7. ASSUME NEW d \in due + 1 .. next - 1, OnCalendar(c, start, d)
        PROVE  FALSE
    <3>1. d \in Nat /\ due < d /\ d < next
      BY <2>6, <2>7
    <3>2. d = ClampedMonthDay(MonthOf(d), c.day) /\ MonthOf(d) \in Nat
      BY <1>4, <2>7, <3>1, OnCalendarIsClamped, DayInMonth
    <3>3. MonthOf(due) <= MonthOf(d) /\ MonthOf(d) <= MonthOf(next)
      BY <2>6, <3>1, MonthsInOrder
    <3>4. MonthOf(d) = MonthOf(due) \/ MonthOf(d) = MonthOf(due) + 1
      BY <2>2, <2>6, <3>2, <3>3
    <3> QED
      BY <2>2, <2>5, <3>1, <3>2, <3>4
  <2> QED
    BY <1>4, <2>4, <2>6, <2>7
<1> QED
  BY <1>2, <1>3, <1>4 DEF CadenceSet, Weekly, Monthly

-----------------------------------------------------------------------------
(* The rows of an obligation: the inductive invariant of DueCycles. *)

QuoteSet == [principal : Nat, fees : Nat, recipient : {"PAYEE", "BACKUP", "NONE"}]

Outcomes == {"PAYEE", "BACKUP", "REFUSED", "SKIPPED", "ASKED", "EXPIRED", "DECLINED"}

Rows == [due : Nat, ran : Nat, paid : {"PENDING"} \cup Outcomes, quote : QuoteSet]

\* Every variable has its type, and today bounds what has happened.
TypesOK ==
  /\ status \in {"ACTIVE", "STOPPED"}
  /\ cadence \in CadenceSet
  /\ createdAt \in Nat /\ today \in Nat /\ createdAt <= today
  /\ rows \in Seq(Rows)
  /\ lastRun \in -1 .. today
  /\ expires \in Nat
  /\ lastActive \in 0 .. today
  /\ continuity \in [days : Nat, expires : Nat]
  /\ neglected \in BOOLEAN
  /\ ledger \in [period : Nat, charged : Int]

\* The rows are the days of the calendar before the next due date, a week apart
\* at least, and a last run left none of them to be made.
CalendarOK ==
  /\ \A i \in DOMAIN rows : rows[i].due \in createdAt .. today /\ OnCalendar(cadence, createdAt, rows[i].due)
  /\ \A i, j \in DOMAIN rows : i < j => rows[i].due + 7 <= rows[j].due
  /\ NextDue \in Nat /\ NextDue >= createdAt /\ NextDue > lastRun /\ NextDue <= today + 31
  /\ OnCalendar(cadence, createdAt, NextDue)
  /\ \A d \in createdAt .. NextDue - 1 : OnCalendar(cadence, createdAt, d) => \E i \in DOMAIN rows : rows[i].due = d

\* How far apart two due dates of a cadence are, k periods of it.
Apart(c, d, e, k) ==
  CASE c.kind = "WEEKLY" -> d + 7 * k <= e
    [] c.kind = "BIWEEKLY" -> d + 14 * k <= e
    [] OTHER -> MonthOf(d) < MonthOf(e)

\* The rows are as far apart as their cadence says.
SpacingOK ==
  \A i, j \in DOMAIN rows : i < j => Apart(cadence, rows[i].due, rows[j].due, j - i)

\* Rows are decided one after the other, not before they are due.
DecidedOK ==
  /\ \A i, j \in DOMAIN rows : i < j /\ rows[i].paid = "PENDING" => rows[j].paid = "PENDING"
  /\ \A i \in DOMAIN rows :
       /\ rows[i].ran <= today
       /\ rows[i].paid = "PENDING" => rows[i].ran = 0
       /\ rows[i].paid # "PENDING" => rows[i].due <= rows[i].ran
  /\ lastRun = today => Pending = {} /\ NextDue > today

\* The window was last counted from a row's due date or the next one, at most
\* 31 days before it.
WindowOK ==
  status = "ACTIVE" =>
    /\ expires = NextDue + Grace \/ \E i \in DOMAIN rows : expires = rows[i].due + Grace
    /\ expires <= lastActive + 31 + Grace

\* Nothing is late, and the window is open for longer than the application waits
\* to ask for a renewal.
AttentiveOK ==
  status = "ACTIVE" /\ ~neglected =>
    /\ NextDue >= today
    /\ today + WarningWindow <= expires
    /\ continuity.days = 0 \/ continuity.days > 31

-----------------------------------------------------------------------------
(* What the steps do to the rows. *)

\* A round of the scheduler's loop over the rows.
Decision == \E i \in Pending, price \in Prices : DecideCycle(i, price)

\* A tap on a cycle that requires approval.
Answers(i) == Approve(i) \/ ApproveLapsed(i) \/ SkipCycle(i)
Answer == \E i \in Asked : Answers(i)

\* What an answer is, in two ways.
LEMMA AnswerFinishes ==
  ASSUME NEW i, Answers(i)
  PROVE  \E outcome \in {"PAYEE", "REFUSED", "EXPIRED", "DECLINED"} : Finish(i, outcome)
<1>1. CASE Approve(i)
  BY <1>1 DEF Approve, CycleAllows
<1>2. CASE ApproveLapsed(i) \/ SkipCycle(i)
  BY <1>2 DEF ApproveLapsed, SkipCycle
<1> QED
  BY <1>1, <1>2 DEF Answers

\* The plan of an obligation never changes, nor its calendar.
LEMMA PlanStays ==
  ASSUME [Next]_vars
  PROVE  cadence' = cadence /\ createdAt' = createdAt
<1>1. CASE Answer
  BY <1>1, AnswerFinishes DEF Answer, Finish
<1>2. CASE Decision
  BY <1>2 DEF Decision, DecideCycle
<1> QED
  BY <1>1, <1>2 DEF Next, vars, Renew, SetUpContinuity, Visit, Stop, GenerateDueCycle, Decision, Answer, Answers,
     EndRun, NextDay

\* The steps of the users and of the clock, and the end of a run, leave the rows alone.
LEMMA RowsStay ==
  ASSUME [Next]_vars, ~GenerateDueCycle, ~Decision, ~Answer
  PROVE  rows' = rows /\ NextDue' = NextDue /\ Pending' = Pending /\ ledger' = ledger
<1>1. rows' = rows /\ ledger' = ledger
  BY DEF Next, vars, Renew, SetUpContinuity, Visit, Stop, EndRun, NextDay, Decision, Answer, Answers
<1>2. QED
  BY <1>1, PlanStays DEF NextDue, Pending

\* A new row is the last one, PENDING, and due on the day the scheduler waited for.
LEMMA Generates ==
  ASSUME TypesOK, NextDue \in Nat, GenerateDueCycle
  PROVE  /\ rows' \in Seq(Rows)
         /\ DOMAIN rows = 1 .. Len(rows) /\ DOMAIN rows' = 1 .. Len(rows) + 1
         /\ \A i \in DOMAIN rows : rows'[i] = rows[i]
         /\ rows'[Len(rows) + 1] = [due |-> NextDue, ran |-> 0, paid |-> "PENDING", quote |-> NoQuote]
         /\ NextDue' = NextDueAt(cadence, NextDue)
<1>1. DEFINE row == [due |-> NextDue, ran |-> 0, paid |-> "PENDING", quote |-> NoQuote]
<1>2. row \in Rows /\ rows \in Seq(Rows) /\ rows' = Append(rows, row) /\ row.due = NextDue
  BY DEF TypesOK, Rows, QuoteSet, NoQuote, GenerateDueCycle
<1> HIDE DEF row
<1>3. /\ rows' \in Seq(Rows) /\ Len(rows') = Len(rows) + 1 /\ Len(rows) \in Nat
      /\ DOMAIN rows = 1 .. Len(rows) /\ DOMAIN rows' = 1 .. Len(rows) + 1
      /\ \A i \in DOMAIN rows : rows'[i] = rows[i]
      /\ rows'[Len(rows) + 1] = row
  BY <1>2
<1>4. rows' # << >> /\ Last(rows') = row
  BY <1>3 DEF Last
<1>5. cadence' = cadence
  BY DEF GenerateDueCycle
<1>6. NextDue' = NextDueAt(cadence, NextDue)
  BY <1>2, <1>4, <1>5 DEF NextDue
<1> QED
  BY <1>3, <1>6 DEF row

\* A quote is one of the set, and tells its price.
LEMMA QuoteTypes ==
  ASSUME NEW price \in Prices
  PROVE  /\ QuoteOf(price) \in QuoteSet
         /\ QuoteOf(price).principal \in Nat /\ QuoteOf(price).fees \in Nat
         /\ Cost(QuoteOf(price)) \in Nat
         /\ Outcome(QuoteOf(price)) \in {"PAYEE", "BACKUP", "REFUSED", "SKIPPED", "ASKED"}
<1>1. price.principal \in Nat /\ price.fees \in Nat
  BY DueCyclesAssumption
<1>2. /\ QuoteOf(price).principal = price.principal /\ QuoteOf(price).fees = price.fees
      /\ QuoteOf(price).recipient \in {"PAYEE", "BACKUP"}
  BY DEF QuoteOf
<1>3. QuoteOf(price) \in QuoteSet
  BY <1>1 DEF QuoteOf, QuoteSet
<1>4. Outcome(QuoteOf(price)) \in {"PAYEE", "BACKUP", "REFUSED", "SKIPPED", "ASKED"}
  BY <1>2 DEF Outcome
<1> QED
  BY <1>1, <1>2, <1>3, <1>4 DEF Cost

\* Rows that keep their due dates have the same next one.
LEMMA SameNextDue ==
  ASSUME rows \in Seq(Rows), rows # << >>, rows' \in Seq(Rows), DOMAIN rows' = DOMAIN rows,
         \A j \in DOMAIN rows : rows'[j].due = rows[j].due,
         cadence' = cadence, createdAt' = createdAt
  PROVE  Len(rows') = Len(rows) /\ NextDue' = NextDue
<1>1. DOMAIN rows = 1 .. Len(rows) /\ DOMAIN rows' = 1 .. Len(rows') /\ Len(rows) \in Nat /\ Len(rows') \in Nat
  OBVIOUS
<1>2. Len(rows') = Len(rows)
  BY <1>1
<1>3. rows' # << >> /\ Len(rows) \in DOMAIN rows
  BY <1>1, <1>2
<1>4. Last(rows').due = Last(rows).due
  BY <1>2, <1>3 DEF Last
<1> QED
  BY <1>2, <1>3, <1>4 DEF NextDue

\* Deciding a row changes no other one and no due date.
LEMMA Decides ==
  ASSUME TypesOK, NEW i \in Pending, NEW price \in Prices, DecideCycle(i, price)
  PROVE  /\ i \in DOMAIN rows /\ rows[i].paid = "PENDING"
         /\ rows' \in Seq(Rows)
         /\ DOMAIN rows = 1 .. Len(rows) /\ DOMAIN rows' = DOMAIN rows /\ Len(rows') = Len(rows)
         /\ \A j \in DOMAIN rows : rows'[j].due = rows[j].due
         /\ \A j \in DOMAIN rows : j # i => rows'[j] = rows[j]
         /\ rows'[i].ran = today /\ rows'[i].paid = Outcome(QuoteOf(price)) /\ rows'[i].quote = QuoteOf(price)
         /\ rows'[i].paid \in {"PAYEE", "BACKUP", "REFUSED", "SKIPPED", "ASKED"}
         /\ NextDue' = NextDue
<1>1. i \in DOMAIN rows /\ rows[i].paid = "PENDING" /\ rows \in Seq(Rows) /\ today \in Nat
  BY DEF Pending, TypesOK
<1> DEFINE quote == QuoteOf(price)
           outcome == Outcome(quote)
           row == [rows[i] EXCEPT !.ran = today, !.paid = outcome, !.quote = quote]
<1>2. quote \in QuoteSet /\ outcome \in {"PAYEE", "BACKUP", "REFUSED", "SKIPPED", "ASKED"}
  BY QuoteTypes
<1>3. \A j \in DOMAIN rows : rows[j] \in Rows
  BY <1>1
<1>4. rows' = [rows EXCEPT ![i].ran = today, ![i].paid = outcome, ![i].quote = quote]
  BY DEF DecideCycle
<1> HIDE DEF quote, outcome
<1>5. rows' = [rows EXCEPT ![i] = row]
  BY <1>1, <1>4
<1>6. row \in Rows /\ row.ran = today /\ row.paid = outcome /\ row.quote = quote /\ row.due = rows[i].due
  BY <1>1, <1>2, <1>3 DEF Rows, Outcomes
<1> HIDE DEF row
<1>7. /\ rows' \in Seq(Rows) /\ DOMAIN rows = 1 .. Len(rows) /\ DOMAIN rows' = DOMAIN rows
  BY <1>1, <1>5, <1>6
<1>8. /\ \A j \in DOMAIN rows : j # i => rows'[j] = rows[j]
      /\ rows'[i] = row
  BY <1>1, <1>5
<1>9. \A j \in DOMAIN rows : rows'[j].due = rows[j].due
  BY <1>6, <1>8
<1>10. cadence' = cadence /\ createdAt' = createdAt
  BY DEF DecideCycle
<1>11. rows # << >>
  BY <1>1
<1>12. Len(rows') = Len(rows) /\ NextDue' = NextDue
  BY <1>1, <1>7, <1>9, <1>10, <1>11, SameNextDue
<1> QED
  BY <1>1, <1>2, <1>6, <1>7, <1>8, <1>9, <1>12 DEF quote, outcome

\* An answer changes the outcome of one row that had been put before the user.
LEMMA Finishes ==
  ASSUME TypesOK, NEW i \in Asked, Answers(i)
  PROVE  /\ i \in DOMAIN rows /\ rows[i].paid = "ASKED"
         /\ rows' \in Seq(Rows)
         /\ DOMAIN rows = 1 .. Len(rows) /\ DOMAIN rows' = DOMAIN rows /\ Len(rows') = Len(rows)
         /\ \A j \in DOMAIN rows : /\ rows'[j].due = rows[j].due /\ rows'[j].ran = rows[j].ran
                                   /\ rows'[j].quote = rows[j].quote
         /\ \A j \in DOMAIN rows : j # i => rows'[j] = rows[j]
         /\ rows'[i].paid \in {"PAYEE", "REFUSED", "EXPIRED", "DECLINED"}
         /\ NextDue' = NextDue /\ Pending' = Pending
         /\ today' = today /\ lastRun' = lastRun /\ lastActive' = today /\ status' = status
         /\ expires' = expires /\ continuity' = continuity /\ neglected' = neglected
<1>1. i \in DOMAIN rows /\ rows[i].paid = "ASKED" /\ rows \in Seq(Rows) /\ \A j \in DOMAIN rows : rows[j] \in Rows
  BY DEF Asked, TypesOK
<1>2. PICK outcome \in {"PAYEE", "REFUSED", "EXPIRED", "DECLINED"} : Finish(i, outcome)
  BY AnswerFinishes
<1> DEFINE row == [rows[i] EXCEPT !.paid = outcome]
<1>3. /\ today' = today /\ lastRun' = lastRun /\ lastActive' = today /\ status' = status
      /\ expires' = expires /\ continuity' = continuity /\ neglected' = neglected
      /\ cadence' = cadence /\ createdAt' = createdAt
  BY <1>2 DEF Finish
<1>4. rows' = [rows EXCEPT ![i] = row]
  BY <1>1, <1>2 DEF Finish
<1>5. /\ row \in Rows /\ row.paid = outcome
      /\ row.due = rows[i].due /\ row.ran = rows[i].ran /\ row.quote = rows[i].quote
  BY <1>1, <1>2 DEF Rows, Outcomes
<1> HIDE DEF row
<1>6. rows' \in Seq(Rows) /\ DOMAIN rows = 1 .. Len(rows) /\ DOMAIN rows' = DOMAIN rows
  BY <1>1, <1>4, <1>5
<1>7. (\A j \in DOMAIN rows : j # i => rows'[j] = rows[j]) /\ rows'[i] = row
  BY <1>1, <1>4
<1>8. \A j \in DOMAIN rows : /\ rows'[j].due = rows[j].due /\ rows'[j].ran = rows[j].ran
                            /\ rows'[j].quote = rows[j].quote
  BY <1>5, <1>7
<1>9. Len(rows') = Len(rows) /\ NextDue' = NextDue
  BY <1>1, <1>3, <1>6, <1>8, SameNextDue
<1>10. Pending' = Pending
  BY <1>1, <1>2, <1>5, <1>6, <1>7 DEF Pending
<1> QED
  BY <1>1, <1>2, <1>3, <1>5, <1>6, <1>7, <1>8, <1>9, <1>10

-----------------------------------------------------------------------------
\* The rows follow the calendar, whenever runs start, stop or are left out.
LEMMA CalendarInit ==
  ASSUME Init
  PROVE  TypesOK /\ CalendarOK
<1>1. /\ cadence \in CadenceSet /\ createdAt \in Nat /\ today = createdAt /\ lastActive = createdAt
      /\ rows = << >> /\ lastRun = -1 /\ status = "ACTIVE" /\ neglected = FALSE
      /\ continuity = [days |-> 0, expires |-> 0]
      /\ expires = FirstDueAt(cadence, createdAt) + Grace
  <2>1. PICK plan \in Plans : cadence = plan.cadence /\ createdAt = plan.createdAt
    BY DEF Init
  <2>2. plan.cadence \in CadenceSet /\ plan.createdAt \in Nat
    BY DueCyclesAssumption
  <2> QED
    BY <2>1, <2>2 DEF Init
<1>2. DEFINE first == FirstDueAt(cadence, createdAt)
<1>3. /\ first \in Nat /\ first - createdAt \in 0 .. 31 /\ OnCalendar(cadence, createdAt, first)
      /\ \A d \in createdAt .. first - 1 : ~OnCalendar(cadence, createdAt, d)
  BY <1>1, FirstOnCalendar
<1>4. NextDue = first
  BY <1>1 DEF NextDue
<1>5. Grace \in Nat
  BY DueCyclesAssumption
<1> HIDE DEF first
<1>6. rows \in Seq(Rows) /\ DOMAIN rows = {}
  BY <1>1, EmptySeq
<1>10. first + Grace \in Nat /\ lastRun \in -1 .. today /\ lastActive \in 0 .. today
  BY <1>1, <1>3, <1>5
<1>7. TypesOK
  <2>1. [days |-> 0, expires |-> 0] \in [days : Nat, expires : Nat]
    OBVIOUS
  <2>2. expires = first + Grace
    BY <1>1 DEF first
  <2>3. createdAt <= today /\ createdAt \in Nat /\ today \in Nat
    BY <1>1
  <2>4. ledger \in [period : Nat, charged : Int]
    <3>1. MonthOf(createdAt) \in Nat /\ ledger = [period |-> MonthOf(createdAt), charged |-> 0]
      BY <2>3, DayInMonth DEF Init
    <3> QED
      BY <3>1
  <2> QED
    BY <1>1, <1>6, <1>10, <2>1, <2>2, <2>3, <2>4 DEF TypesOK
<1>8. first >= createdAt /\ first > lastRun /\ first <= today + 31
  BY <1>1, <1>3
<1>9. CalendarOK
  BY <1>3, <1>4, <1>6, <1>8 DEF CalendarOK
<1> QED
  BY <1>7, <1>9

\* The next due date is a week at least after every row.
LEMMA NextIsLater ==
  ASSUME TypesOK, CalendarOK
  PROVE  /\ \A i \in DOMAIN rows : rows[i].due + 7 <= NextDue
         /\ rows # << >> => /\ Len(rows) \in DOMAIN rows
                            /\ NextDue = NextDueAt(cadence, rows[Len(rows)].due)
<1>1. /\ createdAt \in Nat /\ today \in Nat /\ cadence \in CadenceSet /\ rows \in Seq(Rows)
      /\ \A i \in DOMAIN rows : rows[i].due \in createdAt .. today /\ OnCalendar(cadence, createdAt, rows[i].due)
      /\ \A i, j \in DOMAIN rows : i < j => rows[i].due + 7 <= rows[j].due
  BY DEF TypesOK, CalendarOK
<1>2. CASE rows = << >>
  BY <1>2
<1>3. CASE rows # << >>
  <2>1. DEFINE n == Len(rows)
  <2>2. n \in Nat /\ DOMAIN rows = 1 .. n /\ n \in DOMAIN rows
    BY <1>1, <1>3
  <2>3. NextDue = NextDueAt(cadence, rows[n].due)
    BY <1>3 DEF NextDue, Last
  <2> HIDE DEF n
  <2>4. rows[n].due \in Nat /\ createdAt <= rows[n].due /\ OnCalendar(cadence, createdAt, rows[n].due)
    BY <1>1, <2>2
  <2>5. NextDue \in Nat /\ NextDue - rows[n].due \in 7 .. 31
    BY <1>1, <2>3, <2>4, NextOnCalendar
  <2>6. ASSUME NEW i \in DOMAIN rows PROVE rows[i].due + 7 <= NextDue
    <3>1. rows[i].due \in Nat
      BY <1>1
    <3>2. CASE i = n
      BY <2>4, <2>5, <3>2
    <3>3. CASE i < n
      <4>1. rows[i].due + 7 <= rows[n].due
        BY <1>1, <2>2, <3>3
      <4> QED
        BY <2>4, <2>5, <3>1, <4>1
    <3> QED
      BY <2>2, <3>2, <3>3
  <2> QED
    BY <2>2, <2>3, <2>6 DEF n
<1> QED
  BY <1>2, <1>3

\* Every step keeps the types, and today behind every day that is recorded.
LEMMA TypesStep ==
  ASSUME TypesOK, CalendarOK, [Next]_vars
  PROVE  TypesOK'
<1>1. /\ status \in {"ACTIVE", "STOPPED"} /\ cadence \in CadenceSet
      /\ createdAt \in Nat /\ today \in Nat /\ createdAt <= today
      /\ rows \in Seq(Rows) /\ lastRun \in -1 .. today /\ expires \in Nat /\ lastActive \in 0 .. today
      /\ continuity \in [days : Nat, expires : Nat] /\ neglected \in BOOLEAN
      /\ ledger \in [period : Nat, charged : Int]
  BY DEF TypesOK
<1>2. NextDue \in Nat /\ WindowEnd \in Nat /\ ContinuityDays \in Nat
  BY DueCyclesAssumption DEF CalendarOK, WindowEnd
<1>3. cadence' \in CadenceSet /\ createdAt' \in Nat
  BY <1>1, PlanStays
<1>4. CASE Renew
  BY <1>1, <1>2, <1>3, <1>4 DEF Renew, TypesOK
<1>5. ASSUME NEW days \in Thresholds, SetUpContinuity(days)
      PROVE  TypesOK'
  <2>1. days \in Nat
    BY DueCyclesAssumption
  <2>2. (neglected \/ days <= 31) \in BOOLEAN
    OBVIOUS
  <2>3. [days |-> days, expires |-> today + ContinuityDays] \in [days : Nat, expires : Nat]
    BY <1>1, <1>2, <2>1
  <2> QED
    BY <1>1, <1>3, <1>5, <2>2, <2>3 DEF SetUpContinuity, TypesOK
<1>6. CASE Visit
  BY <1>1, <1>3, <1>6 DEF Visit, TypesOK
<1>7. CASE Stop
  BY <1>1, <1>3, <1>7 DEF Stop, TypesOK
<1>8. CASE GenerateDueCycle
  <2>1. rows' \in Seq(Rows)
    BY <1>2, <1>8, Generates
  <2> QED
    BY <1>1, <1>3, <1>8, <2>1 DEF GenerateDueCycle, TypesOK
<1>9. ASSUME NEW i \in Pending, NEW price \in Prices, DecideCycle(i, price)
      PROVE  TypesOK'
  <2>1. rows' \in Seq(Rows)
    BY <1>9, Decides
  <2>2. Cost(QuoteOf(price)) \in Nat /\ Charged \in Int /\ MonthOf(today) \in Nat
    <3>1. Cost(QuoteOf(price)) \in Nat
      BY QuoteTypes
    <3>2. Charged \in Int
      BY <1>1 DEF Charged
    <3>3. MonthOf(today) \in Nat
      BY <1>1, DayInMonth
    <3> QED
      BY <3>1, <3>2, <3>3
  <2>3. ledger' \in [period : Nat, charged : Int]
    <3>1. ledger' = [period |-> MonthOf(today),
                     charged |-> Charged + (IF Outcome(QuoteOf(price)) \in Charges THEN Cost(QuoteOf(price)) ELSE 0)]
      BY <1>9 DEF DecideCycle
    <3> QED
      BY <2>2, <3>1
  <2>4. /\ today' = today /\ status' = status /\ lastRun' = lastRun /\ expires' = expires
        /\ lastActive' = lastActive /\ continuity' = continuity /\ neglected' = neglected
    BY <1>9 DEF DecideCycle
  <2> QED
    BY <1>1, <1>3, PlanStays, <2>1, <2>3, <2>4 DEF TypesOK
<1>10. CASE EndRun
  BY <1>1, <1>3, <1>10 DEF EndRun, TypesOK
<1>11. CASE NextDay
  <2>1. (neglected \/ NeedsRenewal \/ lastRun # today) \in BOOLEAN
    BY <1>1 DEF NeedsRenewal
  <2> QED
    BY <1>1, <1>3, <1>11, <2>1 DEF NextDay, TypesOK
<1>12. CASE UNCHANGED vars
  BY <1>1, <1>12 DEF vars, TypesOK
<1>13. ASSUME NEW i \in Asked, Answers(i)
       PROVE  TypesOK'
  <2>1. /\ rows' \in Seq(Rows) /\ i \in DOMAIN rows
        /\ today' = today /\ lastRun' = lastRun /\ lastActive' = today /\ status' = status
        /\ expires' = expires /\ continuity' = continuity /\ neglected' = neglected
    BY <1>13, Finishes
  <2>2. ledger' \in [period : Nat, charged : Int]
    <3>1. PICK outcome \in {"PAYEE", "REFUSED", "EXPIRED", "DECLINED"} : Finish(i, outcome)
      BY <1>13, AnswerFinishes
    <3>2. Cost(rows[i].quote) \in Nat
      <4>1. rows[i] \in Rows
        BY <1>1, <2>1
      <4> QED
        BY <4>1 DEF Rows, QuoteSet, Cost
    <3>3. ledger.charged - Cost(rows[i].quote) \in Int
      BY <1>1, <3>2
    <3>4. [ledger EXCEPT !.charged = @ - Cost(rows[i].quote)] \in [period : Nat, charged : Int]
      BY <1>1, <3>3
    <3> QED
      BY <1>1, <3>1, <3>4 DEF Finish
  <2> QED
    BY <1>1, <1>3, PlanStays, <2>1, <2>2 DEF TypesOK
<1> QED
  BY <1>4, <1>5, <1>6, <1>7, <1>8, <1>9, <1>10, <1>11, <1>12, <1>13 DEF Next, Answers

\* A new row takes the next day of the calendar, and NextDue moves to the one after
\* it; a run ends only when that is in the future.
LEMMA CalendarStep ==
  ASSUME TypesOK, CalendarOK, [Next]_vars
  PROVE  CalendarOK'
<1>1. /\ createdAt \in Nat /\ today \in Nat /\ createdAt <= today /\ cadence \in CadenceSet
      /\ lastRun \in -1 .. today /\ rows \in Seq(Rows)
  BY DEF TypesOK
<1>7. createdAt \in Nat /\ today \in Nat /\ lastRun \in Int
  BY <1>1
<1>2. /\ \A i \in DOMAIN rows : rows[i].due \in createdAt .. today /\ OnCalendar(cadence, createdAt, rows[i].due)
      /\ \A i, j \in DOMAIN rows : i < j => rows[i].due + 7 <= rows[j].due
      /\ NextDue \in Nat /\ NextDue >= createdAt /\ NextDue > lastRun /\ NextDue <= today + 31
      /\ OnCalendar(cadence, createdAt, NextDue)
      /\ \A d \in createdAt .. NextDue - 1 : OnCalendar(cadence, createdAt, d) => \E i \in DOMAIN rows : rows[i].due = d
  BY DEF CalendarOK
<1>6. NextDue \in Nat /\ NextDue >= createdAt /\ NextDue > lastRun /\ NextDue <= today + 31
  BY <1>2
<1>3. cadence' = cadence /\ createdAt' = createdAt 
  BY PlanStays
<1>4. CASE GenerateDueCycle
  <2>1. /\ DOMAIN rows = 1 .. Len(rows) /\ DOMAIN rows' = 1 .. Len(rows) + 1
        /\ \A i \in DOMAIN rows : rows'[i] = rows[i]
        /\ rows'[Len(rows) + 1] = [due |-> NextDue, ran |-> 0, paid |-> "PENDING", quote |-> NoQuote]
        /\ NextDue' = NextDueAt(cadence, NextDue)
    BY <1>2, <1>4, Generates
  <2>2. /\ NextDue' \in Nat /\ NextDue' - NextDue \in 7 .. 31 /\ OnCalendar(cadence, createdAt, NextDue')
        /\ \A d \in NextDue + 1 .. NextDue' - 1 : ~OnCalendar(cadence, createdAt, d)
    BY <1>1, <1>2, <2>1, NextOnCalendar
  <2>11. PICK next : next = NextDue'
    OBVIOUS
  <2>12. next \in Nat /\ next - NextDue \in 7 .. 31
    BY <2>2, <2>11
  <2>3. NextDue <= today /\ today' = today /\ lastRun' = lastRun
    BY <1>4 DEF GenerateDueCycle
  <2>4. Len(rows) \in Nat /\ rows'[Len(rows) + 1].due = NextDue /\ Len(rows) + 1 \in DOMAIN rows'
    BY <1>1, <2>1
  <2>5. \A i \in DOMAIN rows' : i \in DOMAIN rows \/ i = Len(rows) + 1
    BY <2>1, <2>4
  <2>6. \A i \in DOMAIN rows' : rows'[i].due \in createdAt .. today /\ OnCalendar(cadence, createdAt, rows'[i].due)
    BY <1>1, <1>2, <2>1, <2>3, <2>4, <2>5
  <2>7. \A i, j \in DOMAIN rows' : i < j => rows'[i].due + 7 <= rows'[j].due
    <3>1. ASSUME NEW i \in DOMAIN rows', NEW j \in DOMAIN rows', i < j
          PROVE  rows'[i].due + 7 <= rows'[j].due
      <4>1. i \in DOMAIN rows /\ rows'[i] = rows[i]
        BY <2>1, <2>4, <2>5, <3>1
      <4>2. CASE j \in DOMAIN rows
        BY <1>2, <2>1, <3>1, <4>1, <4>2
      <4>3. CASE j = Len(rows) + 1
        BY <2>4, <4>1, <4>3, NextIsLater
      <4> QED
        BY <2>5, <4>2, <4>3
    <3> QED
      BY <3>1
  <2>8. ASSUME NEW d \in createdAt .. next - 1, OnCalendar(cadence, createdAt, d)
        PROVE  \E i \in DOMAIN rows' : rows'[i].due = d
    <3>1. d \in Int /\ (d < NextDue \/ d = NextDue \/ d \in NextDue + 1 .. next - 1)
      <4>1. d \in Int /\ d <= next - 1
        BY <1>7, <2>12, <2>8
      <4> QED
        BY <1>6, <2>12, <4>1
    <3>2. CASE d < NextDue
      <4>1. d \in createdAt .. NextDue - 1
        BY <1>6, <1>7, <2>8, <3>2
      <4>2. PICK i \in DOMAIN rows : rows[i].due = d
        BY <1>2, <2>8, <4>1
      <4> QED
        BY <2>1, <2>4, <4>2
    <3>3. CASE d = NextDue
      BY <2>4, <3>3
    <3> QED
      <4>1. CASE d \in NextDue + 1 .. next - 1
        BY <2>2, <2>8, <2>11, <4>1
      <4> QED
        BY <3>1, <3>2, <3>3, <4>1
  <2>9. next >= createdAt /\ next > lastRun /\ next <= today + 31
    <3>1. next > NextDue
      BY <1>6, <2>12
    <3>2. next >= createdAt /\ next > lastRun
      BY <1>6, <1>7, <2>12, <3>1
    <3>3. next <= NextDue + 31
      BY <1>6, <2>12
    <3>4. next <= today + 31
      <4>1. NextDue <= today
        BY <2>3
      <4> QED
        BY <1>6, <1>7, <2>12, <3>3, <4>1
    <3> QED
      BY <3>2, <3>4
  <2>10. /\ \A i \in DOMAIN rows' : rows'[i].due \in createdAt' .. today' /\ OnCalendar(cadence', createdAt', rows'[i].due)
         /\ NextDue' \in Nat /\ NextDue' >= createdAt' /\ NextDue' > lastRun' /\ NextDue' <= today' + 31
         /\ OnCalendar(cadence', createdAt', NextDue')
         /\ \A d \in createdAt' .. NextDue' - 1 : OnCalendar(cadence', createdAt', d) => \E i \in DOMAIN rows' : rows'[i].due = d
    BY <1>3, <2>2, <2>3, <2>6, <2>8, <2>9, <2>11
  <2> QED
    BY <2>7, <2>10 DEF CalendarOK
<1>5. ASSUME ~GenerateDueCycle
      PROVE  CalendarOK'
  <2>1. /\ DOMAIN rows' = DOMAIN rows /\ NextDue' = NextDue
        /\ \A i \in DOMAIN rows : rows'[i].due = rows[i].due
    <3>1. CASE Decision
      BY <3>1, Decides DEF Decision
    <3>2. CASE Answer
      BY <3>2, Finishes DEF Answer
    <3>3. CASE ~Decision /\ ~Answer
      BY <1>5, <3>3, RowsStay
    <3> QED
      BY <3>1, <3>2, <3>3
  <2>2. today' \in {today, today + 1} /\ (lastRun' = lastRun \/ (lastRun' = today /\ NextDue > today))
    <3>1. CASE Answer
      BY <3>1, Finishes DEF Answer
    <3>2. CASE ~Answer
      BY <1>5, <3>2 DEF Next, vars, Renew, SetUpContinuity, Visit, Stop, DecideCycle, EndRun, NextDay, Answer, Answers
    <3> QED
      BY <3>1, <3>2
  <2>3. NextDue' > lastRun' /\ NextDue' <= today' + 31
    <3>1. NextDue > lastRun' /\ NextDue <= today' + 31
      <4>1. NextDue > lastRun'
        BY <1>6, <1>7, <2>2
      <4>2. today' \in Int /\ today <= today'
        BY <1>7, <2>2
      <4>3. NextDue <= today' + 31
        <5>1. \A n, a, b \in Int : n <= a + 31 /\ a <= b => n <= b + 31
          OBVIOUS
        <5>2. NextDue \in Int /\ today \in Int
          BY <1>6, <1>7
        <5> QED
          BY <1>6, <4>2, <5>1, <5>2
      <4> QED
        BY <4>1, <4>3
    <3> QED
      BY <2>1, <3>1
  <2>4. \A i \in DOMAIN rows : rows[i].due \in createdAt .. today'
    BY <1>1, <1>2, <2>2
  <2>5. \A i \in DOMAIN rows' : rows'[i].due \in createdAt' .. today' /\ OnCalendar(cadence', createdAt', rows'[i].due)
    BY <1>2, <1>3, <2>1, <2>4
  <2>6. /\ NextDue' \in Nat /\ NextDue' >= createdAt'
        /\ OnCalendar(cadence', createdAt', NextDue')
        /\ \A d \in createdAt' .. NextDue' - 1 : OnCalendar(cadence', createdAt', d) => \E i \in DOMAIN rows' : rows'[i].due = d
    BY <1>2, <1>3, <2>1
  <2>7. \A i, j \in DOMAIN rows' : i < j => rows'[i].due + 7 <= rows'[j].due
    BY <1>2, <2>1
  <2> QED
    BY <2>3, <2>5, <2>6, <2>7 DEF CalendarOK
<1> QED
  BY <1>4, <1>5

\* However late runs come and wherever they stop, the rows are the days of the
\* obligation's calendar from its creation to its last run, in order and each once,
\* for every cadence and every day of creation.
THEOREM RowsFollowCalendarForAll == Spec => []RowsFollowCalendar
<1>1. Init => TypesOK /\ CalendarOK
  BY CalendarInit
<1>2. TypesOK /\ CalendarOK /\ [Next]_vars => TypesOK' /\ CalendarOK'
  BY TypesStep, CalendarStep
<1>3. TypesOK /\ CalendarOK => RowsFollowCalendar
  <2> SUFFICES ASSUME TypesOK, CalendarOK PROVE RowsFollowCalendar
    OBVIOUS
  <2>1. /\ createdAt \in Nat /\ today \in Nat /\ lastRun \in -1 .. today /\ rows \in Seq(Rows)
        /\ NextDue \in Nat /\ NextDue > lastRun
        /\ \A i \in DOMAIN rows : rows[i].due \in createdAt .. today /\ OnCalendar(cadence, createdAt, rows[i].due)
        /\ \A i, j \in DOMAIN rows : i < j => rows[i].due + 7 <= rows[j].due
        /\ \A d \in createdAt .. NextDue - 1 : OnCalendar(cadence, createdAt, d) => \E i \in DOMAIN rows : rows[i].due = d
    BY DEF TypesOK, CalendarOK
  <2>2. \A i, j \in DOMAIN rows : i < j => rows[i].due < rows[j].due
    BY <2>1
  <2>3. \A d \in createdAt .. lastRun : d \in createdAt .. NextDue - 1
    BY <2>1
  <2> QED
    BY <2>1, <2>2, <2>3 DEF RowsFollowCalendar
<1> QED
  BY <1>1, <1>2, <1>3, PTL DEF Spec

-----------------------------------------------------------------------------
\* The next due date is a period further away than the last row.
LEMMA NextIsApart ==
  ASSUME NEW c \in CadenceSet, NEW start \in Nat, NEW e \in Nat, start <= e, OnCalendar(c, start, e)
  PROVE  /\ Apart(c, e, NextDueAt(c, e), 1)
         /\ \A d \in Nat, k \in Nat : Apart(c, d, e, k) => Apart(c, d, NextDueAt(c, e), k + 1)
<1>1. DEFINE next == NextDueAt(c, e)
<1>2. /\ next \in Nat /\ next - e \in 7 .. 31
      /\ c.kind = "WEEKLY" => next = e + 7
      /\ c.kind = "BIWEEKLY" => next = e + 14
      /\ c.kind = "MONTHLY" => MonthOf(next) = MonthOf(e) + 1
  BY NextOnCalendar
<1>3. c.kind \in {"WEEKLY", "BIWEEKLY", "MONTHLY"}
  BY DEF CadenceSet, Weekly, Monthly
<1>4. MonthOf(e) \in Nat /\ \A d \in Nat : MonthOf(d) \in Nat
  BY DayInMonth
<1> HIDE DEF next
<1>5. Apart(c, e, next, 1)
  BY <1>2, <1>3, <1>4 DEF Apart
<1>6. ASSUME NEW d \in Nat, NEW k \in Nat, Apart(c, d, e, k)
      PROVE  Apart(c, d, next, k + 1)
  <2>1. CASE c.kind = "WEEKLY"
    <3>1. d + 7 * k <= e /\ next = e + 7
      BY <1>2, <1>6, <2>1 DEF Apart
    <3>2. d + 7 * (k + 1) <= next
      BY <3>1
    <3> QED
      BY <2>1, <3>2 DEF Apart
  <2>2. CASE c.kind = "BIWEEKLY"
    <3>1. d + 14 * k <= e /\ next = e + 14
      BY <1>2, <1>6, <2>2 DEF Apart
    <3>2. d + 14 * (k + 1) <= next
      BY <3>1
    <3> QED
      BY <2>2, <3>2 DEF Apart
  <2>3. CASE c.kind = "MONTHLY"
    <3>1. MonthOf(d) < MonthOf(e) /\ MonthOf(next) = MonthOf(e) + 1
      BY <1>2, <1>6, <2>3 DEF Apart
    <3>2. MonthOf(d) < MonthOf(next)
      BY <1>4, <3>1
    <3> QED
      BY <2>3, <3>2 DEF Apart
  <2> QED
    BY <1>3, <2>1, <2>2, <2>3
<1> QED
  BY <1>5, <1>6 DEF next

\* The rows stay apart by the periods between them.
LEMMA SpacingStep ==
  ASSUME TypesOK, CalendarOK, SpacingOK, [Next]_vars
  PROVE  SpacingOK'
<1>1. cadence' = cadence
  BY PlanStays
<1>2. CASE GenerateDueCycle
  <2>1. DEFINE n == Len(rows)
  <2>2. /\ DOMAIN rows = 1 .. n /\ DOMAIN rows' = 1 .. n + 1 /\ n \in Nat
        /\ \A i \in DOMAIN rows : rows'[i] = rows[i]
        /\ rows'[n + 1] = [due |-> NextDue, ran |-> 0, paid |-> "PENDING", quote |-> NoQuote]
    BY <1>2, Generates DEF TypesOK, CalendarOK
  <2>3. \A i \in DOMAIN rows' : i \in DOMAIN rows \/ i = n + 1
    BY <2>2
  <2> HIDE DEF n
  <2>4. ASSUME NEW i \in DOMAIN rows', NEW j \in DOMAIN rows', i < j
        PROVE  Apart(cadence, rows'[i].due, rows'[j].due, j - i)
    <3>1. i \in DOMAIN rows /\ rows'[i] = rows[i] /\ i \in 1 .. n
      BY <2>2, <2>3, <2>4
    <3>2. CASE j \in DOMAIN rows
      BY <2>2, <2>4, <3>1, <3>2 DEF SpacingOK
    <3>3. CASE j = n + 1
      <4>1. rows'[j].due = NextDue
        BY <2>2, <3>3
      <4>2. n \in DOMAIN rows /\ NextDue = NextDueAt(cadence, rows[n].due)
        <5>1. rows # << >>
          BY <3>1
        <5> QED
          BY <5>1, NextIsLater DEF n
      <4>3. /\ cadence \in CadenceSet /\ createdAt \in Nat
            /\ rows[n].due \in Nat /\ createdAt <= rows[n].due
            /\ OnCalendar(cadence, createdAt, rows[n].due) /\ rows[i].due \in Nat
        BY <3>1, <4>2 DEF TypesOK, CalendarOK
      <4>4. CASE i = n
        <5>1. j - i = 1
          BY <2>2, <3>3, <4>4
        <5>2. Apart(cadence, rows[n].due, NextDueAt(cadence, rows[n].due), 1)
          BY <4>3, NextIsApart
        <5> QED
          BY <3>1, <4>1, <4>2, <4>4, <5>1, <5>2
      <4>5. CASE i < n
        <5>1. n - i \in Nat /\ j - i = (n - i) + 1
          BY <2>2, <3>1, <3>3, <4>5
        <5>2. Apart(cadence, rows[i].due, rows[n].due, n - i)
          BY <3>1, <4>2, <4>5 DEF SpacingOK
        <5>3. Apart(cadence, rows[i].due, NextDueAt(cadence, rows[n].due), (n - i) + 1)
          BY <4>3, <5>1, <5>2, NextIsApart
        <5> QED
          BY <3>1, <4>1, <4>2, <5>1, <5>3
      <4> QED
        BY <2>2, <3>1, <4>4, <4>5
    <3> QED
      BY <2>3, <3>2, <3>3
  <2> QED
    BY <1>1, <2>4 DEF SpacingOK
<1>3. CASE ~GenerateDueCycle
  <2>1. DOMAIN rows' = DOMAIN rows /\ \A i \in DOMAIN rows : rows'[i].due = rows[i].due
    <3>1. CASE Decision
      BY <3>1, Decides DEF Decision
    <3>2. CASE Answer
      BY <3>2, Finishes DEF Answer
    <3>3. CASE ~Decision /\ ~Answer
      BY <1>3, <3>3, RowsStay
    <3> QED
      BY <3>1, <3>2, <3>3
  <2> QED
    BY <1>1, <2>1 DEF SpacingOK
<1> QED
  BY <1>2, <1>3

\* Rows are decided in their order, on the day they are due or later.
LEMMA DecidedStep ==
  ASSUME TypesOK, CalendarOK, DecidedOK, [Next]_vars
  PROVE  DecidedOK'
<1>1. /\ today \in Nat /\ lastRun \in -1 .. today /\ rows \in Seq(Rows) /\ NextDue \in Nat
      /\ \A i \in DOMAIN rows : rows[i] \in Rows /\ rows[i].due <= today
  BY DEF TypesOK, CalendarOK
<1>2. /\ \A i, j \in DOMAIN rows : i < j /\ rows[i].paid = "PENDING" => rows[j].paid = "PENDING"
      /\ \A i \in DOMAIN rows : /\ rows[i].ran <= today
                                /\ rows[i].paid = "PENDING" => rows[i].ran = 0
                                /\ rows[i].paid # "PENDING" => rows[i].due <= rows[i].ran
      /\ lastRun = today => Pending = {} /\ NextDue > today
  BY DEF DecidedOK
<1>3. CASE GenerateDueCycle
  <2>1. DEFINE n == Len(rows)
  <2>2. /\ DOMAIN rows = 1 .. n /\ DOMAIN rows' = 1 .. n + 1 /\ n \in Nat
        /\ \A i \in DOMAIN rows : rows'[i] = rows[i]
        /\ rows'[n + 1] = [due |-> NextDue, ran |-> 0, paid |-> "PENDING", quote |-> NoQuote]
    BY <1>1, <1>3, Generates
  <2>3. \A i \in DOMAIN rows' : i \in DOMAIN rows \/ i = n + 1
    BY <2>2
  <2>4. rows'[n + 1].ran = 0 /\ rows'[n + 1].paid = "PENDING"
    BY <2>2
  <2> HIDE DEF n
  <2>5. today' = today /\ lastRun' = lastRun /\ lastRun < today
    BY <1>3 DEF GenerateDueCycle
  <2>6. \A i \in DOMAIN rows : \A j : i < j /\ j \in DOMAIN rows' /\ rows'[i].paid = "PENDING" => rows'[j].paid = "PENDING"
    BY <1>2, <2>2, <2>3, <2>4
  <2>7. \A j \in DOMAIN rows' : ~(n + 1 < j)
    BY <2>2
  <2>8. \A i, j \in DOMAIN rows' : i < j /\ rows'[i].paid = "PENDING" => rows'[j].paid = "PENDING"
    BY <2>3, <2>6, <2>7
  <2>9. \A i \in DOMAIN rows' : /\ rows'[i].ran <= today
                                /\ rows'[i].paid = "PENDING" => rows'[i].ran = 0
                                /\ rows'[i].paid # "PENDING" => rows'[i].due <= rows'[i].ran
    <3>1. 0 <= today
      BY <1>1
    <3> QED
      BY <1>2, <2>2, <2>3, <2>4, <3>1
  <2>10. lastRun' # today'
    BY <1>1, <2>5
  <2> QED
    BY <2>5, <2>8, <2>9, <2>10 DEF DecidedOK
<1>4. ASSUME NEW i \in Pending, NEW price \in Prices, DecideCycle(i, price)
      PROVE  DecidedOK'
  <2>1. /\ i \in DOMAIN rows /\ rows[i].paid = "PENDING" /\ DOMAIN rows' = DOMAIN rows
        /\ DOMAIN rows = 1 .. Len(rows)
        /\ \A j \in DOMAIN rows : rows'[j].due = rows[j].due
        /\ \A j \in DOMAIN rows : j # i => rows'[j] = rows[j]
        /\ rows'[i].ran = today /\ rows'[i].paid # "PENDING"
    BY <1>4, Decides
  <2>2. /\ today' = today /\ lastRun' = lastRun /\ lastRun < today
        /\ \A j \in DOMAIN rows : rows[j].paid = "PENDING" => i <= j
    BY <1>4 DEF DecideCycle, Pending
  <2>3. \A j, k \in DOMAIN rows : j < k /\ rows'[j].paid = "PENDING" => rows'[k].paid = "PENDING"
    <3>1. ASSUME NEW j \in DOMAIN rows, NEW k \in DOMAIN rows, j < k, rows'[j].paid = "PENDING"
          PROVE  rows'[k].paid = "PENDING"
      <4>1. j # i /\ rows[j].paid = "PENDING" /\ rows[k].paid = "PENDING"
        BY <1>2, <2>1, <3>1
      <4>2. i <= j
        BY <2>2, <4>1
      <4>3. k # i
        BY <2>1, <3>1, <4>2
      <4> QED
        BY <2>1, <4>1, <4>3
    <3> QED
      BY <3>1
  <2>4. \A j \in DOMAIN rows : /\ rows'[j].ran <= today
                               /\ rows'[j].paid = "PENDING" => rows'[j].ran = 0
                               /\ rows'[j].paid # "PENDING" => rows'[j].due <= rows'[j].ran
    <3>1. today <= today /\ rows'[i].due <= today
      BY <1>1, <2>1
    <3> QED
      BY <1>2, <2>1, <3>1
  <2>5. lastRun' # today'
    BY <1>1, <2>2
  <2> QED
    BY <2>1, <2>2, <2>3, <2>4, <2>5 DEF DecidedOK
<1>5. ASSUME ~GenerateDueCycle, ~Decision, ~Answer
      PROVE  DecidedOK'
  <2>1. rows' = rows /\ NextDue' = NextDue /\ Pending' = Pending
    BY <1>5, RowsStay
  <2>2. \/ today' = today /\ lastRun' = lastRun
        \/ today' = today /\ Pending = {} /\ NextDue > today
        \/ today' = today + 1 /\ lastRun' = lastRun
    BY <1>5 DEF Next, vars, Renew, SetUpContinuity, Visit, Stop, EndRun, NextDay, Decision, Answer, Answers
  <2>3. today' \in Int /\ today <= today' /\ (lastRun' = today' => Pending = {} /\ today' = today /\ NextDue > today)
    <3>1. CASE today' = today /\ lastRun' = lastRun
      BY <1>1, <1>2, <3>1
    <3>2. CASE today' = today /\ Pending = {} /\ NextDue > today
      BY <1>1, <3>2
    <3>3. CASE today' = today + 1 /\ lastRun' = lastRun
      BY <1>1, <3>3
    <3> QED
      BY <2>2, <3>1, <3>2, <3>3
  <2>4. \A j \in DOMAIN rows : rows[j].ran <= today'
    <3>1. \A j \in DOMAIN rows : rows[j].ran \in Int /\ rows[j].ran <= today
      BY <1>1, <1>2 DEF Rows
    <3>2. \A a, b, c \in Int : a <= b /\ b <= c => a <= c
      OBVIOUS
    <3> QED
      BY <1>1, <2>3, <3>1, <3>2
  <2>5. lastRun' = today' => Pending' = {} /\ NextDue' > today'
    BY <2>1, <2>3
  <2> QED
    BY <1>2, <2>1, <2>4, <2>5 DEF DecidedOK
<1>6. ASSUME NEW i \in Asked, Answers(i)
      PROVE  DecidedOK'
  <2>1. /\ i \in DOMAIN rows /\ rows[i].paid = "ASKED" /\ DOMAIN rows' = DOMAIN rows
        /\ \A j \in DOMAIN rows : rows'[j].due = rows[j].due /\ rows'[j].ran = rows[j].ran
        /\ \A j \in DOMAIN rows : j # i => rows'[j] = rows[j]
        /\ rows'[i].paid # "PENDING"
        /\ NextDue' = NextDue /\ Pending' = Pending /\ today' = today /\ lastRun' = lastRun
    BY <1>6, Finishes
  <2>2. \A j \in DOMAIN rows : rows'[j].paid = "PENDING" <=> rows[j].paid = "PENDING"
    BY <2>1
  <2>3. \A j, k \in DOMAIN rows' : j < k /\ rows'[j].paid = "PENDING" => rows'[k].paid = "PENDING"
    BY <1>2, <2>1, <2>2
  <2>4. \A j \in DOMAIN rows' : /\ rows'[j].ran <= today
                                /\ rows'[j].paid = "PENDING" => rows'[j].ran = 0
                                /\ rows'[j].paid # "PENDING" => rows'[j].due <= rows'[j].ran
    BY <1>2, <2>1, <2>2
  <2> QED
    BY <1>2, <2>1, <2>3, <2>4 DEF DecidedOK
<1> QED
  BY <1>3, <1>4, <1>5, <1>6 DEF Decision, Answer

-----------------------------------------------------------------------------
\* The cycles a month has paid for.
ChargedIn(table, m) ==
  {j \in DOMAIN table : table[j].paid \in {"PAYEE", "BACKUP"} /\ MonthOf(table[j].ran) = m}

\* A month that was asked for an exceptional price.
Strained(table, m) ==
  \E j \in DOMAIN table :
    table[j].paid # "PENDING" /\ MonthOf(table[j].ran) = m /\ Exceptional(table[j].quote)

\* What is put before the user is exceptional.  A month without such a price is charged
\* no more than a full ceiling for each cycle it paid for.
LedgerOK ==
  /\ \A j \in DOMAIN rows : rows[j].paid = "ASKED" => Exceptional(rows[j].quote)
  /\ \/ Strained(rows, ledger.period)
     \/ ledger.charged <= MaxAusdCost * Cardinality(ChargedIn(rows, ledger.period))

\* The cycles of a month can be counted.
LEMMA ChargedIsFinite ==
  ASSUME rows \in Seq(Rows), NEW m
  PROVE  IsFiniteSet(ChargedIn(rows, m)) /\ Cardinality(ChargedIn(rows, m)) \in Nat
<1>1. IsFiniteSet(1 .. Len(rows)) /\ ChargedIn(rows, m) \in SUBSET (1 .. Len(rows))
  BY FS_Interval DEF ChargedIn
<1> QED
  BY <1>1, FS_Subset, FS_CardinalityType

\* What the ledger holds for the month of today, if its prices are ordinary.
LEMMA ChargedIsBounded ==
  ASSUME TypesOK, LedgerOK, ~Strained(rows, MonthOf(today))
  PROVE  Charged \in Int /\ Charged <= MaxAusdCost * Cardinality(ChargedIn(rows, MonthOf(today)))
<1>1. Cardinality(ChargedIn(rows, MonthOf(today))) \in Nat /\ MaxAusdCost \in Nat
  BY ChargedIsFinite, DueCyclesAssumption DEF TypesOK
<1>2. 0 <= MaxAusdCost * Cardinality(ChargedIn(rows, MonthOf(today)))
  BY <1>1
<1>3. CASE ledger.period = MonthOf(today)
  BY <1>3 DEF LedgerOK, Charged, TypesOK
<1>4. CASE ledger.period # MonthOf(today)
  BY <1>2, <1>4 DEF Charged
<1> QED
  BY <1>3, <1>4

\* Out of the tolerances, or dearer than a ceiling.
LEMMA OrdinaryPrice ==
  ASSUME NEW quote, quote.principal \in Nat, quote.fees \in Nat, ~Exceptional(quote)
  PROVE  WithinTolerance(quote) /\ Cost(quote) \in Nat /\ Cost(quote) <= MaxAusdCost
<1>1. MaxAusdCost \in Nat /\ MaxFeeAusd \in Nat
  BY DueCyclesAssumption
<1>2. ~(quote.principal + quote.fees > MaxAusdCost) /\ ~(quote.fees > MaxFeeAusd)
  BY DEF Exceptional, Cost
<1>3. quote.principal <= MaxAusdCost /\ quote.fees <= MaxFeeAusd /\ quote.principal + quote.fees <= MaxAusdCost
  BY <1>1, <1>2
<1> QED
  BY <1>3 DEF WithinTolerance, Cost

\* The ledger follows the rows: a decision charges a cycle to the month of its day, and
\* only what had been put before the user is released.
LEMMA LedgerStep ==
  ASSUME TypesOK, CalendarOK, LedgerOK, [Next]_vars
  PROVE  LedgerOK'
<1>1. /\ rows \in Seq(Rows) /\ today \in Nat /\ ledger \in [period : Nat, charged : Int]
      /\ NextDue \in Nat /\ MaxAusdCost \in Nat
  BY DueCyclesAssumption DEF TypesOK, CalendarOK
<1>2. /\ \A j \in DOMAIN rows : rows[j].paid = "ASKED" => Exceptional(rows[j].quote)
      /\ \/ Strained(rows, ledger.period)
         \/ ledger.charged <= MaxAusdCost * Cardinality(ChargedIn(rows, ledger.period))
  BY DEF LedgerOK
<1>3. CASE GenerateDueCycle
  <2>1. DEFINE n == Len(rows)
  <2>2. /\ DOMAIN rows = 1 .. n /\ DOMAIN rows' = 1 .. n + 1 /\ n \in Nat
        /\ \A i \in DOMAIN rows : rows'[i] = rows[i]
        /\ rows'[n + 1] = [due |-> NextDue, ran |-> 0, paid |-> "PENDING", quote |-> NoQuote]
    BY <1>1, <1>3, Generates
  <2>3. \A i \in DOMAIN rows' : i \in DOMAIN rows \/ i = n + 1
    BY <2>2
  <2>4. rows'[n + 1].paid = "PENDING" /\ \A i \in DOMAIN rows : i \in DOMAIN rows'
    BY <2>2
  <2> HIDE DEF n
  <2>5. ledger' = ledger
    BY <1>3 DEF GenerateDueCycle
  <2>6. ChargedIn(rows', ledger.period) = ChargedIn(rows, ledger.period)
    BY <2>2, <2>3, <2>4 DEF ChargedIn
  <2>7. Strained(rows, ledger.period) => Strained(rows', ledger.period)
    BY <2>2, <2>4 DEF Strained
  <2>8. \A j \in DOMAIN rows' : rows'[j].paid = "ASKED" => Exceptional(rows'[j].quote)
    BY <1>2, <2>2, <2>3, <2>4
  <2> QED
    BY <1>2, <2>5, <2>6, <2>7, <2>8 DEF LedgerOK, Exceptional, Strained
<1>4. ASSUME NEW i \in Pending, NEW price \in Prices, DecideCycle(i, price)
      PROVE  LedgerOK'
  <2> DEFINE quote == QuoteOf(price)
             m == MonthOf(today)
  <2>1. /\ i \in DOMAIN rows /\ rows[i].paid = "PENDING" /\ DOMAIN rows' = DOMAIN rows
        /\ \A j \in DOMAIN rows : j # i => rows'[j] = rows[j]
        /\ rows'[i].ran = today /\ rows'[i].paid = Outcome(quote) /\ rows'[i].quote = quote
        /\ rows'[i].paid \in {"PAYEE", "BACKUP", "REFUSED", "SKIPPED", "ASKED"}
    BY <1>4, Decides
  <2>2. quote.principal \in Nat /\ quote.fees \in Nat /\ Cost(quote) \in Nat
    BY QuoteTypes
  <2>3. /\ ledger'.period = m
        /\ ledger'.charged = Charged + (IF Outcome(quote) \in Charges THEN Cost(quote) ELSE 0)
    BY <1>4 DEF DecideCycle
  <2>7. quote.recipient \in {"PAYEE", "BACKUP"}
    BY DEF QuoteOf
  <2> HIDE DEF quote, m
  <2>4. Outcome(quote) = "ASKED" => Exceptional(quote)
    <3>1. Outcome(quote) = "ASKED" => ~WithinTolerance(quote)
      BY <2>7 DEF Outcome
    <3>2. ~Exceptional(quote) => WithinTolerance(quote)
      BY <2>2, OrdinaryPrice
    <3> QED
      BY <3>1, <3>2
  <2>5. \A j \in DOMAIN rows' : rows'[j].paid = "ASKED" => Exceptional(rows'[j].quote)
    BY <1>2, <2>1, <2>4
  <2>6. ASSUME ~Strained(rows', m)
        PROVE  ledger'.charged <= MaxAusdCost * Cardinality(ChargedIn(rows', m))
    <3>1. ~Exceptional(quote)
      BY <2>1, <2>6 DEF Strained, m
    <3>2. ~Strained(rows, m)
      BY <2>1, <2>6 DEF Strained
    <3>3. Charged \in Int /\ Charged <= MaxAusdCost * Cardinality(ChargedIn(rows, m))
      BY <3>2, ChargedIsBounded DEF m
    <3>4. IsFiniteSet(ChargedIn(rows, m)) /\ Cardinality(ChargedIn(rows, m)) \in Nat
      BY <1>1, ChargedIsFinite
    <3>5. Outcome(quote) # "ASKED" /\ Cost(quote) <= MaxAusdCost
      BY <2>2, <2>4, <3>1, OrdinaryPrice
    <3>6. CASE Outcome(quote) \in {"PAYEE", "BACKUP"}
      <4>1. ChargedIn(rows', m) = ChargedIn(rows, m) \cup {i} /\ i \notin ChargedIn(rows, m)
        BY <2>1, <3>6 DEF ChargedIn, m
      <4>2. Cardinality(ChargedIn(rows', m)) = Cardinality(ChargedIn(rows, m)) + 1
        BY <3>4, <4>1, FS_AddElement
      <4>3. ledger'.charged = Charged + Cost(quote)
        BY <2>3, <3>6 DEF Charges
      <4>4. \A a, b, c \in Int, k, n \in Nat : a <= k * n /\ b <= k /\ c = a + b => c <= k * (n + 1)
        OBVIOUS
      <4> QED
        BY <1>1, <2>2, <3>3, <3>4, <3>5, <4>2, <4>3, <4>4
    <3>7. CASE Outcome(quote) \notin {"PAYEE", "BACKUP"}
      <4>1. ChargedIn(rows', m) = ChargedIn(rows, m)
        BY <2>1, <3>7 DEF ChargedIn
      <4>2. ledger'.charged = Charged
        BY <2>3, <3>3, <3>5, <3>7 DEF Charges
      <4> QED
        BY <3>3, <4>1, <4>2
    <3> QED
      BY <3>6, <3>7
  <2> QED
    BY <2>3, <2>5, <2>6 DEF LedgerOK, Exceptional, Strained
<1>5. ASSUME NEW i \in Asked, Answers(i)
      PROVE  LedgerOK'
  <2>1. /\ i \in DOMAIN rows /\ rows[i].paid = "ASKED" /\ DOMAIN rows' = DOMAIN rows
        /\ \A j \in DOMAIN rows : rows'[j].ran = rows[j].ran /\ rows'[j].quote = rows[j].quote
        /\ \A j \in DOMAIN rows : j # i => rows'[j] = rows[j]
        /\ rows'[i].paid \in {"PAYEE", "REFUSED", "EXPIRED", "DECLINED"}
    BY <1>5, Finishes
  <2>2. Exceptional(rows[i].quote)
    BY <1>2, <2>1
  <2>3. ledger' = ledger \/ (ledger.period = MonthOf(rows[i].ran) /\ ledger'.period = ledger.period)
    <3>1. PICK outcome \in {"PAYEE", "REFUSED", "EXPIRED", "DECLINED"} : Finish(i, outcome)
      BY <1>5, AnswerFinishes
    <3>2. [ledger EXCEPT !.charged = @ - Cost(rows[i].quote)].period = ledger.period
      BY <1>1
    <3> QED
      BY <3>1, <3>2 DEF Finish
  <2>4. \A j \in DOMAIN rows' : rows'[j].paid = "ASKED" => Exceptional(rows'[j].quote)
    BY <1>2, <2>1
  <2>5. \A m : Strained(rows, m) => Strained(rows', m)
    BY <2>1 DEF Strained
  <2>6. CASE ledger.period = MonthOf(rows[i].ran)
    <3>1. Strained(rows, ledger.period)
      BY <2>1, <2>2, <2>6 DEF Strained
    <3>2. Strained(rows', ledger.period) /\ ledger'.period = ledger.period
      BY <2>3, <2>5, <3>1
    <3> QED
      BY <2>4, <3>2 DEF LedgerOK, Exceptional, Strained
  <2>7. CASE ledger.period # MonthOf(rows[i].ran)
    <3>1. ledger' = ledger
      BY <2>3, <2>7
    <3>2. ChargedIn(rows', ledger.period) = ChargedIn(rows, ledger.period)
      BY <2>1, <2>7 DEF ChargedIn
    <3> QED
      BY <1>2, <2>4, <2>5, <3>1, <3>2 DEF LedgerOK, Exceptional, Strained
  <2> QED
    BY <2>6, <2>7
<1>6. CASE ~GenerateDueCycle /\ ~Decision /\ ~Answer
  BY <1>2, <1>6, RowsStay DEF LedgerOK, Exceptional, Strained
<1> QED
  BY <1>3, <1>4, <1>5, <1>6 DEF Decision, Answer

\* A month that has paid for as many cycles as its cap was sized for has paid for one
\* of an earlier month, or is to: of those due in the month itself there are fewer
\* before the one to decide.
LEMMA MonthFits ==
  ASSUME TypesOK, CalendarOK, SpacingOK, DecidedOK, NEW i \in Pending,
         Cardinality(ChargedIn(rows, MonthOf(today))) >= MaxCyclesPerCalendarMonth
  PROVE  \E j \in ChargedIn(rows, MonthOf(today)) \cup {i} : j <= i /\ MonthOf(rows[j].due) < MonthOf(today)
<1>1. /\ i \in DOMAIN rows /\ rows[i].paid = "PENDING" /\ rows \in Seq(Rows) /\ today \in Nat
      /\ cadence \in CadenceSet /\ i \in Nat /\ DOMAIN rows = 1 .. Len(rows)
  BY DEF TypesOK, Pending
<1>2. SUFFICES ASSUME \A j \in ChargedIn(rows, MonthOf(today)) \cup {i} : j <= i => ~(MonthOf(rows[j].due) < MonthOf(today))
               PROVE  FALSE
  OBVIOUS
<1>3. \A j \in DOMAIN rows : /\ rows[j].due \in Nat /\ rows[j].ran \in Nat
                             /\ rows[j].due <= today /\ rows[j].ran <= today
  <2>1. ASSUME NEW j \in DOMAIN rows
        PROVE  rows[j].due \in createdAt .. today /\ rows[j].ran \in Nat /\ rows[j].ran <= today
    <3>1. rows[j] \in Rows
      BY <1>1
    <3> QED
      BY <3>1 DEF CalendarOK, DecidedOK, Rows
  <2>2. createdAt \in Nat
    BY DEF TypesOK
  <2> QED
    BY <1>1, <2>1, <2>2
<1>4. ASSUME NEW j \in DOMAIN rows PROVE MonthOf(rows[j].due) \in Nat /\ MonthOf(rows[j].due) <= MonthOf(today)
  BY <1>1, <1>3, MonthsInOrder, DayInMonth
<1>5. MonthOf(today) \in Nat
  BY <1>1, DayInMonth
<1>6. MonthOf(rows[i].due) = MonthOf(today)
  BY <1>1, <1>2, <1>4, <1>5
<1>7. ASSUME NEW j \in ChargedIn(rows, MonthOf(today))
      PROVE  /\ j \in Nat /\ j < i /\ MonthOf(rows[j].due) = MonthOf(rows[i].due)
             /\ rows[i].due - rows[j].due <= 30 /\ Apart(cadence, rows[j].due, rows[i].due, i - j)
             /\ rows[j].due \in Nat /\ rows[i].due \in Nat
  <2>1. j \in DOMAIN rows /\ rows[j].paid # "PENDING" /\ j \in Nat
    BY <1>1 DEF ChargedIn
  <2>2. j < i
    BY <1>1, <2>1 DEF DecidedOK
  <2>3. MonthOf(rows[j].due) = MonthOf(today)
    <3>1. ~(MonthOf(rows[j].due) < MonthOf(today))
      <4>1. j <= i
        BY <1>1, <2>1, <2>2
      <4> QED
        BY <1>2, <4>1
    <3>2. MonthOf(rows[j].due) \in Nat /\ MonthOf(rows[j].due) <= MonthOf(today)
      BY <1>4, <2>1
    <3> QED
      BY <1>5, <3>1, <3>2
  <2>4. rows[j].due <= rows[i].due
    BY <1>1, <1>3, <2>1, <2>2 DEF CalendarOK
  <2>5. rows[i].due - rows[j].due <= 30
    BY <1>1, <1>3, <1>6, <2>1, <2>3, <2>4, MonthsInOrder
  <2>6. Apart(cadence, rows[j].due, rows[i].due, i - j)
    BY <1>1, <2>1, <2>2 DEF SpacingOK
  <2> QED
    BY <1>1, <1>3, <1>6, <2>1, <2>2, <2>3, <2>5, <2>6
<1>8. ASSUME NEW k \in Nat, \A j \in ChargedIn(rows, MonthOf(today)) : j \in i - k .. i - 1
      PROVE  Cardinality(ChargedIn(rows, MonthOf(today))) <= k
  <2>1. IsFiniteSet(i - k .. i - 1) /\ Cardinality(i - k .. i - 1) = k
    <3>1. i - k \in Int /\ i - 1 \in Int
      BY <1>1
    <3>2. /\ IsFiniteSet(i - k .. i - 1)
          /\ Cardinality(i - k .. i - 1) = IF i - k > i - 1 THEN 0 ELSE (i - 1) - (i - k) + 1
      BY <3>1, FS_Interval
    <3> QED
      BY <1>1, <3>2
  <2>2. ChargedIn(rows, MonthOf(today)) \in SUBSET (i - k .. i - 1)
    BY <1>8
  <2>3. Cardinality(ChargedIn(rows, MonthOf(today))) <= Cardinality(i - k .. i - 1)
    BY <2>1, <2>2, FS_Subset
  <2> QED
    BY <2>1, <2>3
<1>9. Cardinality(ChargedIn(rows, MonthOf(today))) \in Nat
  <2>1. IsFiniteSet(1 .. Len(rows)) /\ ChargedIn(rows, MonthOf(today)) \in SUBSET (1 .. Len(rows))
    BY <1>1, FS_Interval DEF ChargedIn
  <2> QED
    BY <2>1, FS_Subset, FS_CardinalityType
<1>10. CASE cadence.kind = "WEEKLY"
  <2>1. ASSUME NEW j \in ChargedIn(rows, MonthOf(today)) PROVE j \in i - 4 .. i - 1
    <3>1. rows[j].due + 7 * (i - j) <= rows[i].due
      BY <1>7, <1>10 DEF Apart
    <3>2. 7 * (i - j) <= 30 /\ j \in Nat /\ j < i
      BY <1>1, <1>7, <3>1
    <3> QED
      BY <1>1, <3>2
  <2>2. Cardinality(ChargedIn(rows, MonthOf(today))) <= 4
    BY <1>8, <2>1
  <2> QED
    BY <1>9, <1>10, <2>2 DEF MaxCyclesPerCalendarMonth
<1>11. CASE cadence.kind = "BIWEEKLY"
  <2>1. ASSUME NEW j \in ChargedIn(rows, MonthOf(today)) PROVE j \in i - 2 .. i - 1
    <3>1. rows[j].due + 14 * (i - j) <= rows[i].due
      BY <1>7, <1>11 DEF Apart
    <3>2. 14 * (i - j) <= 30 /\ j \in Nat /\ j < i
      BY <1>1, <1>7, <3>1
    <3> QED
      BY <1>1, <3>2
  <2>2. Cardinality(ChargedIn(rows, MonthOf(today))) <= 2
    BY <1>8, <2>1
  <2> QED
    BY <1>9, <1>11, <2>2 DEF MaxCyclesPerCalendarMonth
<1>12. CASE cadence.kind = "MONTHLY"
  <2>1. ASSUME NEW j \in ChargedIn(rows, MonthOf(today)) PROVE FALSE
    <3>1. MonthOf(rows[j].due) < MonthOf(rows[i].due)
      BY <1>7, <1>12 DEF Apart
    <3> QED
      BY <1>5, <1>6, <1>7, <3>1
  <2>2. Cardinality(ChargedIn(rows, MonthOf(today))) = 0
    <3>1. ChargedIn(rows, MonthOf(today)) = {}
      BY <2>1
    <3> QED
      BY <3>1, FS_EmptySet
  <2> QED
    BY <1>12, <2>2 DEF MaxCyclesPerCalendarMonth
<1> QED
  BY <1>1, <1>10, <1>11, <1>12 DEF CadenceSet, Weekly, Monthly
\* The cap is used up only by exceptional prices, and by rows of an earlier month.
LEMMA CapFits ==
  ASSUME TypesOK, CalendarOK, SpacingOK, DecidedOK, LedgerOK, NEW i \in Pending, NEW price \in Prices,
         ~Fits(QuoteOf(price))
  PROVE  \/ Exceptional(QuoteOf(price))
         \/ MonthOf(rows[i].due) < MonthOf(today)
         \/ \E j \in DOMAIN rows : /\ j < i /\ rows[j].paid # "PENDING"
                                   /\ MonthOf(rows[j].ran) = MonthOf(today)
                                   /\ \/ MonthOf(rows[j].due) < MonthOf(today)
                                      \/ Exceptional(rows[j].quote)
<1> DEFINE quote == QuoteOf(price)
           m == MonthOf(today)
           n == Cardinality(ChargedIn(rows, m))
<1>1. /\ i \in DOMAIN rows /\ rows[i].paid = "PENDING" /\ rows \in Seq(Rows) /\ DOMAIN rows = 1 .. Len(rows)
      /\ cadence \in CadenceSet
  BY DEF TypesOK, Pending
<1>2. \A j \in DOMAIN rows : rows[j].paid # "PENDING" => j < i
  <2>1. ASSUME NEW j \in DOMAIN rows, rows[j].paid # "PENDING" PROVE j < i
    <3>1. ~(i < j) /\ j # i
      BY <1>1, <2>1 DEF DecidedOK
    <3> QED
      BY <1>1, <2>1, <3>1
  <2> QED
    BY <2>1
<1>3. SUFFICES ASSUME ~Exceptional(quote), ~Strained(rows, m)
               PROVE  \E j \in ChargedIn(rows, m) \cup {i} : j <= i /\ MonthOf(rows[j].due) < m
  <2>1. ChargedIn(rows, m) \subseteq {j \in DOMAIN rows : rows[j].paid # "PENDING" /\ MonthOf(rows[j].ran) = m}
    BY DEF ChargedIn
  <2> QED
    BY <1>2, <1>3, <2>1 DEF Strained
<1>4. quote.principal \in Nat /\ quote.fees \in Nat
  BY QuoteTypes
<1>5. Cost(quote) \in Nat /\ Cost(quote) <= MaxAusdCost
  BY <1>3, <1>4, OrdinaryPrice
<1>6. Charged \in Int /\ Charged <= MaxAusdCost * n
  BY <1>3, ChargedIsBounded
<1>7. n \in Nat /\ MaxAusdCost \in Nat /\ MaxCyclesPerCalendarMonth \in Nat
  <2>1. n \in Nat /\ MaxAusdCost \in Nat
    BY <1>1, ChargedIsFinite, DueCyclesAssumption
  <2>2. MaxCyclesPerCalendarMonth \in Nat
    BY <1>1 DEF MaxCyclesPerCalendarMonth, CadenceSet, Weekly, Monthly
  <2> QED
    BY <2>1, <2>2
<1>8. ~(Charged + Cost(quote) <= MaxAusdCost * MaxCyclesPerCalendarMonth)
  BY DEF Fits, Cap
<1> HIDE DEF quote, m, n
<1>9. n >= MaxCyclesPerCalendarMonth
  <2>1. SUFFICES ASSUME n + 1 <= MaxCyclesPerCalendarMonth PROVE FALSE
    BY <1>7
  <2>2. \A a, b \in Int, k, x, y \in Nat : a <= k * x /\ b <= k /\ x + 1 <= y => a + b <= k * y
    <3>1. ASSUME NEW a \in Int, NEW b \in Int, NEW k \in Nat, NEW x \in Nat, NEW y \in Nat,
                 a <= k * x, b <= k, x + 1 <= y
          PROVE  a + b <= k * y
      <4>1. PICK z \in Nat : y = (x + 1) + z
        <5>1. y - (x + 1) \in Nat /\ y = (x + 1) + (y - (x + 1))
          BY <3>1
        <5> QED
          BY <5>1
      <4>2. k * y = k * x + k + k * z /\ k * z >= 0 /\ k * x \in Nat
        BY <4>1
      <4> QED
        BY <3>1, <4>2
    <3> QED
      BY <3>1
  <2> QED
    BY <1>5, <1>6, <1>7, <1>8, <2>1, <2>2
<1> QED
  BY <1>9, MonthFits DEF m, n

\* The months and prices of the rows that were decided do not change, and a cycle that
\* is skipped finds them where they were.
LEMMA SkippedStep ==
  ASSUME TypesOK, CalendarOK, SpacingOK, DecidedOK, LedgerOK, OrdinaryMonthFits, [Next]_vars
  PROVE  OrdinaryMonthFits'
<1> DEFINE Reason(table, i, j) ==
             /\ MonthOf(table[j].ran) = MonthOf(table[i].ran)
             /\ MonthOf(table[j].due) < MonthOf(table[j].ran) \/ Exceptional(table[j].quote)
           Fitting(table) ==
             \A i \in DOMAIN table : table[i].paid = "SKIPPED" => \E j \in 1 .. i : Reason(table, i, j)
<1>1. rows \in Seq(Rows) /\ DOMAIN rows = 1 .. Len(rows) /\ Len(rows) \in Nat /\ NextDue \in Nat
  BY DEF TypesOK, CalendarOK
<1>2. Fitting(rows)
  BY DEF OrdinaryMonthFits, SameMonth, Late
<1>3. Fitting(rows') => OrdinaryMonthFits'
  BY DEF OrdinaryMonthFits, SameMonth, Late, Exceptional
<1>4. CASE GenerateDueCycle
  <2>1. DEFINE n == Len(rows)
  <2>2. /\ DOMAIN rows = 1 .. n /\ DOMAIN rows' = 1 .. n + 1 /\ n \in Nat
        /\ \A i \in DOMAIN rows : rows'[i] = rows[i]
        /\ rows'[n + 1] = [due |-> NextDue, ran |-> 0, paid |-> "PENDING", quote |-> NoQuote]
    BY <1>1, <1>4, Generates
  <2> HIDE DEF n
  <2>3. ASSUME NEW i \in DOMAIN rows', rows'[i].paid = "SKIPPED"
        PROVE  \E j \in 1 .. i : Reason(rows', i, j)
    <3>1. i \in DOMAIN rows \/ i = n + 1
      BY <2>2
    <3>2. i # n + 1
      BY <2>2, <2>3
    <3>3. rows'[i] = rows[i] /\ \A j \in 1 .. i : rows'[j] = rows[j]
      BY <2>2, <3>1, <3>2
    <3> QED
      BY <1>2, <2>3, <3>1, <3>2, <3>3
  <2> QED
    BY <1>3, <2>3
<1>5. ASSUME NEW i \in Pending, NEW price \in Prices, DecideCycle(i, price)
      PROVE  OrdinaryMonthFits'
  <2>1. /\ i \in DOMAIN rows /\ rows[i].paid = "PENDING" /\ DOMAIN rows' = DOMAIN rows
        /\ \A j \in DOMAIN rows : rows'[j].due = rows[j].due
        /\ \A j \in DOMAIN rows : j # i => rows'[j] = rows[j]
        /\ rows'[i].ran = today /\ rows'[i].paid = Outcome(QuoteOf(price)) /\ rows'[i].quote = QuoteOf(price)
    BY <1>5, Decides
  <2>2. ASSUME NEW k \in DOMAIN rows, rows'[k].paid = "SKIPPED"
        PROVE  \E j \in 1 .. k : Reason(rows', k, j)
    <3>1. CASE k = i
      <4>1. ~Fits(QuoteOf(price))
        <5>1. Outcome(QuoteOf(price)) = "SKIPPED"
          BY <2>1, <2>2, <3>1
        <5>2. QuoteOf(price).recipient # "SKIPPED"
          BY DEF QuoteOf
        <5> QED
          BY <5>1, <5>2 DEF Outcome
      <4>2. i \in 1 .. k
        BY <1>1, <2>1, <3>1
      <4>3. CASE Exceptional(QuoteOf(price))
        BY <2>1, <3>1, <4>2, <4>3
      <4>4. CASE MonthOf(rows[i].due) < MonthOf(today)
        BY <2>1, <3>1, <4>2, <4>4
      <4>5. CASE \E j \in DOMAIN rows : /\ j < i /\ rows[j].paid # "PENDING"
                                        /\ MonthOf(rows[j].ran) = MonthOf(today)
                                        /\ \/ MonthOf(rows[j].due) < MonthOf(today)
                                           \/ Exceptional(rows[j].quote)
        <5>1. PICK j \in DOMAIN rows : /\ j < i
                                       /\ MonthOf(rows[j].ran) = MonthOf(today)
                                       /\ \/ MonthOf(rows[j].due) < MonthOf(today)
                                          \/ Exceptional(rows[j].quote)
          BY <4>5
        <5>2. j \in 1 .. k /\ rows'[j] = rows[j]
          BY <1>1, <2>1, <3>1, <5>1
        <5> QED
          BY <2>1, <3>1, <5>1, <5>2
      <4> QED
        BY <4>1, <4>3, <4>4, <4>5, CapFits
    <3>2. CASE k # i
      <4>1. rows'[k] = rows[k]
        BY <2>1, <3>2
      <4>2. PICK j \in 1 .. k : Reason(rows, k, j)
        BY <1>2, <2>2, <4>1
      <4>3. j \in DOMAIN rows /\ j <= k
        BY <1>1, <4>2
      <4>4. j # i
        <5>1. j = k \/ j < k
          BY <1>1, <4>2
        <5>2. rows[k].paid # "PENDING"
          BY <2>2, <4>1
        <5> QED
          BY <2>1, <3>2, <4>3, <5>1, <5>2 DEF DecidedOK
      <4> QED
        BY <2>1, <4>1, <4>2, <4>3, <4>4
    <3> QED
      BY <3>1, <3>2
  <2> QED
    BY <1>3, <2>1, <2>2
<1>6. ASSUME NEW i \in Asked, Answers(i)
      PROVE  OrdinaryMonthFits'
  <2>1. /\ i \in DOMAIN rows /\ DOMAIN rows' = DOMAIN rows
        /\ \A j \in DOMAIN rows : /\ rows'[j].due = rows[j].due /\ rows'[j].ran = rows[j].ran
                                  /\ rows'[j].quote = rows[j].quote
        /\ \A j \in DOMAIN rows : j # i => rows'[j] = rows[j]
        /\ rows'[i].paid # "SKIPPED"
    BY <1>6, Finishes
  <2>2. ASSUME NEW k \in DOMAIN rows, rows'[k].paid = "SKIPPED"
        PROVE  \E j \in 1 .. k : Reason(rows', k, j)
    <3>1. rows[k].paid = "SKIPPED"
      BY <2>1, <2>2
    <3>2. PICK j \in 1 .. k : Reason(rows, k, j)
      BY <1>2, <3>1
    <3>3. j \in DOMAIN rows
      BY <1>1, <3>2
    <3> QED
      BY <2>1, <3>2, <3>3
  <2> QED
    BY <1>3, <2>1, <2>2
<1>7. CASE ~GenerateDueCycle /\ ~Decision /\ ~Answer
  BY <1>2, <1>3, <1>7, RowsStay
<1> QED
  BY <1>4, <1>5, <1>6, <1>7 DEF Decision, Answer

\* The invariant of the ledger holds of an obligation without rows.
LEMMA LedgerInit ==
  ASSUME Init
  PROVE  SpacingOK /\ DecidedOK /\ LedgerOK /\ OrdinaryMonthFits
<1>1. rows = << >> /\ lastRun = -1 /\ ledger.charged = 0
  BY DEF Init
<1>2. today \in Nat /\ rows \in Seq(Rows) /\ MaxAusdCost \in Nat
  BY CalendarInit, DueCyclesAssumption DEF TypesOK
<1>3. DOMAIN rows = {} /\ lastRun # today
  BY <1>1, <1>2
<1>4. Cardinality(ChargedIn(rows, ledger.period)) \in Nat
  BY <1>2, ChargedIsFinite
<1>5. ledger.charged <= MaxAusdCost * Cardinality(ChargedIn(rows, ledger.period))
  BY <1>1, <1>2, <1>4
<1> QED
  BY <1>3, <1>5 DEF SpacingOK, DecidedOK, LedgerOK, OrdinaryMonthFits

\* The cap of a plan is enough for each of its months, for every cadence, ceiling and
\* set of prices, as long as each cycle costs with its fees no more than a ceiling,
\* has fees within their own, and is decided in the month it is due in.
THEOREM OrdinaryMonthFitsForAll == Spec => []OrdinaryMonthFits
<1>1. Init => TypesOK /\ CalendarOK /\ SpacingOK /\ DecidedOK /\ LedgerOK /\ OrdinaryMonthFits
  BY CalendarInit, LedgerInit
<1>2. TypesOK /\ CalendarOK /\ SpacingOK /\ DecidedOK /\ LedgerOK /\ OrdinaryMonthFits /\ [Next]_vars
        => TypesOK' /\ CalendarOK' /\ SpacingOK' /\ DecidedOK' /\ LedgerOK' /\ OrdinaryMonthFits'
  BY TypesStep, CalendarStep, SpacingStep, DecidedStep, LedgerStep, SkippedStep
<1> QED
  BY <1>1, <1>2, PTL DEF Spec

-----------------------------------------------------------------------------
\* What needs no approval is not too dear for the policies.
LEMMA ToleranceAllows ==
  ASSUME NEW quote, quote.principal \in Nat, quote.fees \in Nat, WithinTolerance(quote)
  PROVE  Cost(quote) <= MaxAusdCost + MaxFeeAusd
<1>1. MaxAusdCost \in Nat /\ MaxFeeAusd \in Nat
  BY DueCyclesAssumption
<1>2. quote.principal <= MaxAusdCost /\ quote.fees <= MaxFeeAusd
  BY DEF WithinTolerance
<1>3. quote.principal + quote.fees <= MaxAusdCost + MaxFeeAusd
  BY <1>1, <1>2
<1> QED
  BY <1>3 DEF Cost

\* A sign of life ends the silence, and a decision after it is redirected.
LEMMA QuietStep ==
  ASSUME TypesOK, DecidedOK, NextDue \in Nat, QuietPaysBackup, [Next]_vars
  PROVE  QuietPaysBackup'
<1>1. DEFINE Quiet(ran, active, c) == c.days > 0 /\ ran >= active + c.days /\ ran < c.expires
<1>2. /\ rows \in Seq(Rows) /\ lastActive \in Nat /\ today \in Nat
      /\ continuity \in [days : Nat, expires : Nat] /\ continuity.days \in Nat
      /\ \A i \in DOMAIN rows : rows[i].ran \in Nat /\ rows[i].ran <= today
  <2>1. ASSUME NEW i \in DOMAIN rows PROVE rows[i].ran \in Nat /\ rows[i].ran <= today
    <3>1. rows[i] \in Rows
      BY DEF TypesOK
    <3> QED
      BY <3>1 DEF DecidedOK, Rows
  <2> QED
    BY <2>1 DEF TypesOK
<1>3. \A i \in DOMAIN rows : Quiet(rows[i].ran, lastActive, continuity) => rows[i].paid \in {"BACKUP", "SKIPPED", "ASKED"}
  BY DEF QuietPaysBackup
<1>4. \A c : \A ran \in Nat : c.days \in Nat /\ ran <= today => ~Quiet(ran, today, c)
  BY <1>2
<1>5. \A c : c.days \in Nat => ~Quiet(0, lastActive, c)
  BY <1>2
<1>6. Redirected /\ today < continuity.expires <=> Quiet(today, lastActive, continuity)
  BY <1>2 DEF Redirected
<1> HIDE DEF Quiet
<1>7. (\A i \in DOMAIN rows' : Quiet(rows'[i].ran, lastActive', continuity') => rows'[i].paid \in {"BACKUP", "SKIPPED", "ASKED"})
        => QuietPaysBackup'
  BY DEF QuietPaysBackup, Quiet
<1>8. CASE rows' = rows /\ lastActive' = today /\ continuity'.days \in Nat
  BY <1>2, <1>4, <1>7, <1>8
<1>9. CASE Renew \/ Visit \/ Stop
  BY <1>2, <1>8, <1>9 DEF Renew, Visit, Stop
<1>10. ASSUME NEW days \in Thresholds, SetUpContinuity(days)
       PROVE  QuietPaysBackup'
  BY <1>8, <1>10, DueCyclesAssumption DEF SetUpContinuity
<1>11. CASE GenerateDueCycle
  <2>1. DEFINE n == Len(rows)
  <2>2. /\ DOMAIN rows = 1 .. n /\ DOMAIN rows' = 1 .. n + 1 /\ n \in Nat
        /\ \A i \in DOMAIN rows : rows'[i] = rows[i]
        /\ rows'[n + 1] = [due |-> NextDue, ran |-> 0, paid |-> "PENDING", quote |-> NoQuote]
    BY <1>2, <1>11, Generates
  <2>3. \A i \in DOMAIN rows' : i \in DOMAIN rows \/ i = n + 1
    BY <2>2
  <2>4. rows'[n + 1].ran = 0 /\ lastActive' = lastActive /\ continuity' = continuity
    BY <1>11, <2>2 DEF GenerateDueCycle
  <2> HIDE DEF n
  <2> QED
    BY <1>2, <1>3, <1>5, <1>7, <2>2, <2>3, <2>4
<1>12. ASSUME NEW i \in Pending, NEW price \in Prices, DecideCycle(i, price)
       PROVE  QuietPaysBackup'
  <2>1. /\ i \in DOMAIN rows /\ DOMAIN rows' = DOMAIN rows
        /\ \A j \in DOMAIN rows : j # i => rows'[j] = rows[j]
        /\ rows'[i].ran = today /\ rows'[i].paid = Outcome(QuoteOf(price))
    BY <1>12, Decides
  <2>2. lastActive' = lastActive /\ continuity' = continuity
    BY <1>12 DEF DecideCycle
  <2>3. Redirected /\ today < continuity.expires => Outcome(QuoteOf(price)) \in {"BACKUP", "SKIPPED", "ASKED"}
    <3> DEFINE quote == QuoteOf(price)
    <3>1. SUFFICES ASSUME Redirected, today < continuity.expires, WithinTolerance(quote)
                   PROVE  quote.recipient = "BACKUP" /\ ContinuityAllows(quote)
      BY <3>1 DEF Outcome
    <3>2. quote.recipient = "BACKUP"
      BY <3>1 DEF QuoteOf
    <3>3. Cost(quote) <= MaxAusdCost + MaxFeeAusd
      BY <3>1, ToleranceAllows, QuoteTypes
    <3> QED
      BY <3>1, <3>2, <3>3 DEF ContinuityAllows
  <2> QED
    BY <1>3, <1>6, <1>7, <2>1, <2>2, <2>3
<1>13. CASE EndRun \/ NextDay \/ UNCHANGED vars
  <2>1. rows' = rows /\ lastActive' = lastActive /\ continuity' = continuity
    BY <1>13 DEF EndRun, NextDay, vars
  <2> QED
    BY <1>3, <1>7, <2>1
<1>14. ASSUME NEW i \in Asked, Answers(i)
       PROVE  QuietPaysBackup'
  <2>1. /\ DOMAIN rows' = DOMAIN rows /\ \A j \in DOMAIN rows : rows'[j].ran = rows[j].ran
        /\ lastActive' = today /\ continuity' = continuity
    BY <1>14, Finishes
  <2> QED
    BY <1>2, <1>4, <1>7, <2>1
<1> QED
  BY <1>9, <1>10, <1>11, <1>12, <1>13, <1>14 DEF Next, Answers

\* The redirection of a quiet user, for every threshold, window and number of rows:
\* what is decided after the threshold, and within the authority given for it, goes
\* to the backup recipient unless the month's cap is used up or the price is for the
\* user to approve.
THEOREM QuietPaysBackupForAll == Spec => []QuietPaysBackup
<1>1. Init => TypesOK /\ CalendarOK /\ DecidedOK /\ QuietPaysBackup
  <2> SUFFICES ASSUME Init PROVE TypesOK /\ CalendarOK /\ DecidedOK /\ QuietPaysBackup
    OBVIOUS
  <2>1. TypesOK /\ CalendarOK
    BY CalendarInit
  <2>2. rows = << >> /\ lastRun = -1 /\ today \in Nat
    BY <2>1 DEF Init, TypesOK
  <2>3. DOMAIN rows = {} /\ lastRun # today
    BY <2>2
  <2> QED
    BY <2>1, <2>3 DEF DecidedOK, QuietPaysBackup
<1>2. TypesOK /\ CalendarOK /\ DecidedOK /\ QuietPaysBackup /\ [Next]_vars
        => TypesOK' /\ CalendarOK' /\ DecidedOK' /\ QuietPaysBackup'
  <2>1. CalendarOK => NextDue \in Nat
    BY DEF CalendarOK
  <2> QED
    BY <2>1, TypesStep, CalendarStep, DecidedStep, QuietStep
<1> QED
  BY <1>1, <1>2, PTL DEF Spec

-----------------------------------------------------------------------------
\* The window follows the due dates, and a sign of life comes with each renewal.
LEMMA WindowStep ==
  ASSUME TypesOK, CalendarOK, WindowOK, [Next]_vars
  PROVE  WindowOK'
<1>1. /\ TypesOK /\ today \in Nat /\ expires \in Nat /\ lastActive \in Nat /\ lastActive <= today
      /\ NextDue \in Nat /\ NextDue <= today + 31 /\ Grace \in Nat
  BY DueCyclesAssumption DEF TypesOK, CalendarOK
<1>2. status = "ACTIVE" => /\ expires = NextDue + Grace \/ \E i \in DOMAIN rows : expires = rows[i].due + Grace
                           /\ expires <= lastActive + 31 + Grace
  BY DEF WindowOK
<1>3. CASE Renew
  <2>1. NextDue' = NextDue /\ expires' = NextDue + Grace /\ lastActive' = today
    BY <1>3, PlanStays DEF Renew, NextDue, WindowEnd
  <2>2. NextDue + Grace <= today + 31 + Grace
    BY <1>1
  <2> QED
    BY <2>1, <2>2 DEF WindowOK
<1>4. ASSUME Visit \/ \E days \in Thresholds : SetUpContinuity(days)
      PROVE  WindowOK'
  <2>1. rows' = rows /\ status' = status /\ expires' = expires /\ lastActive' = today /\ NextDue' = NextDue
    BY <1>4, PlanStays DEF Visit, SetUpContinuity, NextDue
  <2>2. expires <= lastActive + 31 + Grace => expires <= today + 31 + Grace
    BY <1>1
  <2> QED
    BY <1>2, <2>1, <2>2 DEF WindowOK
<1>5. CASE Stop
  BY <1>5 DEF Stop, WindowOK
<1>6. CASE GenerateDueCycle
  <2>1. DEFINE n == Len(rows)
  <2>2. /\ DOMAIN rows = 1 .. n /\ DOMAIN rows' = 1 .. n + 1 /\ n \in Nat
        /\ \A i \in DOMAIN rows : rows'[i] = rows[i]
        /\ rows'[n + 1] = [due |-> NextDue, ran |-> 0, paid |-> "PENDING", quote |-> NoQuote]
    BY <1>1, <1>6, Generates DEF TypesOK
  <2>3. status' = status /\ expires' = expires /\ lastActive' = lastActive
    BY <1>6 DEF GenerateDueCycle
  <2> HIDE DEF n
  <2>4. n + 1 \in DOMAIN rows' /\ rows'[n + 1].due = NextDue
    BY <2>2
  <2>5. \A i \in DOMAIN rows : i \in DOMAIN rows' /\ rows'[i].due = rows[i].due
    BY <2>2
  <2>6. status = "ACTIVE" => \E i \in DOMAIN rows' : expires = rows'[i].due + Grace
    BY <1>2, <2>4, <2>5
  <2> QED
    BY <1>2, <2>3, <2>6 DEF WindowOK
<1>7. CASE EndRun \/ NextDay \/ UNCHANGED vars \/ Decision \/ Answer
  <2>1. status' = status /\ expires' = expires /\ (lastActive' = lastActive \/ lastActive' = today)
    <3>1. CASE Answer
      BY <3>1, Finishes DEF Answer
    <3>2. CASE Decision
      BY <3>2 DEF Decision, DecideCycle
    <3>3. CASE EndRun \/ NextDay \/ UNCHANGED vars
      BY <3>3 DEF EndRun, NextDay, vars
    <3> QED
      BY <1>7, <3>1, <3>2, <3>3
  <2>3. expires <= lastActive + 31 + Grace => expires <= lastActive' + 31 + Grace
    BY <1>1, <2>1
  <2>2. /\ DOMAIN rows' = DOMAIN rows /\ NextDue' = NextDue
        /\ \A i \in DOMAIN rows : rows'[i].due = rows[i].due
    <3>3. CASE Answer
      BY <3>3, Finishes DEF Answer
    <3>1. CASE Decision
      BY <3>1, Decides DEF Decision
    <3>2. CASE EndRun \/ NextDay \/ UNCHANGED vars
      <4>1. rows' = rows
        BY <3>2 DEF EndRun, NextDay, vars
      <4> QED
        BY <4>1, PlanStays DEF NextDue
    <3> QED
      BY <1>7, <3>1, <3>2, <3>3
  <2> QED
    BY <1>2, <2>1, <2>2, <2>3 DEF WindowOK
<1> QED
  BY <1>3, <1>4, <1>5, <1>6, <1>7 DEF Next, Decision, Answer, Answers

\* The windows the code is configured with: the application asks before a grant
\* lapses, after the due date the grant was for, and before the next one.
WindowsFit ==
  0 < WarningWindow /\ WarningWindow <= Grace /\ Grace < WarningWindow + 7

\* An obligation that was stopped stays so, and so does neglect.
LEMMA NoneIsForgiven ==
  ASSUME [Next]_vars, status' = "ACTIVE", ~neglected'
  PROVE  status = "ACTIVE" /\ ~neglected
<1>1. CASE Stop
  BY <1>1 DEF Stop
<1>2. ASSUME NEW days \in Thresholds, SetUpContinuity(days)
      PROVE  status = "ACTIVE" /\ ~neglected
  BY <1>2 DEF SetUpContinuity
<1>3. CASE NextDay
  BY <1>3 DEF NextDay
<1>4. CASE Renew \/ Visit \/ GenerateDueCycle \/ EndRun \/ UNCHANGED vars
  <2>1. status' = status /\ neglected' = neglected
    BY <1>4 DEF Renew, Visit, GenerateDueCycle, EndRun, vars
  <2> QED
    BY <2>1
<1>5. ASSUME NEW i \in Pending, NEW price \in Prices, DecideCycle(i, price)
      PROVE  status = "ACTIVE" /\ ~neglected
  BY <1>5 DEF DecideCycle
<1>6. ASSUME NEW i \in Asked, Answers(i)
      PROVE  status = "ACTIVE" /\ ~neglected
  <2>1. status' = status /\ neglected' = neglected
    BY <1>6, AnswerFinishes DEF Finish
  <2> QED
    BY <2>1
<1> QED
  BY <1>1, <1>2, <1>3, <1>4, <1>5, <1>6 DEF Next, Answers

\* With an attentive user and a scheduler that runs every day, nothing is late.
LEMMA AttentiveStep ==
  ASSUME WindowsFit, TypesOK, CalendarOK, DecidedOK, AttentiveOK, [Next]_vars
  PROVE  AttentiveOK'
<1>1. /\ today \in Nat /\ expires \in Nat /\ NextDue \in Nat /\ Grace \in Nat /\ WarningWindow \in Nat
      /\ lastRun = today => NextDue > today
      /\ WarningWindow <= Grace /\ neglected \in BOOLEAN
  BY DueCyclesAssumption DEF TypesOK, CalendarOK, DecidedOK, WindowsFit
<1>2. SUFFICES ASSUME status' = "ACTIVE", ~neglected'
               PROVE  /\ NextDue' >= today'
                      /\ today' + WarningWindow <= expires'
                      /\ continuity'.days = 0 \/ continuity'.days > 31
  BY DEF AttentiveOK
<1>3. status = "ACTIVE" /\ ~neglected
  BY <1>2, NoneIsForgiven
<1>4. NextDue >= today /\ today + WarningWindow <= expires /\ (continuity.days = 0 \/ continuity.days > 31)
  BY <1>3 DEF AttentiveOK
<1>5. CASE Renew
  <2>1. /\ NextDue' = NextDue /\ today' = today /\ continuity' = continuity
        /\ expires' = NextDue + Grace
    BY <1>5, PlanStays DEF Renew, WindowEnd, NextDue
  <2>2. today + WarningWindow <= NextDue + Grace
    BY <1>1, <1>4
  <2> QED
    BY <1>4, <2>1, <2>2
<1>6. ASSUME NEW days \in Thresholds, SetUpContinuity(days)
      PROVE  /\ NextDue' >= today'
             /\ today' + WarningWindow <= expires'
             /\ continuity'.days = 0 \/ continuity'.days > 31
  <2>1. NextDue' = NextDue /\ today' = today /\ expires' = expires /\ continuity'.days = days
    BY <1>6, PlanStays DEF SetUpContinuity, NextDue
  <2>2. ~(days <= 31) /\ days \in Nat
    BY <1>2, <1>6, DueCyclesAssumption DEF SetUpContinuity
  <2>3. days > 31
    BY <2>2
  <2> QED
    BY <1>4, <2>1, <2>3
<1>7. CASE Visit
  <2>1. NextDue' = NextDue /\ today' = today /\ expires' = expires /\ continuity' = continuity
    BY <1>7, PlanStays DEF Visit, NextDue
  <2> QED
    BY <1>4, <2>1
<1>8. CASE Stop
  BY <1>2, <1>8 DEF Stop
<1>9. CASE GenerateDueCycle
  <2>1. today' = today /\ expires' = expires /\ continuity' = continuity
    BY <1>9 DEF GenerateDueCycle
  <2>2. NextDue' = NextDueAt(cadence, NextDue)
    BY <1>1, <1>9, Generates
  <2>3. NextDueAt(cadence, NextDue) \in Nat /\ NextDueAt(cadence, NextDue) - NextDue \in 7 .. 31
    BY NextOnCalendar DEF TypesOK, CalendarOK
  <2>4. NextDueAt(cadence, NextDue) >= today
    <3>1. \A n \in Nat : n - NextDue \in 7 .. 31 => n >= today
      BY <1>1, <1>4
    <3> QED
      BY <2>3, <3>1
  <2> QED
    BY <1>4, <2>1, <2>2, <2>4
<1>10. ASSUME NEW i \in Pending, NEW price \in Prices, DecideCycle(i, price)
       PROVE  /\ NextDue' >= today'
              /\ today' + WarningWindow <= expires'
              /\ continuity'.days = 0 \/ continuity'.days > 31
  <2>1. today' = today /\ expires' = expires /\ continuity' = continuity
    BY <1>10 DEF DecideCycle
  <2>2. NextDue' = NextDue
    BY <1>10, Decides
  <2> QED
    BY <1>4, <2>1, <2>2
<1>11. CASE EndRun \/ UNCHANGED vars
  <2>1. today' = today /\ expires' = expires /\ continuity' = continuity /\ NextDue' = NextDue
    BY <1>11, PlanStays DEF EndRun, vars, NextDue
  <2> QED
    BY <1>4, <2>1
<1>12. CASE NextDay
  <2>1. today' = today + 1 /\ expires' = expires /\ continuity' = continuity /\ NextDue' = NextDue
    BY <1>12, PlanStays DEF NextDay, NextDue
  <2>2. ~NeedsRenewal /\ lastRun = today
    BY <1>2, <1>12 DEF NextDay
  <2>3. expires - today > WarningWindow
    BY <1>1, <1>3, <2>2 DEF NeedsRenewal
  <2>4. NextDue >= today + 1 /\ (today + 1) + WarningWindow <= expires
    BY <1>1, <2>2, <2>3
  <2> QED
    BY <1>4, <2>1, <2>4
<1>13. ASSUME NEW i \in Asked, Answers(i)
       PROVE  /\ NextDue' >= today'
              /\ today' + WarningWindow <= expires'
              /\ continuity'.days = 0 \/ continuity'.days > 31
  <2>1. today' = today /\ expires' = expires /\ continuity' = continuity /\ NextDue' = NextDue
    BY <1>13, Finishes
  <2> QED
    BY <1>4, <2>1
<1> QED
  BY <1>5, <1>6, <1>7, <1>8, <1>9, <1>10, <1>11, <1>12, <1>13 DEF Next, Answers

\* On the day a cycle is due, the window is open and the user was seen within the last
\* 31 days: it is paid to the payee, if the cap has room and no approval is needed.
LEMMA PaidWhenDue ==
  ASSUME WindowsFit, TypesOK, CalendarOK, SpacingOK, DecidedOK, WindowOK, AttentiveOK, AttentiveIsPaid,
         status = "ACTIVE", ~neglected, NEW i \in Pending, NEW price \in Prices
  PROVE  /\ rows[i].due = today
         /\ \/ Outcome(QuoteOf(price)) \in {"PAYEE", "SKIPPED"}
            \/ ~WithinTolerance(QuoteOf(price))
<1>1. /\ today \in Nat /\ expires \in Nat /\ lastActive \in Nat /\ lastActive <= today
      /\ NextDue \in Nat /\ Grace \in Nat /\ WarningWindow \in Nat
      /\ continuity.days \in Nat
      /\ 0 < WarningWindow /\ WarningWindow <= Grace /\ Grace < WarningWindow + 7
  BY DueCyclesAssumption DEF TypesOK, CalendarOK, WindowsFit
<1>2. /\ NextDue >= today /\ today + WarningWindow <= expires
      /\ expires <= lastActive + 31 + Grace
      /\ continuity.days = 0 \/ continuity.days > 31
  BY DEF AttentiveOK, WindowOK
<1>3. i \in DOMAIN rows /\ rows[i].paid = "PENDING" /\ rows[i].due = today
  BY DEF AttentiveIsPaid, Pending
<1>5. \A j \in DOMAIN rows : rows[j].due \in Nat /\ (j = i \/ rows[j].due + 7 <= today \/ today + 7 <= rows[j].due)
  <2>1. ASSUME NEW j \in DOMAIN rows
        PROVE  rows[j].due \in Nat /\ (j = i \/ rows[j].due + 7 <= today \/ today + 7 <= rows[j].due)
    <3>1. rows[j].due \in createdAt .. today /\ createdAt \in Nat /\ DOMAIN rows = 1 .. Len(rows)
      BY DEF CalendarOK, TypesOK
    <3>2. j < i \/ j = i \/ i < j
      BY <1>3, <3>1
    <3>3. CASE j < i
      <4>1. rows[j].due + 7 <= rows[i].due
        BY <1>3, <3>3 DEF CalendarOK
      <4> QED
        BY <1>3, <3>1, <4>1
    <3>4. CASE i < j
      <4>1. rows[i].due + 7 <= rows[j].due
        BY <1>3, <3>4 DEF CalendarOK
      <4> QED
        BY <1>3, <3>1, <4>1
    <3> QED
      BY <3>1, <3>2, <3>3, <3>4
  <2> QED
    BY <2>1
<1>6. expires >= today + Grace
  <2>1. CASE expires = NextDue + Grace
    BY <1>1, <1>2, <2>1
  <2>2. CASE \E j \in DOMAIN rows : expires = rows[j].due + Grace
    <3>1. PICK j \in DOMAIN rows : expires = rows[j].due + Grace
      BY <2>2
    <3>2. ~(rows[j].due + 7 <= today) /\ rows[j].due \in Nat
      BY <1>1, <1>2, <1>5, <3>1
    <3>3. rows[j].due >= today
      BY <1>1, <1>3, <1>5, <3>2
    <3> QED
      BY <1>1, <3>1, <3>2, <3>3
  <2> QED
    BY <2>1, <2>2 DEF WindowOK
<1>7. ~Redirected
  <2>1. today - lastActive <= 31
    BY <1>1, <1>2, <1>6
  <2> QED
    BY <1>1, <1>2, <2>1 DEF Redirected
<1>8. today < expires
  BY <1>1, <1>2
<1>9. SUFFICES ASSUME WithinTolerance(QuoteOf(price))
               PROVE  QuoteOf(price).recipient = "PAYEE" /\ CycleAllows(QuoteOf(price))
  BY <1>3, <1>9 DEF Outcome
<1>10. QuoteOf(price).recipient = "PAYEE"
  BY <1>7 DEF QuoteOf
<1>11. Cost(QuoteOf(price)) <= MaxAusdCost + MaxFeeAusd
  BY <1>9, ToleranceAllows, QuoteTypes
<1> QED
  BY <1>8, <1>10, <1>11 DEF CycleAllows

\* What AttentiveIsPaid says of a row.
Attended(table, day, k) ==
  \/ table[k].paid = "PENDING" /\ table[k].due = day
  \/ /\ table[k].ran = table[k].due
     /\ \/ table[k].paid = "PAYEE"
        \/ /\ table[k].paid = "SKIPPED"
           /\ \E j \in 1 .. k : /\ MonthOf(table[j].ran) = MonthOf(table[k].ran)
                               /\ Exceptional(table[j].quote)
        \/ table[k].paid # "PENDING" /\ ~WithinTolerance(table[k].quote)

\* A row keeps what is said of it if those up to it keep their days and prices.
LEMMA AttendedStays ==
  ASSUME NEW old, NEW new, NEW day, NEW k, Attended(old, day, k), new[k] = old[k],
         \A j \in 1 .. k : new[j].ran = old[j].ran /\ new[j].quote = old[j].quote
  PROVE  Attended(new, day, k)
  BY DEF Attended

\* Decisions and answers are the only steps that pay, and midnight comes only when
\* none is left to decide.
LEMMA PaidStep ==
  ASSUME WindowsFit, TypesOK, CalendarOK, SpacingOK, DecidedOK, LedgerOK, WindowOK, AttentiveOK,
         AttentiveIsPaid, [Next]_vars
  PROVE  AttentiveIsPaid'
<1>1. /\ today \in Nat /\ NextDue \in Nat /\ rows \in Seq(Rows)
      /\ DOMAIN rows = 1 .. Len(rows) /\ Len(rows) \in Nat
  BY DEF TypesOK, CalendarOK
<1>2. (status' = "ACTIVE" /\ ~neglected' => \A k \in DOMAIN rows' : Attended(rows', today', k)) => AttentiveIsPaid'
  BY DEF AttentiveIsPaid, Attended, SameMonth, Exceptional, WithinTolerance, Cost
<1> SUFFICES ASSUME status' = "ACTIVE", ~neglected', NEW k \in DOMAIN rows'
             PROVE  Attended(rows', today', k)
  BY <1>2
<1>3. status = "ACTIVE" /\ ~neglected
  BY NoneIsForgiven
<1>4. \A j \in DOMAIN rows : Attended(rows, today, j)
  BY <1>3 DEF AttentiveIsPaid, Attended, SameMonth
<1>5. CASE GenerateDueCycle
  <2>1. DEFINE n == Len(rows)
  <2>2. /\ DOMAIN rows = 1 .. n /\ DOMAIN rows' = 1 .. n + 1 /\ n \in Nat
        /\ \A i \in DOMAIN rows : rows'[i] = rows[i]
        /\ rows'[n + 1] = [due |-> NextDue, ran |-> 0, paid |-> "PENDING", quote |-> NoQuote]
    BY <1>1, <1>5, Generates
  <2>3. k \in DOMAIN rows \/ k = n + 1
    BY <2>2
  <2>4. rows'[n + 1].paid = "PENDING" /\ rows'[n + 1].due = NextDue /\ today' = today
    BY <1>5, <2>2 DEF GenerateDueCycle
  <2> HIDE DEF n
  <2>5. NextDue = today
    <3>1. NextDue <= today /\ NextDue >= today
      BY <1>3, <1>5 DEF GenerateDueCycle, AttentiveOK
    <3> QED
      BY <1>1, <3>1
  <2>6. CASE k \in DOMAIN rows
    <3>1. \A j \in 1 .. k : j \in DOMAIN rows
      BY <2>2, <2>6
    <3>2. rows'[k] = rows[k] /\ \A j \in 1 .. k : rows'[j] = rows[j]
      BY <2>2, <2>6, <3>1
    <3> QED
      BY <1>4, <2>4, <2>6, <3>2, AttendedStays
  <2>7. CASE k = n + 1
    BY <2>4, <2>5, <2>7 DEF Attended
  <2> QED
    BY <2>3, <2>6, <2>7
<1>6. ASSUME NEW i \in Pending, NEW price \in Prices, DecideCycle(i, price)
      PROVE  Attended(rows', today', k)
  <2> DEFINE quote == QuoteOf(price)
  <2>1. /\ i \in DOMAIN rows /\ rows[i].paid = "PENDING" /\ DOMAIN rows' = DOMAIN rows
        /\ \A j \in DOMAIN rows : rows'[j].due = rows[j].due
        /\ \A j \in DOMAIN rows : j # i => rows'[j] = rows[j]
        /\ rows'[i].ran = today /\ rows'[i].paid = Outcome(quote) /\ rows'[i].quote = quote
        /\ rows'[i].paid \in {"PAYEE", "BACKUP", "REFUSED", "SKIPPED", "ASKED"}
    BY <1>6, Decides
  <2>2. rows[i].due = today /\ (Outcome(quote) \in {"PAYEE", "SKIPPED"} \/ ~WithinTolerance(quote))
    BY <1>3, PaidWhenDue
  <2>3. today' = today
    BY <1>6 DEF DecideCycle
  <2>4. CASE k # i
    <3>1. rows'[k] = rows[k]
      BY <2>1, <2>4
    <3>2. CASE rows[k].paid = "PENDING"
      BY <1>4, <2>1, <2>3, <3>1, <3>2 DEF Attended, DecidedOK
    <3>3. CASE rows[k].paid # "PENDING"
      <4>1. k < i
        <5>1. ~(i < k)
          BY <2>1, <3>3 DEF DecidedOK
        <5> QED
          BY <1>1, <2>1, <2>4, <5>1
      <4>2. \A j \in 1 .. k : rows'[j] = rows[j]
        BY <1>1, <2>1, <4>1
      <4> QED
        BY <1>4, <2>1, <2>3, <3>1, <4>2, AttendedStays
    <3> QED
      BY <3>2, <3>3
  <2>5. CASE k = i /\ (Outcome(quote) = "PAYEE" \/ ~WithinTolerance(quote))
    BY <2>1, <2>2, <2>5 DEF Attended
  <2>6. CASE k = i /\ Outcome(quote) = "SKIPPED"
    <3>1. ~Fits(quote)
      <4>1. quote.recipient # "SKIPPED"
        BY DEF QuoteOf
      <4> QED
        BY <2>6, <4>1 DEF Outcome
    <3>2. ~(MonthOf(rows[i].due) < MonthOf(today)) /\ MonthOf(today) \in Nat
      <4>1. MonthOf(today) \in Nat
        BY <1>1, DayInMonth
      <4> QED
        BY <2>2, <4>1
    <3>3. PICK j \in 1 .. i : MonthOf(rows'[j].ran) = MonthOf(today) /\ Exceptional(rows'[j].quote)
      <4>1. CASE Exceptional(quote)
        BY <1>1, <2>1, <4>1
      <4>2. CASE \E j \in DOMAIN rows : /\ j < i /\ rows[j].paid # "PENDING"
                                        /\ MonthOf(rows[j].ran) = MonthOf(today)
                                        /\ \/ MonthOf(rows[j].due) < MonthOf(today)
                                           \/ Exceptional(rows[j].quote)
        <5>1. PICK j \in DOMAIN rows : /\ j < i /\ rows[j].paid # "PENDING"
                                      /\ MonthOf(rows[j].ran) = MonthOf(today)
                                      /\ \/ MonthOf(rows[j].due) < MonthOf(today)
                                         \/ Exceptional(rows[j].quote)
          BY <4>2
        <5>2. rows[j].ran = rows[j].due
          BY <1>4, <5>1 DEF Attended
        <5>3. Exceptional(rows[j].quote)
          BY <3>2, <5>1, <5>2
        <5>4. j \in 1 .. i /\ rows'[j] = rows[j]
          BY <1>1, <2>1, <5>1
        <5> QED
          BY <5>1, <5>3, <5>4
      <4> QED
        BY <3>1, <3>2, <4>1, <4>2, CapFits
    <3> QED
      BY <2>1, <2>2, <2>6, <3>3 DEF Attended
  <2> QED
    BY <2>2, <2>4, <2>5, <2>6
<1>7. ASSUME NEW i \in Asked, Answers(i)
      PROVE  Attended(rows', today', k)
  <2>1. /\ i \in DOMAIN rows /\ rows[i].paid = "ASKED" /\ DOMAIN rows' = DOMAIN rows
        /\ \A j \in DOMAIN rows : /\ rows'[j].due = rows[j].due /\ rows'[j].ran = rows[j].ran
                                  /\ rows'[j].quote = rows[j].quote
        /\ \A j \in DOMAIN rows : j # i => rows'[j] = rows[j]
        /\ rows'[i].paid \in {"PAYEE", "REFUSED", "EXPIRED", "DECLINED"} /\ today' = today
    BY <1>7, Finishes
  <2>2. CASE k = i
    <3>1. rows[i].ran = rows[i].due /\ ~WithinTolerance(rows[i].quote)
      BY <1>4, <2>1 DEF Attended
    <3> QED
      BY <2>1, <2>2, <3>1 DEF Attended
  <2>3. CASE k # i
    <3>1. rows'[k] = rows[k] /\ \A j \in 1 .. k : rows'[j].ran = rows[j].ran /\ rows'[j].quote = rows[j].quote
      BY <1>1, <2>1, <2>3
    <3> QED
      BY <1>4, <2>1, <3>1, AttendedStays
  <2> QED
    BY <2>2, <2>3
<1>8. CASE NextDay
  <2>1. lastRun = today /\ rows' = rows
    BY <1>8 DEF NextDay
  <2>2. Pending = {}
    BY <2>1 DEF DecidedOK
  <2>3. rows[k].paid # "PENDING"
    BY <2>1, <2>2 DEF Pending
  <2> QED
    BY <1>4, <2>1, <2>3 DEF Attended
<1>9. ASSUME Renew \/ Visit \/ Stop \/ EndRun \/ UNCHANGED vars \/ \E days \in Thresholds : SetUpContinuity(days)
      PROVE  Attended(rows', today', k)
  <2>1. rows' = rows /\ today' = today
    BY <1>9 DEF Renew, Visit, Stop, EndRun, vars, SetUpContinuity
  <2> QED
    BY <1>4, <2>1
<1> QED
  BY <1>5, <1>6, <1>7, <1>8, <1>9 DEF Next, Answers

\* A user who renews when asked is paid for on every due date, for any plan and any
\* threshold beyond a month, if the application asks between the due date a grant
\* was for and its end, and less than a week after the former.
THEOREM AttentiveIsPaidForAll ==
  ASSUME WindowsFit
  PROVE  Spec => []AttentiveIsPaid
<1>1. Init => TypesOK /\ CalendarOK /\ SpacingOK /\ DecidedOK /\ LedgerOK /\ WindowOK /\ AttentiveOK /\ AttentiveIsPaid
  <2> SUFFICES ASSUME Init
               PROVE  TypesOK /\ CalendarOK /\ SpacingOK /\ DecidedOK /\ LedgerOK /\ WindowOK /\ AttentiveOK /\ AttentiveIsPaid
    OBVIOUS
  <2>1. TypesOK /\ CalendarOK
    BY CalendarInit
  <2>2. rows = << >> /\ lastRun = -1 /\ today \in Nat
    BY <2>1 DEF Init, TypesOK
  <2>3. DOMAIN rows = {} /\ lastRun # today
    BY <2>2
  <2>4. NextDue = FirstDueAt(cadence, createdAt)
    BY <2>2 DEF NextDue
  <2>5. expires = NextDue + Grace /\ lastActive = createdAt /\ today = createdAt /\ continuity.days = 0
    BY <2>4 DEF Init
  <2>6. /\ NextDue \in Nat /\ NextDue >= createdAt /\ NextDue <= today + 31 /\ createdAt \in Nat
        /\ Grace \in Nat /\ WarningWindow \in Nat /\ WarningWindow <= Grace
    BY <2>1, DueCyclesAssumption DEF TypesOK, CalendarOK, WindowsFit
  <2>7. expires <= lastActive + 31 + Grace /\ today + WarningWindow <= expires /\ NextDue >= today
    BY <2>5, <2>6
  <2> QED
    BY <2>1, <2>3, <2>5, <2>7, LedgerInit DEF WindowOK, AttentiveOK, AttentiveIsPaid
<1>2. /\ TypesOK /\ CalendarOK /\ SpacingOK /\ DecidedOK /\ LedgerOK /\ WindowOK /\ AttentiveOK /\ AttentiveIsPaid
      /\ [Next]_vars
      => /\ TypesOK' /\ CalendarOK' /\ SpacingOK' /\ DecidedOK' /\ LedgerOK' /\ WindowOK' /\ AttentiveOK' /\ AttentiveIsPaid'
  BY TypesStep, CalendarStep, SpacingStep, DecidedStep, LedgerStep, WindowStep, AttentiveStep, PaidStep
<1> QED
  BY <1>1, <1>2, PTL DEF Spec

\* A renewal is for the due date ahead, not for the one behind: it takes the
\* reminder away, for every cadence, if the warning is not longer than the grace.
THEOREM RenewalReachesForAll ==
  ASSUME WarningWindow <= Grace
  PROVE  Spec => RenewalReaches
<1>1. Init => TypesOK /\ CalendarOK
  BY CalendarInit
<1>2. TypesOK /\ CalendarOK /\ [Next]_vars => TypesOK' /\ CalendarOK'
  BY TypesStep, CalendarStep
<1>3. TypesOK /\ CalendarOK /\ [Next]_vars => [Renew /\ today < NextDue => ~NeedsRenewal']_vars
  <2> SUFFICES ASSUME TypesOK, CalendarOK, Renew, today < NextDue PROVE ~NeedsRenewal'
    OBVIOUS
  <2>1. expires' = NextDue + Grace /\ today' = today
    BY DEF Renew, WindowEnd
  <2>2. today \in Nat /\ NextDue \in Nat /\ Grace \in Nat /\ WarningWindow \in Nat
    BY DueCyclesAssumption DEF TypesOK, CalendarOK
  <2>3. ~((NextDue + Grace) - today <= WarningWindow)
    BY <2>2
  <2> QED
    BY <2>1, <2>3 DEF NeedsRenewal
<1> QED
  BY <1>1, <1>2, <1>3, PTL DEF Spec, RenewalReaches
=============================================================================
