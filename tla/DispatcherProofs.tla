------------------------- MODULE DispatcherProofs -------------------------
(***************************************************************************)
(* Theorems about the commands and forms of the bot, for every calendar    *)
(* and input, any number of users, goroutines and failures: what is typed  *)
(* means what it should; a form sent as it was shown changes nothing; what *)
(* users are told is true; and the messages show the event.                *)
(***************************************************************************)
EXTENDS Dispatcher, SequenceTheorems, TLAPS

-----------------------------------------------------------------------------
(* Days and clock times.                                                   *)

LEMMA DivMod ==
  ASSUME NEW a \in Int, NEW e \in Nat \ {0}
  PROVE  a \div e \in Int /\ a = ((a \div e) * e) + (a % e) /\ a % e \in 0..(e - 1)
  OBVIOUS

LEMMA MulLess ==
  ASSUME NEW i \in Int, NEW j \in Int, NEW e \in Nat \ {0}, i * e < j * e
  PROVE  i < j
  OBVIOUS

LEMMA MulMono ==
  ASSUME NEW i \in Int, NEW j \in Int, NEW e \in Nat \ {0}, i <= j
  PROVE  i * e \in Int /\ j * e \in Int /\ i * e <= j * e
  OBVIOUS

LEMMA MulNext ==
  ASSUME NEW i \in Int, NEW e \in Nat \ {0}
  PROVE  i * e \in Int /\ (i + 1) * e = i * e + e /\ 1 * e = e
  OBVIOUS

LEMMA DivModOf ==
  ASSUME NEW q \in Int, NEW r \in Int, NEW e \in Nat \ {0}, 0 <= r, r < e
  PROVE  (q * e + r) \div e = q /\ (q * e + r) % e = r
<1> DEFINE a == q * e + r
           p == a \div e
           m == a % e
<1>1. a \in Int /\ q * e \in Int
  OBVIOUS
<1> HIDE DEF a
<1>2. p \in Int /\ a = p * e + m /\ m \in 0..(e - 1)
  BY <1>1, DivMod
<1>3. a = q * e + r
  BY DEF a
<1> HIDE DEF p, m
<1>4. /\ p * e \in Int /\ q * e \in Int
      /\ (p + 1) * e = p * e + e /\ (q + 1) * e = q * e + e
  BY <1>2, MulNext
<1>5. p * e < (q + 1) * e /\ q * e < (p + 1) * e
  BY <1>1, <1>2, <1>3, <1>4
<1>6. p < q + 1 /\ q < p + 1
  BY <1>2, <1>5, MulLess
<1>7. p = q
  BY <1>2, <1>6
<1>8. m = r
  BY <1>1, <1>2, <1>3, <1>7
<1> QED
  BY <1>7, <1>8 DEF p, m, a

\* A time is one of its day and clock.
LEMMA TimeParts ==
  ASSUME NEW t \in Int
  PROVE  /\ DayOf(t) \in Int /\ ClockOf(t) \in 0..DayLen - 1
         /\ t = On(ClockOf(t), DayOf(t))
<1>1. DayLen \in Nat \ {0}
  BY DatesAssumption
<1> QED
  BY <1>1, DivMod DEF DayOf, ClockOf, On

LEMMA OnParts ==
  ASSUME NEW c \in 0..DayLen - 1, NEW d \in Int
  PROVE  On(c, d) \in Int /\ DayOf(On(c, d)) = d /\ ClockOf(On(c, d)) = c
<1>1. DayLen \in Nat \ {0} /\ c \in Int /\ 0 <= c /\ c < DayLen
  BY DatesAssumption
<1>2. d * DayLen \in Int
  BY <1>1, MulNext
<1> QED
  BY <1>1, <1>2, DivModOf DEF DayOf, ClockOf, On

\* An earlier time is one of an earlier day, or of an earlier clock of the same day.
LEMMA DayMono ==
  ASSUME NEW s \in Int, NEW t \in Int, s <= t
  PROVE  DayOf(s) <= DayOf(t)
<1> DEFINE p == DayOf(s)
           q == DayOf(t)
<1>1. /\ p \in Int /\ q \in Int /\ DayLen \in Nat \ {0}
      /\ ClockOf(s) \in 0..DayLen - 1 /\ ClockOf(t) \in 0..DayLen - 1
      /\ s = p * DayLen + ClockOf(s) /\ t = q * DayLen + ClockOf(t)
  BY TimeParts, DatesAssumption DEF On
<1> HIDE DEF p, q
<1>2. p * DayLen \in Int /\ q * DayLen \in Int /\ (q + 1) * DayLen = q * DayLen + DayLen
  BY <1>1, MulNext
<1>3. p * DayLen < (q + 1) * DayLen
  BY <1>1, <1>2
<1>4. p < q + 1
  BY <1>1, <1>3, MulLess
<1> QED
  BY <1>1, <1>4 DEF p, q

\* The moments are the times of the calendar's days.
LEMMA MomentParts ==
  ASSUME NEW t \in Int
  PROVE  t \in Moments <=> DayOf(t) \in Days
<1> DEFINE n == Len(Calendar)
           q == DayOf(t)
<1>1. n \in Nat /\ DayLen \in Nat \ {0}
  BY DatesAssumption
<1>2. q \in Int /\ ClockOf(t) \in 0..DayLen - 1 /\ t = q * DayLen + ClockOf(t)
  BY TimeParts DEF On
<1> HIDE DEF q
<1>3. /\ q * DayLen \in Int /\ n * DayLen \in Int
      /\ (q + 1) * DayLen = q * DayLen + DayLen /\ 1 * DayLen = DayLen
      /\ (n + 1) * DayLen \in Int
  BY <1>1, <1>2, MulNext
<1>4. ASSUME t \in Moments
      PROVE  1 <= q /\ q <= n
  <2>1. DayLen <= t /\ t < (n + 1) * DayLen
    BY <1>1, <1>3, <1>4 DEF Moments
  <2>2. 1 * DayLen < (q + 1) * DayLen /\ q * DayLen < (n + 1) * DayLen
    BY <1>1, <1>2, <1>3, <2>1
  <2>3. 1 < q + 1 /\ q < n + 1
    BY <1>1, <1>2, <2>2, MulLess
  <2> QED
    BY <1>1, <1>2, <2>3
<1>5. ASSUME 1 <= q, q <= n
      PROVE  t \in Moments
  <2>1. 1 * DayLen <= q * DayLen /\ (q + 1) * DayLen <= (n + 1) * DayLen
    BY <1>1, <1>2, <1>5, MulMono
  <2>2. DayLen <= t /\ t < (n + 1) * DayLen
    BY <1>1, <1>2, <1>3, <2>1
  <2> QED
    BY <1>1, <1>3, <2>2 DEF Moments
<1> QED
  BY <1>1, <1>2, <1>4, <1>5 DEF Days, q

-----------------------------------------------------------------------------
(* The calendar.                                                           *)

LEMMA DaysAre ==
  ASSUME NEW d \in Days
  PROVE  /\ d \in Nat \ {0}
         /\ Calendar[d] = <<Calendar[d][1], Calendar[d][2]>>
         /\ Calendar[d][1] \in Nat /\ Calendar[d][2] \in Nat
<1>1. Calendar[d] \in Nat \X Nat /\ d \in Nat \ {0}
  BY DatesAssumption DEF Days
<1> QED
  BY <1>1

\* A day is known by its year and its date, and later days are not of an earlier year.
LEMMA SameDay ==
  ASSUME NEW c \in Days, NEW d \in Days, Calendar[c] = Calendar[d]
  PROVE  c = d
<1>1. c \in Int /\ d \in Int /\ c \in 1..Len(Calendar) /\ d \in 1..Len(Calendar)
  BY DEF Days
<1>2. ~(c < d) /\ ~(d < c)
  BY <1>1, DatesAssumption
<1> QED
  BY <1>1, <1>2

LEMMA YearsGrow ==
  ASSUME NEW c \in Days, NEW d \in Days, c <= d
  PROVE  Calendar[c][1] <= Calendar[d][1]
<1>1. c \in Int /\ d \in Int /\ c \in 1..Len(Calendar) /\ d \in 1..Len(Calendar)
  BY DEF Days
<1>2. CASE c < d
  BY <1>1, <1>2, DatesAssumption
<1>3. CASE c = d
  BY <1>3, DaysAre
<1> QED
  BY <1>1, <1>2, <1>3

\* DateAt is a time of the date, or Never if the calendar does not have it.
LEMMA DateAtIs ==
  ASSUME NEW year, NEW date, NEW clock \in 0..DayLen - 1
  PROVE  \/ /\ DateAt(year, date, clock) \in Moments
            /\ Calendar[DayOf(DateAt(year, date, clock))] = <<year, date>>
            /\ ClockOf(DateAt(year, date, clock)) = clock
         \/ /\ DateAt(year, date, clock) = Never
            /\ \A d \in Days : Calendar[d] # <<year, date>>
<1> DEFINE S == {d \in Days : Calendar[d] = <<year, date>>}
           d0 == CHOOSE d \in Days : Calendar[d] = <<year, date>>
<1>1. CASE \E d \in Days : Calendar[d] = <<year, date>>
  <2>1. d0 \in Days /\ Calendar[d0] = <<year, date>>
    BY <1>1
  <2>2. DateAt(year, date, clock) = On(clock, d0)
    BY <1>1 DEF DateAt
  <2> HIDE DEF d0
  <2>3. d0 \in Int
    BY <2>1, DaysAre
  <2>4. On(clock, d0) \in Int /\ DayOf(On(clock, d0)) = d0 /\ ClockOf(On(clock, d0)) = clock
    BY <2>3, OnParts
  <2>5. On(clock, d0) \in Moments
    BY <2>1, <2>4, MomentParts
  <2> QED
    BY <2>1, <2>2, <2>4, <2>5
<1>2. CASE ~\E d \in Days : Calendar[d] = <<year, date>>
  BY <1>2 DEF DateAt
<1> QED
  BY <1>1, <1>2

LEMMA MomentsAre ==
  ASSUME NEW t \in Moments
  PROVE  t \in Nat /\ t # Never /\ DayOf(t) \in Days
<1>1. t \in Nat
  BY DatesAssumption, MulNext DEF Moments
<1> QED
  BY <1>1, MomentParts DEF Never

\* The time of a date and a clock is the only one of the calendar.
LEMMA SameMoment ==
  ASSUME NEW s \in Moments, NEW t \in Moments, Calendar[DayOf(s)] = Calendar[DayOf(t)],
         ClockOf(s) = ClockOf(t)
  PROVE  s = t
<1>1. s \in Int /\ t \in Int /\ DayOf(s) \in Days /\ DayOf(t) \in Days
  BY MomentsAre
<1>2. DayOf(s) = DayOf(t)
  BY <1>1, SameDay
<1> QED
  BY <1>1, <1>2, TimeParts

-----------------------------------------------------------------------------
(* What is typed.                                                          *)

Clocks == (0..DayLen - 1) \cup {Omitted}

\* A date is the next of its kind.
LEMMA DateIsMeant ==
  ASSUME NEW in, in.clock \in Clocks, in.year \in Nat \cup {Omitted},
         NEW base \in Moments, NEW default \in 0..DayLen - 1
  PROVE  DateMeant(ParseAbsolute(in, base, default), in, base, default)
<1> DEFINE clock == TimeOrDefault(in.clock, default)
           date == in.date
           year == IF in.year # Omitted THEN in.year ELSE YearOf(base)
           at == DateAt(year, date, clock)
           next == DateAt(year + 1, date, clock)
           fitting == {u \in Moments : Fits(in, u, base, default)}
           t == ParseAbsolute(in, base, default)
<1>1. clock \in 0..DayLen - 1
  BY DEF Clocks, TimeOrDefault
<1>2. base \in Int /\ base # Never /\ DayOf(base) \in Days /\ YearOf(base) \in Nat
  BY MomentsAre, DaysAre DEF YearOf
<1>3. \A y : \/ /\ DateAt(y, date, clock) \in Moments
                /\ Calendar[DayOf(DateAt(y, date, clock))] = <<y, date>>
                /\ ClockOf(DateAt(y, date, clock)) = clock
             \/ /\ DateAt(y, date, clock) = Never
                /\ \A d \in Days : Calendar[d] # <<y, date>>
  BY <1>1, DateAtIs
<1>4. \A u \in Moments : /\ u \in Int /\ u # Never /\ DayOf(u) \in Days
                         /\ Calendar[DayOf(u)] = <<YearOf(u), DateOf(u)>>
                         /\ YearOf(u) \in Nat
  BY MomentsAre, DaysAre DEF YearOf, DateOf
<1>5. \A u \in Moments : u \in fitting <=>
        /\ DateOf(u) = date /\ ClockOf(u) = clock
        /\ IF in.year = Omitted THEN u >= base /\ YearOf(u) <= YearOf(base) + 1
           ELSE YearOf(u) = in.year
  BY DEF Fits
<1>6. t = IF in.year = Omitted /\ at # Never /\ at < base THEN next ELSE at
  BY DEF ParseAbsolute
<1>7. DateMeant(t, in, base, default) <=>
        \/ Earliest(t, fitting)
        \/ /\ t = Never
           /\ \/ fitting = {}
              \/ in.year = Omitted /\ <<YearOf(base), date>> \notin {Calendar[d] : d \in Days}
  BY DEF DateMeant
<1>8. \A u \in Moments, v \in Moments :
        YearOf(u) = YearOf(v) /\ DateOf(u) = DateOf(v) /\ ClockOf(u) = ClockOf(v) => u = v
  BY <1>4, SameMoment
<1>9. \A u \in Moments, v \in Moments : u <= v => YearOf(u) <= YearOf(v)
  <2> SUFFICES ASSUME NEW u \in Moments, NEW v \in Moments, u <= v
               PROVE  YearOf(u) <= YearOf(v)
    OBVIOUS
  <2>1. DayOf(u) <= DayOf(v)
    BY <1>4, DayMono
  <2> QED
    BY <1>4, <2>1, YearsGrow DEF YearOf
<1>10. \A y : DateAt(y, date, clock) # Never =>
         /\ DateAt(y, date, clock) \in Moments
         /\ YearOf(DateAt(y, date, clock)) = y /\ DateOf(DateAt(y, date, clock)) = date
         /\ ClockOf(DateAt(y, date, clock)) = clock
  BY <1>3 DEF YearOf, DateOf
<1>11. \A y : \A u \in Moments :
         DateAt(y, date, clock) = Never => ~(YearOf(u) = y /\ DateOf(u) = date)
  BY <1>3, <1>4
<1> HIDE DEF t, fitting, at, next, clock
<1>12. CASE in.year # Omitted
  <2>1. year = in.year /\ t = at
    BY <1>6, <1>12
  <2>2. CASE at = Never
    <3>1. \A u \in Moments : ~(YearOf(u) = in.year /\ DateOf(u) = date)
      BY <1>11, <2>1, <2>2 DEF at
    <3>2. fitting = {}
      BY <1>5, <1>12, <3>1 DEF fitting
    <3> QED
      BY <1>7, <2>1, <2>2, <3>2 DEF t
  <2>3. CASE at # Never
    <3>1. at \in Moments /\ YearOf(at) = in.year /\ DateOf(at) = date /\ ClockOf(at) = clock
      BY <1>10, <2>1, <2>3 DEF at
    <3>2. at \in fitting
      BY <1>5, <1>12, <3>1
    <3>3. \A u \in fitting : u = at
      BY <1>5, <1>8, <1>12, <3>1 DEF fitting
    <3>4. Earliest(at, fitting)
      BY <1>4, <3>1, <3>2, <3>3 DEF Earliest
    <3> QED
      BY <1>7, <2>1, <3>4 DEF t
  <2> QED
    BY <2>2, <2>3
<1>13. CASE in.year = Omitted
  <2>1. year = YearOf(base) /\ year \in Nat
    BY <1>2, <1>13
  <2>2. CASE at = Never
    <3>1. t = Never
      BY <1>6, <2>2
    <3>2. <<YearOf(base), date>> \notin {Calendar[d] : d \in Days}
      BY <1>3, <1>4, <2>1, <2>2 DEF at, clock
    <3> QED
      BY <1>7, <1>13, <3>1, <3>2 DEF t
  <2>3. CASE at # Never
    <3>1. at \in Moments /\ YearOf(at) = year /\ DateOf(at) = date /\ ClockOf(at) = clock
      BY <1>10, <2>3 DEF at
    <3>2. at \in Int
      BY <1>4, <3>1
    <3>3. CASE at >= base
      <4>1. t = at
        BY <1>2, <1>6, <3>2, <3>3
      <4>2. at \in fitting
        BY <1>5, <1>13, <2>1, <3>1, <3>3
      <4>3. ASSUME NEW u \in fitting
            PROVE  at <= u
        <5>1. /\ u \in Moments /\ DateOf(u) = date /\ ClockOf(u) = clock
              /\ u >= base /\ u \in Int
          BY <1>4, <1>5, <1>13 DEF fitting
        <5>2. ASSUME u < at
              PROVE  FALSE
          <6>1. YearOf(base) <= YearOf(u) /\ YearOf(u) <= YearOf(at)
            BY <1>2, <1>9, <3>1, <3>2, <5>1, <5>2
          <6>2. YearOf(u) = YearOf(at)
            BY <1>2, <1>4, <2>1, <3>1, <5>1, <6>1
          <6> QED
            BY <1>8, <3>1, <3>2, <5>1, <5>2, <6>2
        <5> QED
          BY <3>2, <5>1, <5>2
      <4> QED
        BY <1>7, <4>1, <4>2, <4>3 DEF Earliest, t
    <3>4. CASE at < base
      <4>1. t = next
        BY <1>6, <1>13, <2>3, <3>4
      <4>2. \A u \in fitting : YearOf(u) = year + 1
        <5> SUFFICES ASSUME NEW u \in fitting
                     PROVE  YearOf(u) = year + 1
          OBVIOUS
        <5>1. /\ u \in Moments /\ DateOf(u) = date /\ ClockOf(u) = clock
              /\ u >= base /\ YearOf(u) <= year + 1 /\ YearOf(u) \in Nat /\ u \in Int
          BY <1>4, <1>5, <1>13, <2>1 DEF fitting
        <5>2. year <= YearOf(u)
          BY <1>2, <1>9, <2>1, <5>1
        <5>3. YearOf(u) # year
          BY <1>2, <1>8, <3>1, <3>2, <3>4, <5>1
        <5> QED
          BY <2>1, <5>1, <5>2, <5>3
      <4>3. CASE next = Never
        <5>1. fitting = {}
          BY <1>5, <1>11, <4>2, <4>3 DEF next, fitting
        <5> QED
          BY <1>7, <4>1, <4>3, <5>1 DEF t
      <4>4. CASE next # Never
        <5>1. /\ next \in Moments /\ YearOf(next) = year + 1 /\ DateOf(next) = date
              /\ ClockOf(next) = clock /\ next \in Int
          BY <1>4, <1>10, <4>4 DEF next
        <5>2. next >= base
          <6>1. ~(next <= base)
            BY <1>2, <1>9, <2>1, <5>1
          <6> QED
            BY <1>2, <5>1, <6>1
        <5>3. next \in fitting
          BY <1>5, <1>13, <2>1, <5>1, <5>2
        <5>4. \A u \in fitting : u = next
          BY <1>5, <1>8, <4>2, <5>1 DEF fitting
        <5> QED
          BY <1>7, <4>1, <5>1, <5>3, <5>4 DEF Earliest, t
      <4> QED
        BY <4>3, <4>4
    <3> QED
      BY <1>2, <3>2, <3>3, <3>4
  <2> QED
    BY <2>2, <2>3
<1> QED
  BY <1>12, <1>13 DEF t

\* A clock time is the next one after the start.
LEMMA NextClock ==
  ASSUME NEW c \in 0..DayLen - 1, NEW s \in Int, NEW in, in.kind = "clock", in.clock = c
  PROVE  Earliest(ParseEndTime(in, s), {u \in s + 1 .. s + DayLen : ClockOf(u) = c})
<1> DEFINE d == DayOf(s)
           end == On(c, d)
           t == ParseEndTime(in, s)
           S == {u \in s + 1 .. s + DayLen : ClockOf(u) = c}
<1>1. DayLen \in Nat \ {0} /\ c \in Int /\ 0 <= c /\ c < DayLen
  BY DatesAssumption
<1>2. d \in Int /\ ClockOf(s) \in 0..DayLen - 1 /\ s = d * DayLen + ClockOf(s)
  BY TimeParts DEF On
<1>3. t = IF end > s THEN end ELSE end + DayLen
  BY DEF ParseEndTime
<1>4. end = d * DayLen + c
  BY DEF On
<1>5. \A u \in Int : ClockOf(u) = c => DayOf(u) \in Int /\ u = DayOf(u) * DayLen + c
  BY TimeParts DEF On
<1>6. On(c, d) \in Int /\ ClockOf(On(c, d)) = c /\ ClockOf(On(c, d + 1)) = c
      /\ On(c, d + 1) = (d + 1) * DayLen + c
  BY <1>2, OnParts DEF On
<1> HIDE DEF d, end, t
<1>7. d * DayLen \in Int /\ (d + 1) * DayLen = d * DayLen + DayLen
      /\ (d - 1) * DayLen \in Int /\ ((d - 1) + 1) * DayLen = (d - 1) * DayLen + DayLen
  BY <1>1, <1>2, MulNext
<1>8. (d - 1) + 1 = d
  BY <1>2
<1>9. t \in Int /\ s < t /\ t <= s + DayLen
  BY <1>1, <1>2, <1>3, <1>4, <1>7
<1>10. ClockOf(t) = c
  <2>1. CASE end > s
    BY <1>3, <1>6, <2>1 DEF end
  <2>2. CASE ~(end > s)
    <3>1. t = On(c, d + 1)
      BY <1>1, <1>3, <1>4, <1>6, <1>7, <2>2
    <3> QED
      BY <1>6, <3>1
  <2> QED
    BY <2>1, <2>2
<1>11. ASSUME NEW u \in S
       PROVE  t <= u
  <2>1. u \in Int /\ s < u /\ ClockOf(u) = c
    BY <1>1
  <2> DEFINE p == DayOf(u)
  <2>2. p \in Int /\ u = p * DayLen + c
    BY <1>5, <2>1
  <2> HIDE DEF p
  <2>3. CASE end > s
    <3>1. (d - 1) * DayLen < p * DayLen
      BY <1>1, <1>2, <1>7, <1>8, <2>1, <2>2, MulMono
    <3>2. d <= p
      BY <1>2, <2>2, <3>1, <1>1, MulLess
    <3>3. d * DayLen <= p * DayLen /\ p * DayLen \in Int
      BY <1>1, <1>2, <2>2, <3>2, MulMono
    <3> QED
      BY <1>1, <1>3, <1>4, <1>7, <2>2, <2>3, <3>3
  <2>4. CASE ~(end > s)
    <3>1. d * DayLen < p * DayLen /\ p * DayLen \in Int
      BY <1>1, <1>2, <1>4, <1>7, <2>1, <2>2, <2>4, MulMono
    <3>2. d + 1 <= p
      BY <1>1, <1>2, <2>2, <3>1, MulLess
    <3>3. (d + 1) * DayLen <= p * DayLen
      BY <1>1, <1>2, <2>2, <3>2, MulMono
    <3> QED
      BY <1>1, <1>3, <1>4, <1>7, <2>2, <2>4, <3>1, <3>3
  <2> QED
    BY <2>3, <2>4
<1>12. t \in S
  BY <1>1, <1>9, <1>10
<1> QED
  BY <1>11, <1>12 DEF Earliest, t

\* Of what is typed of the days and times of the calendar.
LEMMA InputsAre ==
  ASSUME NEW in \in Inputs
  PROVE  /\ in.kind \in {"relative", "date", "delta", "clock", "unknown"}
         /\ in.kind = "relative" => in.n \in Nat /\ in.clock \in Clocks
         /\ in.kind = "date" => in.clock \in Clocks /\ in.year \in Nat \cup {Omitted}
         /\ in.kind = "delta" => in.n \in Nat
         /\ in.kind = "clock" => in.clock \in 0..DayLen - 1
<1> DEFINE clocks == 0..DayLen - 1
           years == {Calendar[d][1] : d \in Days}
           dates == {Calendar[d][2] : d \in Days}
<1>1. CASE in \in {Relative(n, c) : n \in 0..2, c \in clocks \cup {Omitted}}
  BY <1>1 DEF Relative, Clocks
<1>2. CASE in \in {Date(y, d, c) : y \in years \cup {Omitted}, d \in dates, c \in clocks \cup {Omitted}}
  <2>1. PICK y \in years \cup {Omitted}, d \in dates, c \in clocks \cup {Omitted} : in = Date(y, d, c)
    BY <1>2
  <2>2. y \in Nat \cup {Omitted}
    BY DaysAre
  <2> QED
    BY <2>1, <2>2 DEF Date, Clocks
<1>3. CASE in \in {Delta(n) : n \in 0..DayLen + 1}
  BY <1>3, DatesAssumption DEF Delta
<1>4. CASE in \in {Clock(c) : c \in clocks}
  BY <1>4 DEF Clock
<1>5. CASE in = Unknown
  BY <1>5 DEF Unknown
<1> QED
  BY <1>1, <1>2, <1>3, <1>4, <1>5 DEF Inputs

LEMMA StartIsMeant ==
  ASSUME NEW in \in Inputs, NEW t \in Moments
  PROVE  StartMeant(ParseStartTime(in, t, DefaultStartTime), in, t, DefaultStartTime)
<1>0. DefaultStartTime \in 0..DayLen - 1
  BY DispatcherAssumption
<1>1. DefaultStartTime \in 0..DayLen - 1 /\ t \in Int /\ DayOf(t) \in Int
  BY <1>0, MomentsAre, TimeParts
<1>2. CASE in.kind = "relative"
  <2> DEFINE c == TimeOrDefault(in.clock, DefaultStartTime)
             d == DayOf(t) + in.n
  <2>1. c \in 0..DayLen - 1 /\ d \in Int
    BY <1>1, <1>2, InputsAre DEF TimeOrDefault, Clocks
  <2>2. ParseStartTime(in, t, DefaultStartTime) = On(c, d)
    BY <1>2 DEF ParseStartTime
  <2> HIDE DEF c, d
  <2>3. DayOf(On(c, d)) = d /\ ClockOf(On(c, d)) = c
    BY <2>1, OnParts
  <2> QED
    BY <1>2, <2>2, <2>3 DEF StartMeant, c, d
<1>3. CASE in.kind = "date"
  BY <1>1, <1>3, InputsAre, DateIsMeant DEF ParseStartTime, StartMeant
<1>4. CASE in.kind \notin {"relative", "date"}
  BY <1>4 DEF ParseStartTime, StartMeant
<1> QED
  BY <1>2, <1>3, <1>4

LEMMA EndIsMeant ==
  ASSUME NEW in \in Inputs, NEW t \in Moments
  PROVE  EndMeant(ParseEndTime(in, t), in, t)
<1>1. 0 \in 0..DayLen - 1 /\ t \in Int
  BY DatesAssumption, MomentsAre
<1>2. CASE in.kind = "delta"
  BY <1>2 DEF ParseEndTime, EndMeant
<1>3. CASE in.kind = "date"
  BY <1>1, <1>3, InputsAre, DateIsMeant DEF ParseEndTime, EndMeant
<1>4. CASE in.kind = "clock"
  <2>1. in.clock \in 0..DayLen - 1
    BY <1>4, InputsAre
  <2>2. Earliest(ParseEndTime(in, t), {u \in t + 1 .. t + DayLen : ClockOf(u) = in.clock})
    BY <1>1, <1>4, <2>1, NextClock
  <2> QED
    BY <1>4, <2>2 DEF EndMeant
<1>5. CASE in.kind \notin {"delta", "date", "clock"}
  BY <1>5 DEF ParseEndTime, EndMeant
<1> QED
  BY <1>2, <1>3, <1>4, <1>5

\* Whatever is typed as a start or an end means at any time what section 1.2 of
\* docs/07-bot-ux.md says it means, whatever the calendar, the length of a day
\* and the default time are (ParseStartTime and ParseEndTime in bot/datetime.go).
THEOREM TypedAsMeant == Spec => []ParsedAsMeant
<1>1. ParsedAsMeant
  BY StartIsMeant, EndIsMeant DEF ParsedAsMeant
<1> QED
  BY <1>1, PTL

-----------------------------------------------------------------------------
(* The calls of a request.                                                 *)

\* The call a request is about to make.
CallOf(req) == IF req.todo = << >> THEN "none" ELSE Head(req.todo)

Redraws == {"redraw_announcement", "redraw_recruit", "redraw_summary"}

\* The calls of a creation once the event is there.
Made == {"create_channel", "set_channel", "post_announcement", "pin_announcement",
         "post_recruit", "post_summary", "pin_summary", "set_messages", "plan"}

CallsOf(op) ==
  CASE op = "new" -> Made \cup {"insert", "cancel", "notify"}
    [] op = "edit" -> Redraws \cup {"edit"}
    [] op = "end" -> Redraws \cup {"close", "unpin_announcement", "unpin_summary",
                                   "post_closing", "enqueue_archive"}
    [] op = "archive" -> {"archive", "set_archived"}
    [] op = "none" -> {}

Ops == {"new", "edit", "end", "archive", "none"}
Calls == UNION {CallsOf(op) : op \in Ops}

\* What may come after a call; "none" is the end of the request.
NextCalls(op, call) ==
  CASE call = "insert" -> {"create_channel"}
    [] call = "create_channel" -> {"set_channel"}
    [] call = "set_channel" -> {"post_announcement"}
    [] call = "post_announcement" -> {"pin_announcement"}
    [] call = "pin_announcement" -> {"post_recruit"}
    [] call = "post_recruit" -> {"post_summary"}
    [] call = "post_summary" -> {"pin_summary"}
    [] call = "pin_summary" -> {"set_messages"}
    [] call = "set_messages" -> {"plan"}
    [] call = "cancel" -> {"notify", "none"}
    [] call \in {"edit", "close"} -> {"redraw_announcement"}
    [] call = "redraw_announcement" -> {"redraw_recruit"}
    [] call = "redraw_recruit" -> {"redraw_summary"}
    [] call = "redraw_summary" -> IF op = "edit" THEN {"none"} ELSE {"unpin_announcement"}
    [] call = "unpin_announcement" -> {"unpin_summary"}
    [] call = "unpin_summary" -> {"post_closing"}
    [] call = "post_closing" -> {"enqueue_archive"}
    [] call = "archive" -> {"set_archived"}
    [] call \in {"plan", "notify", "enqueue_archive", "set_archived"} -> {"none"}

\* The calls ahead of a request are those of its operation, in their order.
InPlace(op, todo, i) ==
  /\ todo[i] \in CallsOf(op)
  /\ (IF i < Len(todo) THEN todo[i + 1] ELSE "none") \in NextCalls(op, todo[i])

InOrder(op, todo) == \A i \in 1..Len(todo) : InPlace(op, todo, i)

-----------------------------------------------------------------------------
(* The types.                                                              *)

\* A text or none, a moment or none.
Change == [title : Titles \cup {""}, starts : Moments \cup {Never}, ends : Int,
           clear : BOOLEAN, policy : Policies \cup {""}]

Request == [op : Ops, user : Users \cup {""}, async : BOOLEAN, todo : Seq(Calls),
            event : Nat, ev : Event \cup {<< >>}, recruit : Rooms \cup {None}, attempt : Nat,
            change : Change, shown : Given \cup {<< >>}, failed : BOOLEAN]

Messages ==
  [kind : {"announcement"}, event : Nat, channel : Nat, buttons : BOOLEAN,
   title : Titles, starts : Moments, ends : Int]
  \cup [kind : {"summary"}, event : Nat, title : Titles, starts : Moments, ends : Int]
  \cup [kind : {"closing"}, event : Nat]

Post == [message : Messages, pinned : BOOLEAN]

Names == {Taken[i] : i \in DOMAIN Taken} \cup {ChannelName(ev, n) : ev \in Event, n \in 1..Attempts}

Channel == [name : Names, archived : BOOLEAN]

\* The forms as they are opened.
NewFormAt(t, room) ==
  [of |-> "new", event |-> None, room |-> room, title |-> "",
   date |-> DateField(t + DayLen), time |-> DefaultStartTime, ends |-> Unknown,
   remind |-> "standard", shown |-> << >>]

EditFormOf(e, g) ==
  [of |-> "edit", event |-> e, room |-> None, title |-> g.title,
   date |-> DateField(g.starts), time |-> ClockOf(g.starts),
   ends |-> IF g.ends = Never THEN Unknown ELSE Clock(ClockOf(g.ends)),
   remind |-> "custom", shown |-> g]

Shown == {g \in Given : WhenEnds(g)}

FormOK(f) ==
  \/ f = NoForm
  \/ \E t \in Instants, room \in Origins : f = NewFormAt(t, room)
  \/ \E e \in DOMAIN events, g \in Shown : f = EditFormOf(e, g)

\* An edit that sends the form as it was shown changes what it shows to itself.
SentAsShown(req) ==
  req.shown # << >> =>
    /\ req.shown.title # "" /\ req.change.title = req.shown.title
    /\ req.change.starts = req.shown.starts /\ req.change.policy = ""
    /\ req.shown.ends <= req.shown.starts + DayLen =>
         req.change.ends = req.shown.ends /\ (req.change.clear <=> req.shown.ends = Never)

\* What a request is about, and what it has read of it.
HasRead(req) == req.op # "none"

AboutEvent(req, ids) ==
  CASE req.op = "none" \/ CallOf(req) = "insert" -> req.event = None
    [] CallOf(req) = "notify" -> req.event \in ids \cup {None}
    [] OTHER -> req.event \in ids

RequestOK(req, ids) ==
  /\ req.todo = << >> => req = Idle
  /\ InOrder(req.op, req.todo)
  /\ AboutEvent(req, ids) /\ (HasRead(req) => req.ev \in Event)
  /\ CallOf(req) \in Made \cup {"cancel", "close"} => WhenEnds(req.ev.given)
  /\ SentAsShown(req)

RequestsOK == reqs \in [Reqs -> Request] /\ \A r \in Reqs : RequestOK(reqs[r], DOMAIN events)

EventsOK == events \in Seq(Event) /\ \A e \in DOMAIN events : WhenEnds(events[e].given)

FormsOK == DOMAIN forms = Users /\ \A u \in Users : FormOK(forms[u])

ProviderOK == channels \in Seq(Channel) /\ posts \in [Rooms \cup DOMAIN channels -> Seq(Post)]

TypeInv ==
  /\ now \in Instants /\ recruit \in Rooms \cup {None}
  /\ EventsOK /\ FormsOK /\ RequestsOK /\ ProviderOK
  /\ archives \in SUBSET DOMAIN events /\ crossed \in SUBSET DOMAIN events
  /\ called \in Nat /\ faults \in Nat

-----------------------------------------------------------------------------
(* What a request knows.  docs, chans and ps stand for events, channels    *)
(* and posts, before a step or after it.                                   *)

\* A post about event e.
RefersTo(ps, id, e, kind) ==
  /\ id \in Int \X Nat
  /\ id[1] \in DOMAIN ps /\ id[2] \in DOMAIN ps[id[1]]
  /\ ps[id[1]][id[2]].message.event = e /\ ps[id[1]][id[2]].message.kind = kind

RefsOK(ps, e, refs) ==
  /\ refs.announcement # NoPost => RefersTo(ps, refs.announcement, e, "announcement")
  /\ refs.recruit # NoPost => RefersTo(ps, refs.recruit, e, "announcement")
  /\ refs.summary # NoPost => RefersTo(ps, refs.summary, e, "summary")

\* The names tried have been in use.
TriedNames(req, chans) ==
  \A n \in 1..req.attempt - 1 :
    \E c \in DOMAIN chans : chans[c].name = ChannelName(req.ev, n)

ReadTrue(req, chans, ps) ==
  HasRead(req) =>
    /\ RefsOK(ps, req.event, req.ev.refs)
    /\ req.ev.channel \in DOMAIN chans \cup {None}

\* The stored event knows its channel and its messages.
Complete(e, docs) ==
  /\ e \in DOMAIN docs /\ docs[e].channel # None
  /\ docs[e].refs.announcement # NoPost /\ docs[e].refs.summary # NoPost

\* How far a creation has come.
Progress(req, docs, chans) ==
  LET call == CallOf(req) IN
  /\ call \in {"insert", "create_channel"} => req.ev.channel = None
  /\ call \in {"insert", "create_channel", "set_channel", "post_announcement"} =>
       req.ev.refs = NoRefs
  /\ call \in Made \cup {"insert"} => ~req.failed
  /\ call = "insert" => req.attempt = 1 /\ req.ev.open
  /\ call = "create_channel" => req.attempt \in 1..Attempts /\ TriedNames(req, chans)
  /\ call \in Made \ {"create_channel"} => req.ev.channel # None
  /\ call \in Made \ {"create_channel", "set_channel"} => docs[req.event].channel # None
  /\ call \in {"pin_announcement", "post_recruit"} => req.ev.refs.recruit = NoPost
  /\ call \in {"pin_announcement", "post_recruit", "post_summary"} => req.ev.refs.summary = NoPost
  /\ call \in {"pin_announcement", "post_recruit", "post_summary", "pin_summary", "set_messages"} =>
       req.ev.refs.announcement # NoPost
  /\ call \in {"pin_summary", "set_messages"} => req.ev.refs.summary # NoPost
  /\ call = "plan" => Complete(req.event, docs)
  /\ call = "cancel" => req.failed
  /\ call = "notify" /\ ~req.failed => Complete(req.event, docs)

RequestInv(req, docs, chans, ps) == ReadTrue(req, chans, ps) /\ Progress(req, docs, chans)

EventInv(e, ev, chans, ps) == RefsOK(ps, e, ev.refs) /\ ev.channel \in DOMAIN chans \cup {None}

PostInv(post, docs) == post.message.event \in DOMAIN docs

RefInv ==
  /\ \A e \in DOMAIN events : EventInv(e, events[e], channels, posts)
  /\ \A c \in DOMAIN posts : \A n \in DOMAIN posts[c] : PostInv(posts[c][n], events)
  /\ \A r \in Reqs : RequestInv(reqs[r], events, channels, posts)

-----------------------------------------------------------------------------
(* What a step does to the requests.                                       *)

\* The request a command or a form begins, and one that goes on, or ends.
LEMMA TodoLemma ==
  ASSUME NEW S, NEW todo \in Seq(S), todo # << >>
  PROVE  /\ Head(todo) \in S /\ Head(todo) = todo[1] /\ 1 \in 1..Len(todo)
         /\ Tail(todo) \in Seq(S) /\ Len(Tail(todo)) = Len(todo) - 1
         /\ \A i \in 1..Len(Tail(todo)) : Tail(todo)[i] = todo[i + 1]
         /\ Len(todo) = 1 <=> Tail(todo) = << >>
<1>1. Len(todo) \in Nat \ {0} /\ Head(todo) = todo[1] /\ Head(todo) \in S
  OBVIOUS
<1>2. /\ Tail(todo) \in Seq(S) /\ Len(Tail(todo)) = Len(todo) - 1
      /\ \A i \in 1..Len(Tail(todo)) : Tail(todo)[i] = todo[i + 1]
  BY <1>1
<1>3. Tail(todo) = << >> <=> Len(Tail(todo)) = 0
  BY <1>2, EmptySeq
<1> QED
  BY <1>1, <1>2, <1>3

LEMMA CallsAre ==
  ASSUME NEW op \in Ops
  PROVE  CallsOf(op) \subseteq Calls /\ "none" \notin CallsOf(op)
<1>1. CallsOf(op) \subseteq Calls
  BY DEF Calls
<1>2. "none" \notin CallsOf(op)
  BY DEF CallsOf, Ops, Made, Redraws
<1> QED
  BY <1>1, <1>2

LEMMA IdleIs ==
  /\ Idle \in Request /\ (\A ids : RequestOK(Idle, ids)) /\ CallOf(Idle) = "none"
  /\ Idle.op = "none" /\ Idle.event = None
<1>1. << >> \in Seq(Calls) /\ Len(<< >>) = 0
  OBVIOUS
<1>2. NoChange \in Change
  BY DEF NoChange, Change, Never
<1>3. Idle \in Request
  BY <1>1, <1>2 DEF Idle, Request, Ops, None
<1>4. CallOf(Idle) = "none" /\ Idle.op = "none" /\ Idle.event = None
  BY DEF Idle, CallOf
<1>5. (\A ids : AboutEvent(Idle, ids)) /\ ~HasRead(Idle)
  BY <1>4 DEF AboutEvent, HasRead
<1>6. InOrder(Idle.op, Idle.todo)
  BY <1>1 DEF InOrder, Idle
<1>7. SentAsShown(Idle)
  BY DEF SentAsShown, Idle
<1> QED
  BY <1>3, <1>4, <1>5, <1>6, <1>7 DEF RequestOK, Made

\* A call is made by a request that has it ahead.
LEMMA AtIs ==
  ASSUME RequestsOK, NEW r \in Reqs, NEW call, At(r, call)
  PROVE  /\ reqs[r] \in Request /\ RequestOK(reqs[r], DOMAIN events)
         /\ call = CallOf(reqs[r]) /\ call \in CallsOf(reqs[r].op) /\ call # "none"
         /\ reqs[r].todo \in Seq(Calls) /\ reqs[r].todo # << >> /\ reqs[r].op # "none"
         /\ reqs[r].op \in Ops
<1>1. /\ reqs[r] \in Request /\ reqs[r].todo \in Seq(Calls) /\ reqs[r].todo # << >>
      /\ RequestOK(reqs[r], DOMAIN events) /\ reqs[r].op \in Ops
  BY DEF RequestsOK, Request, At
<1>2. call = CallOf(reqs[r]) /\ call \in CallsOf(reqs[r].op)
  BY <1>1, TodoLemma DEF RequestOK, InOrder, InPlace, At, CallOf
<1>3. reqs[r].op # "none"
  BY <1>2 DEF CallsOf, Ops
<1> QED
  BY <1>1, <1>2, <1>3, CallsAre

\* The operation of a request is known from its call.
LEMMA OpIs ==
  ASSUME NEW op \in Ops, NEW call \in CallsOf(op)
  PROVE  /\ call \in Made \cup {"insert", "cancel", "notify"} => op = "new"
         /\ call = "edit" => op = "edit"
         /\ call \in Redraws => op \in {"edit", "end"}
         /\ call \in {"close", "unpin_announcement", "unpin_summary", "post_closing",
                      "enqueue_archive"} => op = "end"
         /\ call \in {"archive", "set_archived"} => op = "archive"
BY DEF Ops, CallsOf, Made, Redraws

\* What is left of the calls after the first is in order, too.
LEMMA NextInOrder ==
  ASSUME NEW op \in Ops, NEW todo \in Seq(Calls), todo # << >>, InOrder(op, todo)
  PROVE  /\ Len(todo) = 1 => "none" \in NextCalls(op, Head(todo))
         /\ Len(todo) # 1 =>
              /\ Tail(todo) \in Seq(Calls) /\ Tail(todo) # << >> /\ InOrder(op, Tail(todo))
              /\ Head(Tail(todo)) \in NextCalls(op, Head(todo)) /\ Head(Tail(todo)) # "none"
<1>1. CASE Len(todo) = 1
  BY <1>1, TodoLemma DEF InOrder, InPlace
<1>2. CASE Len(todo) # 1
  <2>3. Tail(todo) \in Seq(Calls) /\ Tail(todo) # << >> /\ Head(Tail(todo)) = todo[2]
    BY <1>2, TodoLemma
  <2>5. todo[2] \in NextCalls(op, Head(todo)) /\ todo[2] \in CallsOf(op)
    BY <1>2, TodoLemma DEF InOrder, InPlace
  <2>6. InOrder(op, Tail(todo))
    <3> SUFFICES ASSUME NEW i \in 1..Len(Tail(todo))
                 PROVE  InPlace(op, Tail(todo), i)
      BY DEF InOrder
    <3>1. /\ Len(todo) \in Nat /\ Len(Tail(todo)) = Len(todo) - 1
          /\ i + 1 \in 1..Len(todo) /\ Tail(todo)[i] = todo[i + 1]
      BY TodoLemma
    <3>2. CASE i < Len(Tail(todo))
      <4>1. i + 1 < Len(todo) /\ Tail(todo)[i + 1] = todo[(i + 1) + 1]
        BY <3>1, <3>2, TodoLemma
      <4> QED
        BY <3>1, <3>2, <4>1 DEF InOrder, InPlace
    <3>3. CASE ~(i < Len(Tail(todo)))
      <4>1. ~(i + 1 < Len(todo))
        BY <3>1, <3>3
      <4> QED
        BY <3>1, <3>3, <4>1 DEF InOrder, InPlace
    <3> QED
      BY <3>2, <3>3
  <2>7. todo[2] # "none"
    BY <2>5, CallsAre
  <2> QED
    BY <1>2, <2>3, <2>5, <2>6, <2>7
<1> QED
  BY <1>1, <1>2

\* Only r has changed.
Moved(r) == reqs' = [reqs EXCEPT ![r] = reqs'[r]] /\ reqs'[r] \in Request

\* The request is about what it has been about.
SameRequest(req, old) ==
  /\ req.op = old.op /\ req.user = old.user /\ req.async = old.async /\ req.event = old.event
  /\ req.recruit = old.recruit /\ req.attempt = old.attempt
  /\ req.change = old.change /\ req.shown = old.shown

\* r has made its call, and goes on with ev, or has ended.
Advanced(r, ev) ==
  /\ Moved(r)
  /\ CallOf(reqs'[r]) \in NextCalls(reqs[r].op, CallOf(reqs[r]))
  /\ InOrder(reqs'[r].op, reqs'[r].todo)
  /\ \/ reqs'[r] = Idle
     \/ /\ SameRequest(reqs'[r], reqs[r]) /\ reqs'[r].failed = reqs[r].failed
        /\ reqs'[r].ev = ev /\ reqs'[r].todo # << >> /\ CallOf(reqs'[r]) # "none"

LEMMA GoOnIs ==
  ASSUME RequestsOK, NEW r \in Reqs, NEW call, At(r, call),
         NEW ev \in Event \cup {<< >>}, GoOn(r, ev)
  PROVE  Advanced(r, ev)
<1> DEFINE op == reqs[r].op
           todo == reqs[r].todo
<1>1. /\ reqs[r] \in Request /\ todo \in Seq(Calls) /\ todo # << >> /\ Head(todo) = call
      /\ InOrder(op, todo) /\ op # "none" /\ call = CallOf(reqs[r]) /\ op \in Ops
  BY AtIs DEF At, RequestOK
<1>2. reqs \in [Reqs -> Request]
  BY DEF RequestsOK
<1>3. CASE Len(todo) = 1
  <2>1. "none" \in NextCalls(op, call)
    BY <1>1, <1>3, NextInOrder
  <2>2. reqs' = [reqs EXCEPT ![r] = Idle]
    BY <1>3 DEF GoOn
  <2>3. reqs'[r] = Idle /\ reqs' = [reqs EXCEPT ![r] = reqs'[r]]
    BY <1>2, <2>2
  <2> QED
    BY <1>1, <2>1, <2>3, IdleIs DEF Advanced, Moved, RequestOK
<1>4. CASE Len(todo) # 1
  <2> DEFINE new == [reqs[r] EXCEPT !.todo = Tail(todo), !.ev = ev]
  <2>1. reqs' = [reqs EXCEPT ![r] = new]
    <3>1. reqs' = [reqs EXCEPT ![r] = IF Len(todo) = 1 THEN Idle ELSE new]
      BY Zenon DEF GoOn
    <3> QED
      BY <1>4, <3>1, Zenon
  <2>2. reqs'[r] = new /\ reqs' = [reqs EXCEPT ![r] = reqs'[r]]
    BY <1>2, <2>1
  <2>3. /\ Tail(todo) \in Seq(Calls) /\ Tail(todo) # << >> /\ InOrder(op, Tail(todo))
        /\ Head(Tail(todo)) \in NextCalls(op, call) /\ Head(Tail(todo)) # "none"
    BY <1>1, <1>4, NextInOrder
  <2>4. /\ SameRequest(new, reqs[r]) /\ new.failed = reqs[r].failed
        /\ new.ev = ev /\ new.todo = Tail(todo) /\ new \in Request
    BY <1>1, <2>3 DEF Request, SameRequest
  <2> HIDE DEF new
  <2>8. CallOf(new) = Head(Tail(todo)) /\ new.op = op
    BY <2>3, <2>4 DEF CallOf, SameRequest
  <2> QED
    BY <1>1, <2>2, <2>3, <2>4, <2>8 DEF Advanced, Moved
<1> QED
  BY <1>3, <1>4

-----------------------------------------------------------------------------
(* The lists of calls that requests are given.                             *)

IsCourse(op, todo) == todo \in Seq(Calls) /\ todo # << >> /\ InOrder(op, todo)

LEMMA CourseLemma ==
  ASSUME NEW op, NEW todo \in Seq(Calls), Len(todo) # 0,
         \A i \in 1..Len(todo) : InPlace(op, todo, i)
  PROVE  IsCourse(op, todo) /\ Head(todo) = todo[1]
<1>1. todo # << >>
  BY EmptySeq
<1> QED
  BY <1>1, TodoLemma DEF IsCourse, InOrder

LEMMA CallSets ==
  /\ \A c \in Made \cup Redraws : c \in Calls
  /\ {"insert", "cancel", "notify", "edit", "close", "unpin_announcement", "unpin_summary",
      "post_closing", "enqueue_archive", "archive", "set_archived"} \subseteq Calls
<1>1. /\ CallsOf("new") \subseteq Calls /\ CallsOf("edit") \subseteq Calls
      /\ CallsOf("end") \subseteq Calls /\ CallsOf("archive") \subseteq Calls
  BY CallsAre DEF Ops
<1>2. /\ CallsOf("new") = Made \cup {"insert", "cancel", "notify"}
      /\ CallsOf("edit") = Redraws \cup {"edit"}
      /\ CallsOf("end") = Redraws \cup {"close", "unpin_announcement", "unpin_summary",
                                        "post_closing", "enqueue_archive"}
      /\ CallsOf("archive") = {"archive", "set_archived"}
  BY DEF CallsOf
<1> QED
  BY <1>1, <1>2

LEMMA CreationIs == IsCourse("new", Creation) /\ Head(Creation) = "insert"
<1>1. Creation \in Seq(Calls) /\ Len(Creation) = 10
  BY CallSets DEF Creation, Made
<1>2. /\ Creation[1] = "insert" /\ Creation[2] = "create_channel" /\ Creation[3] = "set_channel"
      /\ Creation[4] = "post_announcement" /\ Creation[5] = "pin_announcement"
      /\ Creation[6] = "post_recruit" /\ Creation[7] = "post_summary"
      /\ Creation[8] = "pin_summary" /\ Creation[9] = "set_messages" /\ Creation[10] = "plan"
  BY DEF Creation
<1>3. ASSUME NEW i \in 1..10
      PROVE  InPlace("new", Creation, i)
  BY <1>1, <1>2, <1>3 DEF InPlace, CallsOf, NextCalls, Made
<1>4. Len(Creation) # 0 /\ \A i \in 1..Len(Creation) : InPlace("new", Creation, i)
  BY <1>1, <1>3
<1> QED
  BY <1>1, <1>2, <1>4, CourseLemma

LEMMA EditIs == IsCourse("edit", Edit) /\ Head(Edit) = "edit"
<1>1. /\ Edit \in Seq(Calls) /\ Len(Edit) = 4
      /\ Edit[1] = "edit" /\ Edit[2] = "redraw_announcement" /\ Edit[3] = "redraw_recruit"
      /\ Edit[4] = "redraw_summary"
  BY CallSets DEF Edit, Redraw, Redraws
<1>2. ASSUME NEW i \in 1..4
      PROVE  InPlace("edit", Edit, i)
  BY <1>1, <1>2 DEF InPlace, CallsOf, NextCalls, Redraws
<1>3. Len(Edit) # 0 /\ \A i \in 1..Len(Edit) : InPlace("edit", Edit, i)
  BY <1>1, <1>2
<1> QED
  BY <1>1, <1>3, CourseLemma

LEMMA ClosingIs == IsCourse("end", Closing) /\ Head(Closing) = "close"
<1>1. /\ Closing \in Seq(Calls) /\ Len(Closing) = 8
      /\ Closing[1] = "close" /\ Closing[2] = "redraw_announcement"
      /\ Closing[3] = "redraw_recruit" /\ Closing[4] = "redraw_summary"
      /\ Closing[5] = "unpin_announcement" /\ Closing[6] = "unpin_summary"
      /\ Closing[7] = "post_closing" /\ Closing[8] = "enqueue_archive"
  BY CallSets DEF Closing, Redraw, Redraws
<1>2. ASSUME NEW i \in 1..8
      PROVE  InPlace("end", Closing, i)
  BY <1>1, <1>2 DEF InPlace, CallsOf, NextCalls, Redraws
<1>3. Len(Closing) # 0 /\ \A i \in 1..Len(Closing) : InPlace("end", Closing, i)
  BY <1>1, <1>2
<1> QED
  BY <1>1, <1>3, CourseLemma

LEMMA ArchivingIs == IsCourse("archive", Archiving) /\ Head(Archiving) = "archive"
<1>1. /\ Archiving \in Seq(Calls) /\ Len(Archiving) = 2
      /\ Archiving[1] = "archive" /\ Archiving[2] = "set_archived"
  BY CallSets DEF Archiving
<1>2. ASSUME NEW i \in 1..2
      PROVE  InPlace("archive", Archiving, i)
  BY <1>1, <1>2 DEF InPlace, CallsOf, NextCalls
<1>3. Len(Archiving) # 0 /\ \A i \in 1..Len(Archiving) : InPlace("archive", Archiving, i)
  BY <1>1, <1>2
<1> QED
  BY <1>1, <1>3, CourseLemma

LEMMA NotifyIs == IsCourse("new", <<"notify">>) /\ Head(<<"notify">>) = "notify"
<1>1. <<"notify">> \in Seq(Calls) /\ Len(<<"notify">>) = 1 /\ <<"notify">>[1] = "notify"
  BY CallSets
<1> QED
  BY <1>1 DEF IsCourse, InOrder, InPlace, CallsOf, NextCalls, Made

LEMMA CancelIs ==
  ASSUME NEW r
  PROVE  IsCourse("new", Cleanup \o Told(r)) /\ Head(Cleanup \o Told(r)) = "cancel"
<1>1. CASE ~reqs[r].async
  <2>1. Cleanup \o Told(r) = <<"cancel">>
    BY <1>1 DEF Cleanup, Told
  <2>2. <<"cancel">> \in Seq(Calls) /\ Len(<<"cancel">>) = 1 /\ <<"cancel">>[1] = "cancel"
    BY CallSets
  <2>3. IsCourse("new", <<"cancel">>)
    BY <2>2 DEF IsCourse, InOrder, InPlace, CallsOf, NextCalls, Made
  <2> QED
    BY <2>1, <2>2, <2>3
<1>2. CASE reqs[r].async
  <2> DEFINE todo == <<"cancel", "notify">>
  <2>2. todo \in Seq(Calls) /\ Len(todo) = 2 /\ todo[1] = "cancel" /\ todo[2] = "notify"
    BY CallSets
  <2>1. Cleanup \o Told(r) = todo
    <3>1. Cleanup = <<"cancel">> /\ Told(r) = <<"notify">>
      BY <1>2 DEF Cleanup, Told
    <3> DEFINE first == <<"cancel">>
               last == <<"notify">>
    <3>2. /\ first \in Seq(Calls) /\ Len(first) = 1 /\ first[1] = "cancel"
          /\ last \in Seq(Calls) /\ Len(last) = 1 /\ last[1] = "notify"
      BY CallSets
    <3> HIDE DEF first, last
    <3>3. /\ first \o last \in Seq(Calls) /\ Len(first \o last) = 2
          /\ \A i \in 1..2 : (first \o last)[i] = IF i <= 1 THEN first[i] ELSE last[i - 1]
      BY <3>2, ConcatProperties
    <3>4. (first \o last)[1] = todo[1] /\ (first \o last)[2] = todo[2]
      BY <2>2, <3>2, <3>3
    <3> HIDE DEF todo
    <3>5. first \o last = todo
      BY <2>2, <3>3, <3>4, SeqEqual
    <3> QED
      BY <3>1, <3>5 DEF first, last
  <2>3. IsCourse("new", todo) /\ Head(todo) = "cancel"
    BY <2>2 DEF IsCourse, InOrder, InPlace, CallsOf, NextCalls, Made
  <2> QED
    BY <2>1, <2>3
<1> QED
  BY <1>1, <1>2

\* r goes on with another list of calls.
Turned(r, call, failed) ==
  /\ Moved(r)
  /\ SameRequest(reqs'[r], reqs[r]) /\ reqs'[r].ev = reqs[r].ev /\ reqs'[r].failed = failed
  /\ CallOf(reqs'[r]) = call /\ reqs'[r].todo # << >>
  /\ InOrder(reqs'[r].op, reqs'[r].todo)

LEMMA InsteadIs ==
  ASSUME RequestsOK, NEW r \in Reqs, NEW todo, IsCourse(reqs[r].op, todo),
         NEW failed \in BOOLEAN, Instead(r, todo, failed)
  PROVE  Turned(r, Head(todo), failed)
<1>1. reqs[r] \in Request /\ reqs \in [Reqs -> Request]
  BY DEF RequestsOK
<1> DEFINE new == [reqs[r] EXCEPT !.todo = todo, !.failed = failed]
<1>2. reqs' = [reqs EXCEPT ![r] = new]
  BY DEF Instead, IsCourse
<1>3. reqs'[r] = new /\ reqs' = [reqs EXCEPT ![r] = reqs'[r]]
  BY <1>1, <1>2
<1>4. /\ new \in Request /\ SameRequest(new, reqs[r]) /\ new.ev = reqs[r].ev
      /\ new.failed = failed /\ new.todo = todo
  BY <1>1 DEF Request, SameRequest, IsCourse
<1> HIDE DEF new
<1> QED
  BY <1>3, <1>4 DEF Turned, Moved, CallOf, IsCourse, SameRequest

Ended(r) == Moved(r) /\ reqs'[r] = Idle

LEMMA EndIs ==
  ASSUME RequestsOK, NEW r \in Reqs, NEW failed, Instead(r, << >>, failed)
  PROVE  Ended(r)
<1>1. reqs' = [reqs EXCEPT ![r] = Idle] /\ reqs \in [Reqs -> Request]
  BY DEF Instead, RequestsOK
<1> QED
  BY <1>1, IdleIs DEF Ended, Moved

\* A user who is not waiting is told.
LEMMA ToldIs ==
  ASSUME RequestsOK, NEW r \in Reqs, reqs[r].op = "new", NEW failed \in BOOLEAN,
         Instead(r, Told(r), failed)
  PROVE  Ended(r) \/ Turned(r, "notify", failed)
<1>1. CASE reqs[r].async
  BY <1>1, NotifyIs, InsteadIs DEF Told
<1>2. CASE ~reqs[r].async
  BY <1>2, EndIs DEF Told
<1> QED
  BY <1>1, <1>2

LEMMA AbortIs ==
  ASSUME RequestsOK, NEW r \in Reqs, reqs[r].op = "new", Abort(r)
  PROVE  Turned(r, "cancel", TRUE)
<1>1. IsCourse("new", Cleanup \o Told(r)) /\ Head(Cleanup \o Told(r)) = "cancel"
  BY CancelIs
<1>2. Instead(r, Cleanup \o Told(r), TRUE)
  BY DEF Abort
<1> QED
  BY <1>1, <1>2, InsteadIs

-----------------------------------------------------------------------------
(* What a call of the Provider does to the posts.                          *)

\* Of the posts only the one with this id is new or another; NoPost is that of none.
Effect(id, post) ==
  /\ DOMAIN posts \subseteq DOMAIN posts'
  /\ \A c \in DOMAIN posts : DOMAIN posts[c] \subseteq DOMAIN posts'[c]
  /\ \A c \in DOMAIN posts' : \A n \in DOMAIN posts'[c] :
       \/ <<c, n>> = id /\ posts'[c][n] = post
       \/ /\ <<c, n>> # id
          /\ c \in DOMAIN posts /\ n \in DOMAIN posts[c] /\ posts'[c][n] = posts[c][n]

LEMMA NoPostIs == \A c, n : <<c, n>> # NoPost
BY DEF NoPost

LEMMA ExceptIs ==
  ASSUME NEW S, NEW s \in Seq(S), NEW i, NEW x, i \in DOMAIN s => x \in S
  PROVE  /\ [s EXCEPT ![i] = x] \in Seq(S) /\ DOMAIN [s EXCEPT ![i] = x] = DOMAIN s
         /\ \A n \in DOMAIN s : [s EXCEPT ![i] = x][n] = IF n = i THEN x ELSE s[n]
<1> DEFINE t == [s EXCEPT ![i] = x]
<1>1. Len(s) \in Nat /\ DOMAIN s = 1..Len(s) /\ \A n \in 1..Len(s) : s[n] \in S
  OBVIOUS
<1>2. DOMAIN t = DOMAIN s /\ \A n \in DOMAIN s : t[n] = IF n = i THEN x ELSE s[n]
  OBVIOUS
<1>3. t = [n \in 1..Len(s) |-> IF n = i THEN x ELSE s[n]]
  BY <1>1
<1>4. \A n \in 1..Len(s) : (IF n = i THEN x ELSE s[n]) \in S
  BY <1>1
<1>5. [n \in 1..Len(s) |-> IF n = i THEN x ELSE s[n]] \in Seq(S)
  BY <1>1, <1>4, IsASeq
<1> QED
  BY <1>2, <1>3, <1>5

LEMMA PostsAre ==
  ASSUME ProviderOK, NEW c \in DOMAIN posts
  PROVE  /\ posts[c] \in Seq(Post) /\ Len(posts[c]) \in Nat
         /\ DOMAIN posts[c] = 1..Len(posts[c]) /\ c \in Rooms \cup DOMAIN channels
         /\ \A n \in DOMAIN posts[c] : posts[c][n] \in Post
<1>1. c \in Rooms \cup DOMAIN channels /\ posts[c] \in Seq(Post)
  BY DEF ProviderOK
<1> QED
  BY <1>1

LEMMA SamePosts ==
  ASSUME UNCHANGED posts
  PROVE  \A post : Effect(NoPost, post)
BY NoPostIs DEF Effect

\* A post at the end of the channel.
LEMMA PostIs ==
  ASSUME ProviderOK, NEW c, NEW m \in Messages, PostMessage(c, m)
  PROVE  /\ ProviderOK' /\ UNCHANGED channels
         /\ c \in DOMAIN posts =>
              \E id \in Int \X Nat :
                /\ id = NextPost(c) /\ Effect(id, [message |-> m, pinned |-> FALSE])
                /\ ~IsPost(id) /\ IsPost(id)'
         /\ c \notin DOMAIN posts => UNCHANGED posts
<1> DEFINE post == [message |-> m, pinned |-> FALSE]
<1>1. posts' = [posts EXCEPT ![c] = Append(posts[c], post)] /\ UNCHANGED channels
  BY DEF PostMessage
<1>2. post \in Post
  BY DEF Post
<1> HIDE DEF post
<1>3. posts \in [Rooms \cup DOMAIN channels -> Seq(Post)] /\ channels \in Seq(Channel)
  BY DEF ProviderOK
<1>4. DOMAIN posts' = DOMAIN posts
  BY <1>1
<1>5. \A b \in DOMAIN posts \ {c} : posts'[b] = posts[b]
  BY <1>1
<1>6. CASE c \in DOMAIN posts
  <2> DEFINE s == posts[c]
             t == posts'[c]
  <2>1. s \in Seq(Post) /\ t = Append(s, post)
    BY <1>1, <1>3, <1>6
  <2> HIDE DEF s, t
  <2>0. PICK k \in Nat : k = Len(s) + 1
    BY <2>1
  <2>2. /\ t \in Seq(Post) /\ Len(s) \in Nat /\ DOMAIN s = 1..Len(s) /\ DOMAIN t = 1..k
        /\ \A n \in 1..Len(s) : t[n] = s[n]
        /\ t[k] = post
    BY <1>2, <2>0, <2>1, AppendProperties
  <2>3. ProviderOK'
    BY <1>1, <1>3, <1>4, <1>5, <1>6, <2>2 DEF ProviderOK, t
  <2>4. NextPost(c) = <<c, k>>
    BY <2>0 DEF NextPost, s
  <2>5. c \in Int
    BY <1>3, <1>6, RoomsAssumption
  <2>6. k \in Nat /\ k \notin DOMAIN s /\ k \in DOMAIN t /\ DOMAIN s \subseteq DOMAIN t
        /\ \A n \in DOMAIN t : n = k \/ (n \in DOMAIN s /\ t[n] = s[n])
    BY <2>0, <2>2
  <2>7. ~IsPost(<<c, k>>) /\ IsPost(<<c, k>>)' /\ <<c, k>> \in Int \X Nat
    <3>1. <<c, k>>[1] = c /\ <<c, k>>[2] = k /\ <<c, k>> \in Int \X Nat
      BY <2>0, <2>5
    <3> QED
      BY <1>4, <1>6, <2>6, <3>1 DEF IsPost, s, t
  <2>8. Effect(<<c, k>>, post)
    BY <1>4, <1>5, <1>6, <2>2, <2>6 DEF Effect, s, t
  <2> QED
    BY <1>1, <1>6, <2>3, <2>4, <2>7, <2>8 DEF post
<1>7. CASE c \notin DOMAIN posts
  <2>1. posts' = posts
    BY <1>1, <1>3, <1>7
  <2> QED
    BY <1>1, <1>3, <1>7, <2>1 DEF ProviderOK
<1> QED
  BY <1>6, <1>7

\* A post that is there is another one afterwards.
LEMMA ChangeIs ==
  ASSUME ProviderOK, NEW id, NEW post, IsPost(id) => post \in Post,
         posts' = [posts EXCEPT ![id[1]][id[2]] = post], UNCHANGED channels
  PROVE  /\ ProviderOK'
         /\ IsPost(id) /\ id \in Int \X Nat => Effect(id, post) /\ IsPost(id)'
<1> DEFINE c == id[1]
           k == id[2]
           s == posts[c]
           t == [s EXCEPT ![k] = post]
<1>1. posts' = [posts EXCEPT ![c] = t]
  OBVIOUS
<1>2. posts \in [Rooms \cup DOMAIN channels -> Seq(Post)] /\ channels \in Seq(Channel)
  BY DEF ProviderOK
<1>3. DOMAIN posts' = DOMAIN posts /\ \A b \in DOMAIN posts \ {c} : posts'[b] = posts[b]
  BY <1>1
<1>4. CASE c \in DOMAIN posts
  <2>1. s \in Seq(Post) /\ posts'[c] = t
    BY <1>1, <1>2, <1>4
  <2>2. k \in DOMAIN s => post \in Post
    BY <1>4 DEF IsPost
  <2> HIDE DEF s
  <2>3. /\ t \in Seq(Post) /\ DOMAIN t = DOMAIN s
        /\ \A n \in DOMAIN s : t[n] = IF n = k THEN post ELSE s[n]
    BY <2>1, <2>2, ExceptIs
  <2> HIDE DEF t
  <2>4. ProviderOK'
    BY <1>1, <1>2, <1>3, <2>1, <2>3 DEF ProviderOK
  <2>5. ASSUME IsPost(id), id \in Int \X Nat
        PROVE  Effect(id, post) /\ IsPost(id)'
    <3>1. id = <<c, k>>
      BY <2>5
    <3>2. k \in DOMAIN s
      BY <2>5 DEF IsPost, s
    <3> HIDE DEF c, k
    <3>3. Effect(<<c, k>>, post)
      BY <1>3, <1>4, <2>1, <2>3, <3>2 DEF Effect, s
    <3>4. IsPost(<<c, k>>)'
      BY <1>3, <1>4, <2>1, <2>3, <3>2 DEF IsPost
    <3> QED
      BY <3>1, <3>3, <3>4
  <2> QED
    BY <2>4, <2>5
<1>5. CASE c \notin DOMAIN posts
  <2>1. posts' = posts
    BY <1>1, <1>2, <1>5
  <2>2. ~IsPost(id)
    BY <1>5 DEF IsPost
  <2> QED
    BY <1>2, <2>1, <2>2 DEF ProviderOK
<1> QED
  BY <1>4, <1>5

LEMMA PostOfIs ==
  ASSUME ProviderOK, NEW id, IsPost(id)
  PROVE  PostOf(id) \in Post
BY PostsAre DEF IsPost, PostOf

LEMMA UpdateIs ==
  ASSUME ProviderOK, NEW id, NEW m \in Messages, UpdateMessage(id, m)
  PROVE  /\ ProviderOK' /\ UNCHANGED channels
         /\ IsPost(id) /\ id \in Int \X Nat =>
              Effect(id, [PostOf(id) EXCEPT !.message = m]) /\ IsPost(id)'
<1> DEFINE post == [PostOf(id) EXCEPT !.message = m]
<1>1. posts' = [posts EXCEPT ![id[1]][id[2]] = post] /\ UNCHANGED channels
  BY DEF UpdateMessage, PostOf
<1>2. IsPost(id) => post \in Post
  BY PostOfIs DEF Post
<1> HIDE DEF post
<1> QED
  BY <1>1, <1>2, ChangeIs DEF post

LEMMA PinIs ==
  ASSUME ProviderOK, NEW id, NEW pinned \in BOOLEAN, SetPin(id, pinned)
  PROVE  /\ ProviderOK' /\ UNCHANGED channels
         /\ IsPost(id) /\ id \in Int \X Nat =>
              Effect(id, [PostOf(id) EXCEPT !.pinned = pinned]) /\ IsPost(id)'
<1> DEFINE post == [PostOf(id) EXCEPT !.pinned = pinned]
<1>1. posts' = [posts EXCEPT ![id[1]][id[2]] = post] /\ UNCHANGED channels
  BY DEF SetPin, PostOf
<1>2. IsPost(id) => post \in Post
  BY PostOfIs DEF Post
<1> HIDE DEF post
<1> QED
  BY <1>1, <1>2, ChangeIs DEF post

\* A channel has the next id, and nothing in it.
LEMMA ChannelIs ==
  ASSUME ProviderOK, NEW name \in Names, CreatePrivateChannel(name)
  PROVE  /\ ProviderOK' /\ \A post : Effect(NoPost, post)
         /\ DOMAIN channels' = DOMAIN channels \cup {NextChannel} /\ NextChannel \in Nat \ {0}
         /\ \A c \in DOMAIN channels : channels'[c].name = channels[c].name
<1> DEFINE doc == [name |-> name, archived |-> FALSE]
           k == NextChannel
<1>1. channels \in Seq(Channel) /\ posts \in [Rooms \cup DOMAIN channels -> Seq(Post)]
  BY DEF ProviderOK
<1>2. doc \in Channel
  BY DEF Channel
<1>3. channels' = Append(channels, doc) /\ posts' = [c \in DOMAIN posts \cup {k} |->
                                                     IF c = k THEN << >> ELSE posts[c]]
  BY DEF CreatePrivateChannel
<1> HIDE DEF doc
<1>4. /\ k = Len(channels) + 1 /\ k \in Nat \ {0}
      /\ channels' \in Seq(Channel) /\ DOMAIN channels' = DOMAIN channels \cup {k}
      /\ k \notin DOMAIN channels
      /\ \A c \in DOMAIN channels : channels'[c] = channels[c]
  BY <1>1, <1>2, <1>3, AppendProperties DEF NextChannel
<1> HIDE DEF k
<1>5. k \notin DOMAIN posts
  BY <1>1, <1>4, RoomsAssumption
<1>6. /\ DOMAIN posts' = DOMAIN posts \cup {k} /\ posts'[k] = << >>
      /\ \A c \in DOMAIN posts : posts'[c] = posts[c]
  BY <1>3, <1>5
<1>7. << >> \in Seq(Post) /\ DOMAIN << >> = {}
  OBVIOUS
<1>8. posts' \in [Rooms \cup DOMAIN channels' -> Seq(Post)]
  BY <1>1, <1>3, <1>4, <1>6, <1>7
<1>9. ASSUME NEW post
      PROVE  Effect(NoPost, post)
  BY <1>5, <1>6, <1>7, NoPostIs DEF Effect
<1> QED
  BY <1>4, <1>8, <1>9 DEF ProviderOK, k

LEMMA ArchiveIs ==
  ASSUME ProviderOK, NEW c, ArchiveChannel(c)
  PROVE  /\ ProviderOK' /\ UNCHANGED posts /\ DOMAIN channels' = DOMAIN channels
         /\ \A d \in DOMAIN channels : channels'[d].name = channels[d].name
<1> DEFINE doc == [channels[c] EXCEPT !.archived = TRUE]
<1>1. channels \in Seq(Channel)
  BY DEF ProviderOK
<1>2. channels' = [channels EXCEPT ![c] = doc] /\ UNCHANGED posts
  BY DEF ArchiveChannel
<1>3. ASSUME c \in DOMAIN channels
      PROVE  doc \in Channel /\ doc.name = channels[c].name
  <2>1. channels[c] \in Channel
    BY <1>1, <1>3
  <2> QED
    BY <2>1 DEF Channel
<1> HIDE DEF doc
<1>4. /\ channels' \in Seq(Channel) /\ DOMAIN channels' = DOMAIN channels
      /\ \A n \in DOMAIN channels : channels'[n] = IF n = c THEN doc ELSE channels[n]
  BY <1>1, <1>2, <1>3, ExceptIs
<1> QED
  BY <1>2, <1>3, <1>4 DEF ProviderOK

-----------------------------------------------------------------------------
(* Forms and what is typed.                                                *)

LEMMA NeverIs == Never \notin Moments /\ Never \in Int /\ Moments \subseteq Int
BY MomentsAre DEF Never

LEMMA DateAtInt ==
  ASSUME NEW year, NEW date, NEW clock \in Int
  PROVE  DateAt(year, date, clock) \in Int
<1>1. CASE \E d \in Days : Calendar[d] = <<year, date>>
  <2> DEFINE d0 == CHOOSE d \in Days : Calendar[d] = <<year, date>>
  <2>1. d0 \in Days /\ DateAt(year, date, clock) = On(clock, d0)
    BY <1>1 DEF DateAt
  <2> HIDE DEF d0
  <2>2. d0 \in Int /\ DayLen \in Nat \ {0}
    BY <2>1, DaysAre, DatesAssumption
  <2>3. d0 * DayLen \in Int
    BY <2>2, MulNext
  <2> QED
    BY <2>1, <2>3 DEF On
<1>2. CASE ~\E d \in Days : Calendar[d] = <<year, date>>
  BY <1>2 DEF DateAt, Never
<1> QED
  BY <1>1, <1>2

LEMMA EndTypes ==
  ASSUME NEW in \in Input, NEW s \in Int
  PROVE  ParseEndTime(in, s) \in Int
<1>1. in.n \in Int /\ in.clock \in Int
  BY DEF Input
<1>2. CASE in.kind = "delta"
  BY <1>1, <1>2 DEF ParseEndTime, Never
<1>3. CASE in.kind = "clock"
  <2>1. DayOf(s) \in Int /\ DayLen \in Nat \ {0}
    BY TimeParts, DatesAssumption
  <2>2. DayOf(s) * DayLen \in Int
    BY <2>1, MulNext
  <2>3. On(in.clock, DayOf(s)) \in Int
    BY <1>1, <2>2 DEF On
  <2> HIDE DEF On
  <2>4. ParseEndTime(in, s) = IF On(in.clock, DayOf(s)) > s THEN On(in.clock, DayOf(s))
                              ELSE On(in.clock, DayOf(s)) + DayLen
    BY <1>3 DEF ParseEndTime
  <2> QED
    BY <2>1, <2>3, <2>4
<1>4. CASE in.kind = "date"
  <2> DEFINE clock == TimeOrDefault(in.clock, 0)
  <2>1. clock \in Int
    BY <1>1 DEF TimeOrDefault
  <2> HIDE DEF clock
  <2>2. \A y : DateAt(y, in.date, clock) \in Int
    BY <2>1, DateAtInt
  <2>3. ParseAbsolute(in, s, 0) \in Int
    BY <2>2 DEF ParseAbsolute, clock
  <2> QED
    BY <1>4, <2>3 DEF ParseEndTime
<1>5. CASE in.kind \notin {"delta", "clock", "date"}
  BY <1>5 DEF ParseEndTime, Never
<1> QED
  BY <1>2, <1>3, <1>4, <1>5

LEMMA UnknownIs == Unknown \in Input /\ \A c \in Int : Clock(c) \in Input /\ Clock(c) # Unknown
<1>1. Unknown \in Input
  BY DEF Unknown, Input, Omitted
<1>2. ASSUME NEW c \in Int
      PROVE  Clock(c) \in Input /\ Clock(c) # Unknown
  <2>1. Clock(c) \in Input /\ Clock(c).kind = "clock"
    BY DEF Clock, Input, Omitted
  <2>2. Unknown.kind = "unknown"
    BY DEF Unknown
  <2> QED
    BY <2>1, <2>2
<1> QED
  BY <1>1, <1>2

\* What all open forms have in common.
FormTyped(f) ==
  /\ f.of \in {"new", "edit"} /\ f.title \in Titles \cup {""} /\ f.time \in 0..DayLen - 1
  /\ f.ends \in Input /\ f.remind \in {"standard", "custom", "daily"}
  /\ f.of = "new" => f.room \in Origins
  /\ f.of = "edit" => f.event \in DOMAIN events
  /\ f.shown \in Given \cup {<< >>}

LEMMA FormsAre ==
  ASSUME NEW f, FormOK(f), f # NoForm
  PROVE  FormTyped(f)
<1>1. DefaultStartTime \in 0..DayLen - 1
  BY DispatcherAssumption
<1>2. CASE \E t \in Instants, room \in Origins : f = NewFormAt(t, room)
  <2>1. PICK t \in Instants, room \in Origins : f = NewFormAt(t, room)
    BY <1>2
  <2>2. /\ f.of = "new" /\ f.title = "" /\ f.time = DefaultStartTime /\ f.ends = Unknown
        /\ f.remind = "standard" /\ f.room = room /\ f.shown = << >>
    BY <2>1 DEF NewFormAt
  <2> QED
    BY <1>1, <2>2, UnknownIs DEF FormTyped
<1>3. CASE \E e \in DOMAIN events, g \in Shown : f = EditFormOf(e, g)
  <2>1. PICK e \in DOMAIN events, g \in Shown : f = EditFormOf(e, g)
    BY <1>3
  <2>2. g \in Given /\ g.starts \in Int /\ g.ends \in Int /\ g.title \in Titles
    BY NeverIs DEF Shown, Given
  <2>3. ClockOf(g.starts) \in 0..DayLen - 1 /\ ClockOf(g.ends) \in Int
    BY <2>2, TimeParts
  <2>4. (IF g.ends = Never THEN Unknown ELSE Clock(ClockOf(g.ends))) \in Input
    BY <2>3, UnknownIs
  <2>5. /\ f.of = "edit" /\ f.title = g.title /\ f.time = ClockOf(g.starts) /\ f.event = e
        /\ f.ends = (IF g.ends = Never THEN Unknown ELSE Clock(ClockOf(g.ends)))
        /\ f.remind = "custom" /\ f.shown = g
    BY <2>1 DEF EditFormOf
  <2> QED
    BY <2>1, <2>2, <2>3, <2>4, <2>5 DEF FormTyped
<1> QED
  BY <1>2, <1>3 DEF FormOK

\* The form as it is sent.
LEMMA TypedIs ==
  ASSUME NEW f0, FormOK(f0), f0 # NoForm, NEW f \in Typed(f0)
  PROVE  FormTyped(f) /\ f.shown = f0.shown
<1>1. FormTyped(f0)
  BY FormsAre
<1> DEFINE S == IF f0.title = "" THEN {a.title : a \in NewArgs} ELSE {f0.title}
           Filled(t) == [f0 EXCEPT !.title = t]
<1>2. PICK t \in S : f \in {Filled(t), [Filled(t) EXCEPT !.remind = "daily"]}
                           \cup {[Filled(t) EXCEPT !.ends = e] : e \in Ends}
  BY DEF Typed
<1>3. t \in Titles \cup {""}
  BY <1>1, DispatcherAssumption DEF FormTyped
<1>4. Ends \subseteq Input
  BY DispatcherAssumption
<1>5. \/ \E x, room : f0 = NewFormAt(x, room)
      \/ \E e, g : f0 = EditFormOf(e, g)
  BY DEF FormOK
<1>6. CASE f = Filled(t)
  BY <1>1, <1>3, <1>5, <1>6 DEF FormTyped, NewFormAt, EditFormOf
<1>7. CASE f = [Filled(t) EXCEPT !.remind = "daily"]
  BY <1>1, <1>3, <1>5, <1>7 DEF FormTyped, NewFormAt, EditFormOf
<1>8. CASE \E e \in Ends : f = [Filled(t) EXCEPT !.ends = e]
  BY <1>1, <1>3, <1>4, <1>5, <1>8 DEF FormTyped, NewFormAt, EditFormOf
<1> QED
  BY <1>2, <1>6, <1>7, <1>8

LEMMA FormTimes ==
  ASSUME NEW f, FormTyped(f)
  PROVE  /\ FormStart(f) \in Moments \cup {Never} /\ FormEnd(f) \in Int
         /\ f.date[1] # Omitted => FormStart(f) = DateAt(f.date[1], f.date[2], f.time)
<1> DEFINE in == Date(f.date[1], f.date[2], f.time)
<1>0. f.time \in 0..DayLen - 1 /\ f.ends \in Input
  BY DEF FormTyped
<1>1. f.time \in 0..DayLen - 1 /\ f.ends \in Input /\ f.time # Omitted
  BY <1>0 DEF Omitted
<1>2. /\ in.kind = "date" /\ in.clock = f.time /\ in.date = f.date[2] /\ in.year = f.date[1]
  BY DEF Date
<1>3. FormStart(f) = ParseAbsolute(in, now, DefaultStartTime)
  BY <1>2 DEF FormStart, ParseStartTime
<1> HIDE DEF in
<1>4. TimeOrDefault(in.clock, DefaultStartTime) = f.time
  BY <1>1, <1>2 DEF TimeOrDefault
<1>5. \A y : DateAt(y, in.date, f.time) \in Moments \cup {Never}
  BY <1>1, DateAtIs
<1>6. FormStart(f) \in Moments \cup {Never}
  BY <1>3, <1>4, <1>5 DEF ParseAbsolute
<1>7. FormEnd(f) \in Int
  BY <1>1, <1>6, NeverIs, EndTypes DEF FormEnd
<1>8. f.date[1] # Omitted => FormStart(f) = DateAt(f.date[1], f.date[2], f.time)
  BY <1>2, <1>3, <1>4 DEF ParseAbsolute
<1> QED
  BY <1>6, <1>7, <1>8

\* What an event is made of is typed, whether in a command or in a form.
LEMMA CommandTimes ==
  ASSUME now \in Instants, NEW a \in NewArgs \cup EditArgs
  PROVE  /\ a.when \in Input /\ a.ends \in Input /\ a.title \in Titles \cup {""}
         /\ ParseStartTime(a.when, now, DefaultStartTime) \in Moments \cup {Never}
         /\ now \in Int
         /\ \A s \in Int : ParseEndTime(a.ends, s) \in Int
<1>1. a.when \in Input /\ a.ends \in Input /\ a.title \in Titles \cup {""}
  <2>1. \/ a \in [title : Titles \cup {""}, when : Input, ends : Input]
        \/ a \in [title : Titles, when : Input, ends : Input]
    BY DispatcherAssumption
  <2> QED
    BY <2>1
<1>2. now \in Int
  BY DispatcherAssumption, NeverIs
<1> QED
  BY <1>1, <1>2, CalendarAssumption, EndTypes

\* No two times of less than a day apart have the same clock.
LEMMA SameClock ==
  ASSUME NEW a \in Int, NEW b \in Int, NEW s \in Int, s < a, s < b,
         a <= s + DayLen, b <= s + DayLen, ClockOf(a) = ClockOf(b)
  PROVE  a = b
<1> DEFINE p == DayOf(a)
           q == DayOf(b)
           c == ClockOf(a)
<1>1. /\ p \in Int /\ q \in Int /\ c \in Int /\ DayLen \in Nat \ {0}
      /\ a = p * DayLen + c /\ b = q * DayLen + c
  BY TimeParts, DatesAssumption DEF On
<1> HIDE DEF p, q, c
<1>2. /\ p * DayLen \in Int /\ q * DayLen \in Int
      /\ (p + 1) * DayLen = p * DayLen + DayLen /\ (q + 1) * DayLen = q * DayLen + DayLen
  BY <1>1, MulNext
<1>3. p * DayLen < (q + 1) * DayLen /\ q * DayLen < (p + 1) * DayLen
  BY <1>1, <1>2
<1>4. p < q + 1 /\ q < p + 1
  BY <1>1, <1>3, MulLess
<1>5. p = q
  BY <1>1, <1>4
<1> QED
  BY <1>1, <1>5

\* A form that is sent as it was shown.
LEMMA AsShown ==
  ASSUME NEW f, FormOK(f), f # NoForm, f.of = "edit", Accepted(f), now \in Int,
         NEW req, req.change = FormUpdate(f), req.shown = f.shown
  PROVE  SentAsShown(req)
<1>0. \A t, room : f # NewFormAt(t, room)
  <2>1. \A t, room : NewFormAt(t, room).of = "new"
    BY DEF NewFormAt
  <2> QED
    BY <2>1
<1>1. PICK e \in DOMAIN events, g \in Shown : f = EditFormOf(e, g)
  BY <1>0 DEF FormOK
<1>2. /\ g.title \in Titles /\ g.starts \in Moments /\ g.starts \in Int /\ g.ends \in Int
      /\ WhenEnds(g)
  BY NeverIs DEF Shown, Given
<1>3. /\ f.title = g.title /\ f.date = DateField(g.starts) /\ f.time = ClockOf(g.starts)
      /\ f.ends = (IF g.ends = Never THEN Unknown ELSE Clock(ClockOf(g.ends)))
      /\ f.remind = "custom" /\ f.shown = g
  BY <1>1 DEF EditFormOf
<1>4. FormTyped(f)
  BY FormsAre
<1>5. FormStart(f) = g.starts
  <2> DEFINE d == DayOf(g.starts)
             at == DateAt(Calendar[d][1], Calendar[d][2], ClockOf(g.starts))
  <2>1. d \in Days /\ Calendar[d] = <<Calendar[d][1], Calendar[d][2]>> /\ Calendar[d][1] \in Nat
    BY <1>2, MomentsAre, DaysAre
  <2>2. ClockOf(g.starts) \in 0..DayLen - 1
    BY <1>2, TimeParts
  <2>3. f.date = Calendar[d] /\ f.date[1] # Omitted
    BY <1>3, <2>1 DEF DateField, Omitted
  <2>4. FormStart(f) = at
    BY <1>3, <1>4, <2>3, FormTimes
  <2>5. \/ at \in Moments /\ Calendar[DayOf(at)] = Calendar[d] /\ ClockOf(at) = ClockOf(g.starts)
        \/ \A c \in Days : Calendar[c] # Calendar[d]
    BY <2>1, <2>2, DateAtIs
  <2> HIDE DEF at
  <2>6. at \in Moments /\ Calendar[DayOf(at)] = Calendar[d] /\ ClockOf(at) = ClockOf(g.starts)
    BY <2>1, <2>5
  <2>7. at = g.starts
    BY <1>2, <2>6, SameMoment
  <2> QED
    BY <2>4, <2>7
<1>6. (f.ends = Unknown) <=> (g.ends = Never)
  <2>1. ClockOf(g.ends) \in Int
    BY <1>2, TimeParts
  <2> QED
    BY <1>3, <2>1, UnknownIs
<1>7. ASSUME g.ends <= g.starts + DayLen
      PROVE  FormEnd(f) = g.ends
  <2>1. CASE g.ends = Never
    BY <1>6, <2>1 DEF FormEnd
  <2>2. CASE g.ends # Never
    <3> DEFINE c == ClockOf(g.ends)
               in == Clock(c)
               S == {u \in g.starts + 1 .. g.starts + DayLen : ClockOf(u) = c}
               end == ParseEndTime(in, g.starts)
    <3>1. c \in 0..DayLen - 1 /\ DayLen \in Nat \ {0}
      BY <1>2, TimeParts, DatesAssumption
    <3>2. in.kind = "clock" /\ in.clock = c
      BY DEF Clock
    <3>3. FormEnd(f) = end
      BY <1>3, <1>5, <1>6, <2>2 DEF FormEnd
    <3> HIDE DEF in
    <3>4. Earliest(end, S)
      BY <1>2, <3>1, <3>2, NextClock
    <3>5. end \in S /\ end \in Int
      BY <1>2, <3>1, <3>4 DEF Earliest
    <3>6. g.ends > g.starts
      BY <1>2, <2>2 DEF WhenEnds
    <3>7. /\ ClockOf(end) = c /\ ClockOf(g.ends) = c
          /\ g.starts < end /\ end <= g.starts + DayLen
      BY <1>2, <3>1, <3>5
    <3>8. end = g.ends
      BY <1>2, <1>7, <3>1, <3>5, <3>6, <3>7, SameClock
    <3> QED
      BY <3>3, <3>8
  <2> QED
    BY <2>1, <2>2
<1>8. g.title # ""
  BY <1>3 DEF Accepted
<1>9. /\ req.change.title = g.title /\ req.change.starts = g.starts /\ req.change.policy = ""
      /\ req.change.ends = FormEnd(f)
  <2> DEFINE c == FormUpdate(f)
  <2>1. c.title = f.title /\ c.starts = FormStart(f) /\ c.ends = FormEnd(f)
        /\ c.policy = Preset(f.remind)
    BY DEF FormUpdate
  <2>2. Preset(f.remind) = ""
    BY <1>3 DEF Preset
  <2> HIDE DEF c
  <2>3. req.change = c
    BY DEF c
  <2> QED
    BY <1>3, <1>5, <2>1, <2>2, <2>3
<1>10. req.change.clear <=> f.ends = Unknown
  <2> DEFINE c == FormUpdate(f)
  <2>1. c.clear = (f.ends = Unknown)
    BY DEF FormUpdate
  <2> HIDE DEF c
  <2>2. req.change = c
    BY DEF c
  <2> QED
    BY <2>1, <2>2, Zenon
<1> QED
  BY <1>3, <1>6, <1>7, <1>8, <1>9, <1>10 DEF SentAsShown

-----------------------------------------------------------------------------
(* The types: what a request begins with.                                  *)

\* More events do no harm to a request.
LEMMA RequestKept ==
  ASSUME NEW ids, NEW more, ids \subseteq more, NEW req, RequestOK(req, ids)
  PROVE  RequestOK(req, more)
BY DEF RequestOK, AboutEvent

LEMMA MovedTypes ==
  ASSUME RequestsOK, NEW r \in Reqs, Moved(r), DOMAIN events \subseteq DOMAIN events',
         RequestOK(reqs'[r], DOMAIN events')
  PROVE  RequestsOK'
<1>1. reqs \in [Reqs -> Request] /\ reqs' = [reqs EXCEPT ![r] = reqs'[r]] /\ reqs'[r] \in Request
  BY DEF RequestsOK, Moved
<1>2. reqs' \in [Reqs -> Request] /\ \A q \in Reqs \ {r} : reqs'[q] = reqs[q]
  BY <1>1
<1>3. \A q \in Reqs : RequestOK(reqs[q], DOMAIN events)
  BY DEF RequestsOK
<1>4. \A q \in Reqs \ {r} : RequestOK(reqs'[q], DOMAIN events')
  BY <1>2, <1>3, RequestKept
<1> QED
  BY <1>2, <1>4 DEF RequestsOK

\* A goroutine that begins a request.
Begun(r, req) == reqs[r] = Idle /\ Moved(r) /\ reqs'[r] = req

LEMMA BeginIs ==
  ASSUME RequestsOK, NEW r \in Reqs, NEW req \in Request, RequestOK(req, DOMAIN events),
         Begin(r, req), UNCHANGED events
  PROVE  RequestsOK' /\ Begun(r, req)
<1>1. reqs \in [Reqs -> Request] /\ reqs' = [reqs EXCEPT ![r] = req] /\ reqs[r] = Idle
  BY DEF RequestsOK, Begin
<1>2. reqs'[r] = req /\ reqs' = [reqs EXCEPT ![r] = reqs'[r]]
  BY <1>1
<1>3. Moved(r) /\ Begun(r, req)
  BY <1>1, <1>2 DEF Moved, Begun
<1> QED
  BY <1>2, <1>3, MovedTypes

\* A begun creation.
NewRequest(u, room, given, async) ==
  [Idle EXCEPT !.op = "new", !.user = u, !.async = async, !.todo = Creation,
     !.recruit = recruit,
     !.ev = [given |-> given, open |-> TRUE, organizer |-> u, origin |-> room,
             channel |-> None, archived |-> FALSE, refs |-> NoRefs]]

LEMMA NewTypes ==
  ASSUME recruit \in Rooms \cup {None}, NEW u \in Users, NEW room \in Origins,
         NEW given \in Given, NEW async \in BOOLEAN
  PROVE  LET req == NewRequest(u, room, given, async) IN
         /\ req \in Request /\ \A ids : RequestOK(req, ids)
         /\ req.op = "new" /\ CallOf(req) = "insert" /\ req.event = None /\ req.attempt = 1
         /\ req.ev \in Event /\ req.ev.channel = None /\ req.ev.refs = NoRefs /\ req.ev.open
         /\ ~req.failed /\ req.ev.given = given /\ req.todo # << >> /\ req.recruit = recruit
<1> DEFINE req == NewRequest(u, room, given, async)
           ev == [given |-> given, open |-> TRUE, organizer |-> u, origin |-> room,
                  channel |-> None, archived |-> FALSE, refs |-> NoRefs]
<1>1. NoRefs \in [announcement : PostIds, recruit : PostIds, summary : PostIds]
  BY DEF NoRefs, PostIds
<1>2. ev \in Event /\ ev.channel = None /\ ev.refs = NoRefs /\ ev.open /\ ev.given = given
  BY <1>1 DEF Event, None
<1>3. IsCourse("new", Creation) /\ Head(Creation) = "insert"
  BY CreationIs
<1>4. Idle \in Request
  BY IdleIs
<1> HIDE DEF ev
<1>5. /\ req.op = "new" /\ req.todo = Creation /\ req.ev = ev /\ req.event = Idle.event
      /\ req.attempt = Idle.attempt /\ req.failed = Idle.failed /\ req.shown = Idle.shown
      /\ req.change = Idle.change /\ req.recruit = recruit /\ req.user = u /\ req.async = async
  BY <1>4 DEF NewRequest, Request, ev
<1>6. req \in Request
  BY <1>2, <1>3, <1>4 DEF NewRequest, Request, ev, IsCourse, Ops
<1> HIDE DEF req
<1>7. Idle.event = None /\ Idle.attempt = 1 /\ Idle.failed = FALSE /\ Idle.shown = << >>
  BY DEF Idle
<1>8. CallOf(req) = "insert" /\ req.todo # << >>
  BY <1>3, <1>5 DEF CallOf, IsCourse
<1>9. \A ids : AboutEvent(req, ids)
  BY <1>5, <1>7, <1>8 DEF AboutEvent
<1>10. SentAsShown(req)
  BY <1>5, <1>7 DEF SentAsShown
<1>11. \A ids : RequestOK(req, ids)
  BY <1>2, <1>3, <1>5, <1>8, <1>9, <1>10 DEF RequestOK, IsCourse, Made
<1> QED
  BY <1>2, <1>5, <1>6, <1>7, <1>8, <1>11 DEF req

LEMMA CreateTypes ==
  ASSUME TypeInv, NEW r \in Reqs, NEW u \in Users, NEW room \in Origins,
         NEW given \in Given, NEW async \in BOOLEAN, Create(r, u, room, given, async)
  PROVE  /\ RequestsOK' /\ Begun(r, NewRequest(u, room, given, async))
         /\ UNCHANGED <<providerVars, now, recruit, events, archives, faults>>
         /\ crossed' = crossed
<1> DEFINE req == NewRequest(u, room, given, async)
<1>1. /\ Begin(r, req) /\ UNCHANGED <<providerVars, now, recruit, events, archives, faults>>
  BY DEF Create, Call, NewRequest
<1>2. /\ req \in Request /\ RequestOK(req, DOMAIN events) /\ req.event = None
  BY NewTypes DEF TypeInv
<1> HIDE DEF req
<1>3. RequestsOK' /\ Begun(r, req)
  BY <1>1, <1>2, BeginIs DEF TypeInv
<1>4. crossed' = crossed
  BY <1>1, <1>2 DEF Begin
<1> QED
  BY <1>1, <1>3, <1>4 DEF req

LEMMA EventsAre ==
  ASSUME EventsOK
  PROVE  /\ DOMAIN events = 1..Len(events) /\ Len(events) \in Nat
         /\ DOMAIN events \in SUBSET Nat /\ None \notin DOMAIN events
         /\ \A e \in DOMAIN events : events[e] \in Event /\ WhenEnds(events[e].given)
BY DEF EventsOK, None

\* The requests about an event that is there.
EditRequest(u, e, ev, change, shown) ==
  [Idle EXCEPT !.op = "edit", !.user = u, !.todo = Edit, !.event = e, !.ev = ev,
     !.change = change, !.shown = shown]

EndRequest(u, e, ev) ==
  [Idle EXCEPT !.op = "end", !.user = u, !.todo = Closing, !.event = e, !.ev = ev]

ArchiveRequest(e, ev) ==
  [Idle EXCEPT !.op = "archive", !.todo = Archiving, !.event = e, !.ev = ev]

\* An edit that asks for change in a form that showed shown.
KeepsShown(change, shown) ==
  \A req : req.change = change /\ req.shown = shown => SentAsShown(req)

LEMMA EditRequestTypes ==
  ASSUME EventsOK, NEW u \in Users, NEW e \in DOMAIN events, NEW change \in Change,
         NEW shown \in Given \cup {<< >>}, KeepsShown(change, shown)
  PROVE  LET req == EditRequest(u, e, events[e], change, shown) IN
         /\ req \in Request /\ RequestOK(req, DOMAIN events)
         /\ req.op = "edit" /\ CallOf(req) = "edit" /\ req.event = e /\ req.todo # << >>
         /\ req.ev = events[e]
<1> DEFINE ids == DOMAIN events
           ev == events[e]
           req == EditRequest(u, e, ev, change, shown)
<1>0. ids \in SUBSET Nat /\ ev \in Event /\ e \in ids
  BY EventsAre
<1> HIDE DEF ids, ev
<1>1. IsCourse("edit", Edit) /\ Head(Edit) = "edit"
  BY EditIs
<1>2. Idle \in Request
  BY IdleIs
<1>3. /\ req.op = "edit" /\ req.todo = Edit /\ req.event = e /\ req.ev = ev
      /\ req.change = change /\ req.shown = shown
  BY <1>2 DEF EditRequest, Request
<1>4. req \in Request
  BY <1>0, <1>1, <1>2 DEF EditRequest, Request, IsCourse, Ops
<1> HIDE DEF req
<1>5. CallOf(req) = "edit" /\ req.todo # << >>
  BY <1>1, <1>3 DEF CallOf, IsCourse
<1>6. AboutEvent(req, ids) /\ SentAsShown(req)
  BY <1>0, <1>3, <1>5 DEF AboutEvent, KeepsShown
<1>7. RequestOK(req, ids)
  BY <1>0, <1>1, <1>3, <1>5, <1>6 DEF RequestOK, IsCourse, Made
<1> QED
  BY <1>3, <1>4, <1>5, <1>7 DEF req, ids, ev

LEMMA EndRequestTypes ==
  ASSUME NEW ids \in SUBSET Nat, NEW u \in Users, NEW e \in ids,
         NEW ev \in Event, WhenEnds(ev.given)
  PROVE  LET req == EndRequest(u, e, ev) IN
         /\ req \in Request /\ RequestOK(req, ids)
         /\ req.op = "end" /\ CallOf(req) = "close" /\ req.event = e /\ req.todo # << >>
         /\ req.ev = ev
<1> DEFINE req == EndRequest(u, e, ev)
<1>1. IsCourse("end", Closing) /\ Head(Closing) = "close"
  BY ClosingIs
<1>2. Idle \in Request /\ Idle.shown = << >>
  BY IdleIs DEF Idle
<1>3. /\ req.op = "end" /\ req.todo = Closing /\ req.event = e /\ req.shown = Idle.shown
      /\ req.ev = ev
  BY <1>2 DEF EndRequest, Request
<1>4. req \in Request
  BY <1>1, <1>2 DEF EndRequest, Request, IsCourse, Ops
<1> HIDE DEF req
<1>5. CallOf(req) = "close" /\ req.todo # << >>
  BY <1>1, <1>3 DEF CallOf, IsCourse
<1>6. AboutEvent(req, ids) /\ SentAsShown(req)
  BY <1>2, <1>3, <1>5 DEF AboutEvent, SentAsShown
<1>7. RequestOK(req, ids)
  BY <1>1, <1>3, <1>5, <1>6 DEF RequestOK, IsCourse, Made
<1> QED
  BY <1>3, <1>4, <1>5, <1>7 DEF req

LEMMA ArchiveRequestTypes ==
  ASSUME NEW ids \in SUBSET Nat, NEW e \in ids, NEW ev \in Event
  PROVE  LET req == ArchiveRequest(e, ev) IN
         /\ req \in Request /\ RequestOK(req, ids)
         /\ req.op = "archive" /\ CallOf(req) = "archive" /\ req.event = e /\ req.todo # << >>
         /\ req.ev = ev
<1> DEFINE req == ArchiveRequest(e, ev)
<1>1. IsCourse("archive", Archiving) /\ Head(Archiving) = "archive"
  BY ArchivingIs
<1>2. Idle \in Request /\ Idle.shown = << >>
  BY IdleIs DEF Idle
<1>3. /\ req.op = "archive" /\ req.todo = Archiving /\ req.event = e /\ req.shown = Idle.shown
      /\ req.ev = ev
  BY <1>2 DEF ArchiveRequest, Request
<1>4. req \in Request
  BY <1>1, <1>2 DEF ArchiveRequest, Request, IsCourse, Ops
<1> HIDE DEF req
<1>5. CallOf(req) = "archive" /\ req.todo # << >>
  BY <1>1, <1>3 DEF CallOf, IsCourse
<1>6. AboutEvent(req, ids) /\ SentAsShown(req)
  BY <1>2, <1>3, <1>5 DEF AboutEvent, SentAsShown
<1>7. RequestOK(req, ids)
  BY <1>1, <1>3, <1>5, <1>6 DEF RequestOK, IsCourse, Made
<1> QED
  BY <1>3, <1>4, <1>5, <1>7 DEF req

-----------------------------------------------------------------------------
(* The types: commands, forms, and the jobs of the worker.                 *)

\* r takes up a request, and nothing else changes that a request is about.
Starts(r) ==
  /\ reqs[r] = Idle /\ Moved(r)
  /\ UNCHANGED <<providerVars, events, faults>>
  /\ LET req == reqs'[r] IN
     /\ crossed' = crossed \cup (IF req.event # None /\ Busy(req.event) THEN {req.event} ELSE {})
     /\ \/ /\ req.op = "new" /\ CallOf(req) = "insert" /\ req.event = None /\ req.attempt = 1
           /\ req.ev.channel = None /\ req.ev.refs = NoRefs /\ req.ev.open /\ ~req.failed
        \/ /\ req.event \in DOMAIN events /\ req.ev = events[req.event]
           /\ \/ req.op = "edit" /\ CallOf(req) = "edit"
              \/ req.op = "end" /\ CallOf(req) = "close"
              \/ req.op = "archive" /\ CallOf(req) = "archive"

LEMMA CreateStarts ==
  ASSUME TypeInv, NEW r \in Reqs, NEW u \in Users, NEW room \in Origins,
         NEW given \in Given, NEW async \in BOOLEAN, Create(r, u, room, given, async)
  PROVE  Starts(r) /\ RequestsOK' /\ UNCHANGED <<now, recruit, archives>>
<1> DEFINE req == NewRequest(u, room, given, async)
<1>1. /\ RequestsOK' /\ Begun(r, req) /\ crossed' = crossed
      /\ UNCHANGED <<providerVars, now, recruit, events, archives, faults>>
  BY CreateTypes
<1>2. /\ req.op = "new" /\ CallOf(req) = "insert" /\ req.event = None /\ req.attempt = 1
      /\ req.ev.channel = None /\ req.ev.refs = NoRefs /\ req.ev.open /\ ~req.failed
  BY NewTypes DEF TypeInv
<1> HIDE DEF req
<1> QED
  BY <1>1, <1>2 DEF Starts, Begun

LEMMA CallStarts ==
  ASSUME TypeInv, NEW r \in Reqs, NEW req \in Request, RequestOK(req, DOMAIN events),
         Call(r, req), req.event \in DOMAIN events, req.ev = events[req.event],
         \/ req.op = "edit" /\ CallOf(req) = "edit"
         \/ req.op = "end" /\ CallOf(req) = "close"
  PROVE  Starts(r) /\ RequestsOK' /\ UNCHANGED <<now, recruit, archives>>
<1>1. Begin(r, req) /\ UNCHANGED <<providerVars, now, recruit, events, archives, faults>>
  BY DEF Call
<1>2. RequestsOK' /\ Begun(r, req)
  BY <1>1, BeginIs DEF TypeInv
<1>3. crossed' = crossed \cup (IF req.event # None /\ Busy(req.event) THEN {req.event} ELSE {})
  BY <1>1 DEF Begin
<1> QED
  BY <1>1, <1>2, <1>3 DEF Starts, Begun

\* Where a request begins or goes on, the types of the rest.
LEMMA RestTypes ==
  ASSUME TypeInv, NEW r \in Reqs, Starts(r), RequestsOK', UNCHANGED <<now, recruit, archives>>,
         FormsOK', called' \in Nat
  PROVE  TypeInv'
<1>1. EventsOK' /\ ProviderOK' /\ DOMAIN events' = DOMAIN events
  BY DEF TypeInv, Starts, EventsOK, ProviderOK, providerVars
<1>2. crossed' \in SUBSET DOMAIN events'
  BY <1>1, EventsAre DEF TypeInv, Starts
<1> QED
  BY <1>1, <1>2 DEF TypeInv, Starts

LEMMA FormsKept ==
  ASSUME FormsOK, UNCHANGED forms, DOMAIN events \subseteq DOMAIN events'
  PROVE  FormsOK'
BY DEF FormsOK, FormOK

LEMMA CalledIs ==
  ASSUME called \in Nat, Command \/ Creating
  PROVE  called' \in Nat
BY DEF Command, Creating

LEMMA NewCommandTypes ==
  ASSUME TypeInv, NEW r \in Reqs, NEW u \in Users, NEW room \in Origins, NEW a \in NewArgs,
         NewCommand(r, u, room, a.title, a.when, a.ends)
  PROVE  TypeInv' /\ Starts(r)
<1> DEFINE starts == ParseStartTime(a.when, now, DefaultStartTime)
           end == IF a.ends = Unknown THEN Never ELSE ParseEndTime(a.ends, starts)
           given == [title |-> a.title, starts |-> starts, ends |-> end, policy |-> "standard"]
<1>1. starts # Never /\ Create(r, u, room, given, FALSE) /\ Creating /\ UNCHANGED forms
  BY DEF NewCommand
<1>2. starts \in Moments \cup {Never} /\ \A s \in Int : ParseEndTime(a.ends, s) \in Int
  BY CommandTimes DEF TypeInv
<1>3. a.title \in Titles
  BY DispatcherAssumption
<1>4. starts \in Moments /\ starts \in Int
  BY <1>1, <1>2, NeverIs
<1>5. end \in Int
  BY <1>2, <1>4, NeverIs
<1> HIDE DEF starts, end
<1>6. given \in Given
  BY <1>3, <1>4, <1>5 DEF Given, Policies
<1> HIDE DEF given
<1>7. Starts(r) /\ RequestsOK' /\ UNCHANGED <<now, recruit, archives>>
  BY <1>1, <1>6, CreateStarts
<1>8. FormsOK' /\ called' \in Nat
  BY <1>1, <1>7, FormsKept, CalledIs DEF TypeInv, Starts
<1> QED
  BY <1>7, <1>8, RestTypes

LEMMA UpdateTypes ==
  ASSUME TypeInv, NEW r \in Reqs, NEW u \in Users, NEW e \in DOMAIN events,
         NEW change \in Change, NEW shown \in Given \cup {<< >>},
         KeepsShown(change, shown),
         Update(r, u, e, change, shown)
  PROVE  Starts(r) /\ RequestsOK' /\ UNCHANGED <<now, recruit, archives>>
<1> DEFINE req == EditRequest(u, e, events[e], change, shown)
<1>1. Call(r, req)
  BY DEF Update, EditRequest
<1>2. /\ req \in Request /\ RequestOK(req, DOMAIN events) /\ req.event = e
      /\ req.op = "edit" /\ CallOf(req) = "edit" /\ req.ev = events[e]
  BY EditRequestTypes DEF TypeInv
<1> HIDE DEF req
<1> QED
  BY <1>1, <1>2, CallStarts

LEMMA NoChangeIs ==
  ASSUME NEW title \in Titles \cup {""}, NEW starts \in Moments \cup {Never}, NEW ends \in Int
  PROVE  [NoChange EXCEPT !.title = title, !.starts = starts, !.ends = ends] \in Change
BY DEF NoChange, Change

LEMMA EditCommandTypes ==
  ASSUME TypeInv, NEW r \in Reqs, NEW u \in Users, NEW e \in DOMAIN events, NEW a \in EditArgs,
         EditCommand(r, u, e, a.title, a.when, a.ends)
  PROVE  TypeInv' /\ Starts(r)
<1> DEFINE starts == ParseStartTime(a.when, now, DefaultStartTime)
           base == IF a.when = Unknown THEN now ELSE starts
           end == ParseEndTime(a.ends, base)
           s == IF a.when = Unknown THEN Never ELSE starts
           t == IF a.ends = Unknown THEN Never ELSE end
           change == [NoChange EXCEPT !.title = a.title, !.starts = s, !.ends = t]
<1>1. Update(r, u, e, change, << >>) /\ Command /\ UNCHANGED forms
  BY DEF EditCommand
<1>2. /\ starts \in Moments \cup {Never} /\ now \in Int /\ a.title \in Titles \cup {""}
      /\ \A x \in Int : ParseEndTime(a.ends, x) \in Int
  BY CommandTimes DEF TypeInv
<1>3. base \in Int
  BY <1>2, NeverIs
<1>4. s \in Moments \cup {Never} /\ t \in Int
  BY <1>2, <1>3, NeverIs
<1> HIDE DEF s, t
<1>5. change \in Change
  BY <1>2, <1>4, NoChangeIs
<1> HIDE DEF change
<1>6. KeepsShown(change, << >>)
  BY DEF SentAsShown, KeepsShown
<1>7. Starts(r) /\ RequestsOK' /\ UNCHANGED <<now, recruit, archives>>
  BY <1>1, <1>5, <1>6, UpdateTypes
<1>8. FormsOK' /\ called' \in Nat
  BY <1>1, <1>7, FormsKept, CalledIs DEF TypeInv, Starts
<1> QED
  BY <1>7, <1>8, RestTypes

LEMMA RemindCommandTypes ==
  ASSUME TypeInv, NEW r \in Reqs, NEW u \in Users, NEW e \in DOMAIN events, NEW p \in Policies,
         RemindCommand(r, u, e, p)
  PROVE  TypeInv' /\ Starts(r)
<1> DEFINE change == [NoChange EXCEPT !.policy = p]
<1>1. Update(r, u, e, change, << >>) /\ Command /\ UNCHANGED forms
  BY DEF RemindCommand
<1>2. change \in Change
  BY NeverIs DEF NoChange, Change
<1> HIDE DEF change
<1>3. KeepsShown(change, << >>)
  BY DEF SentAsShown, KeepsShown
<1>4. Starts(r) /\ RequestsOK' /\ UNCHANGED <<now, recruit, archives>>
  BY <1>1, <1>2, <1>3, UpdateTypes
<1>5. FormsOK' /\ called' \in Nat
  BY <1>1, <1>4, FormsKept, CalledIs DEF TypeInv, Starts
<1> QED
  BY <1>4, <1>5, RestTypes

LEMMA EndCommandTypes ==
  ASSUME TypeInv, NEW r \in Reqs, NEW u \in Users, NEW e \in DOMAIN events, EndCommand(r, u, e)
  PROVE  TypeInv' /\ Starts(r)
<1> DEFINE req == EndRequest(u, e, events[e])
<1>1. Call(r, req) /\ Command /\ UNCHANGED forms
  BY DEF EndCommand, EndRequest
<1>2. DOMAIN events \in SUBSET Nat /\ events[e] \in Event /\ WhenEnds(events[e].given)
  BY EventsAre DEF TypeInv
<1>3. /\ req \in Request /\ RequestOK(req, DOMAIN events) /\ req.event = e
      /\ req.op = "end" /\ CallOf(req) = "close" /\ req.ev = events[e]
  BY <1>2, EndRequestTypes
<1> HIDE DEF req
<1>4. Starts(r) /\ RequestsOK' /\ UNCHANGED <<now, recruit, archives>>
  BY <1>1, <1>3, CallStarts
<1>5. FormsOK' /\ called' \in Nat
  BY <1>1, <1>4, FormsKept, CalledIs DEF TypeInv, Starts
<1> QED
  BY <1>4, <1>5, RestTypes

LEMMA StartArchivingTypes ==
  ASSUME TypeInv, NEW r \in Reqs, NEW e \in archives, StartArchiving(r, e)
  PROVE  TypeInv' /\ Starts(r)
<1> DEFINE req == ArchiveRequest(e, events[e])
<1>1. /\ Begin(r, req)
      /\ UNCHANGED <<providerVars, now, recruit, events, archives, forms, called, faults>>
  BY DEF StartArchiving, ArchiveRequest
<1>2. DOMAIN events \in SUBSET Nat /\ e \in DOMAIN events /\ events[e] \in Event
  BY EventsAre DEF TypeInv
<1>3. /\ req \in Request /\ RequestOK(req, DOMAIN events) /\ req.event = e
      /\ req.op = "archive" /\ CallOf(req) = "archive" /\ req.ev = events[e]
  BY <1>2, ArchiveRequestTypes
<1> HIDE DEF req
<1>4. RequestsOK' /\ Begun(r, req)
  BY <1>1, <1>3, BeginIs DEF TypeInv
<1>5. crossed' = crossed \cup (IF req.event # None /\ Busy(req.event) THEN {req.event} ELSE {})
  BY <1>1 DEF Begin
<1>6. Starts(r)
  BY <1>1, <1>2, <1>3, <1>4, <1>5 DEF Starts, Begun
<1>7. FormsOK' /\ called' \in Nat
  BY <1>1, FormsKept DEF TypeInv
<1> QED
  BY <1>1, <1>4, <1>6, <1>7, RestTypes

\* A user closes the form by sending it.
LEMMA CloseFormTypes ==
  ASSUME FormsOK, UNCHANGED events, NEW u \in Users, forms' = [forms EXCEPT ![u] = NoForm]
  PROVE  FormsOK'
BY DEF FormsOK, FormOK

LEMMA SubmitTypes ==
  ASSUME TypeInv, NEW r \in Reqs, NEW u \in Users, Submissions(r, u)
  PROVE  TypeInv' /\ Starts(r)
<1>1. PICK f \in Typed(forms[u]) : SubmitNewEvent(r, u, f) \/ SubmitEditEvent(r, u, f)
  BY DEF Submissions
<1>2. forms[u] # NoForm /\ FormOK(forms[u])
  BY DEF Submissions, TypeInv, FormsOK
<1>3. FormTyped(f) /\ f.shown = forms[u].shown
  BY <1>2, TypedIs
<1>4. /\ FormStart(f) \in Moments \cup {Never} /\ FormEnd(f) \in Int /\ now \in Int
      /\ FormStart(f) \in Int
  BY <1>3, FormTimes, NeverIs, DispatcherAssumption DEF TypeInv
<1>5. CASE SubmitNewEvent(r, u, f)
  <2> DEFINE policy == IF f.remind = "custom" THEN "standard" ELSE f.remind
             given == [title |-> f.title, starts |-> FormStart(f), ends |-> FormEnd(f),
                       policy |-> policy]
  <2>1. f.of = "new" /\ Accepted(f) /\ Create(r, u, f.room, given, TRUE) /\ CloseForm(u)
    BY <1>5 DEF SubmitNewEvent
  <2>2. FormStart(f) > now /\ f.title # ""
    BY <2>1 DEF Accepted
  <2>3. FormStart(f) # Never
    <3>1. now \in Moments
      BY DispatcherAssumption DEF TypeInv
    <3>2. now \in Nat
      BY <3>1, MomentsAre
    <3>3. ~(Never > now)
      BY <3>2 DEF Never
    <3> QED
      BY <2>2, <3>3
  <2>4. policy \in Policies /\ f.title \in Titles /\ f.room \in Origins
    BY <1>3, <2>1, <2>2 DEF FormTyped, Policies
  <2> HIDE DEF policy
  <2>5. given \in Given
    BY <1>4, <2>3, <2>4 DEF Given
  <2> HIDE DEF given
  <2>6. Starts(r) /\ RequestsOK' /\ UNCHANGED <<now, recruit, archives>>
    BY <2>1, <2>4, <2>5, CreateStarts
  <2>7. FormsOK' /\ called' \in Nat
    BY <2>1, <2>6, CloseFormTypes DEF CloseForm, TypeInv, Starts
  <2> QED
    BY <2>6, <2>7, RestTypes
<1>6. CASE SubmitEditEvent(r, u, f)
  <2> DEFINE change == FormUpdate(f)
             shown == IF f = forms[u] THEN f.shown ELSE << >>
  <2>1. f.of = "edit" /\ Accepted(f) /\ Update(r, u, f.event, change, shown) /\ CloseForm(u)
    BY <1>6 DEF SubmitEditEvent
  <2>2. f.event \in DOMAIN events /\ shown \in Given \cup {<< >>}
    BY <1>3, <2>1 DEF FormTyped
  <2>3. Preset(f.remind) \in Policies \cup {""} /\ f.title \in Titles \cup {""}
    BY <1>3 DEF FormTyped, Preset, Policies
  <2>4. change \in Change
    BY <1>4, <2>3 DEF FormUpdate, Change
  <2>5. KeepsShown(change, shown)
    <3>1. CASE shown = << >>
      BY <3>1 DEF SentAsShown, KeepsShown
    <3>2. CASE shown # << >>
      <4>1. f = forms[u] /\ shown = f.shown
        BY <3>2
      <4> HIDE DEF change, shown
      <4> SUFFICES ASSUME NEW req, req.change = FormUpdate(f), req.shown = f.shown
                   PROVE  SentAsShown(req)
        BY <4>1 DEF KeepsShown, change
      <4> QED
        BY <1>2, <1>4, <2>1, <4>1, AsShown
    <3> QED
      BY <3>1, <3>2
  <2> HIDE DEF change, shown
  <2>6. Starts(r) /\ RequestsOK' /\ UNCHANGED <<now, recruit, archives>>
    BY <2>1, <2>2, <2>4, <2>5, UpdateTypes
  <2>7. FormsOK' /\ called' \in Nat
    BY <2>1, <2>6, CloseFormTypes DEF CloseForm, TypeInv, Starts
  <2> QED
    BY <2>6, <2>7, RestTypes
<1> QED
  BY <1>1, <1>5, <1>6

\* The steps that are not about a request.
Unmoved == UNCHANGED <<providerVars, events, reqs, crossed, faults>>

LEMMA UnmovedTypes ==
  ASSUME TypeInv, Unmoved, now' \in Instants, recruit' \in Rooms \cup {None}, FormsOK',
         archives' = archives, called' \in Nat
  PROVE  TypeInv'
<1>1. EventsOK' /\ ProviderOK' /\ RequestsOK'
  BY DEF TypeInv, Unmoved, EventsOK, ProviderOK, providerVars, RequestsOK
<1> QED
  BY <1>1 DEF TypeInv, Unmoved

LEMMA OpeningTypes ==
  ASSUME TypeInv, NEW u \in Users, Opening(u)
  PROVE  TypeInv' /\ Unmoved
<1>1. PICK form :
        /\ OpenForm(u, form)
        /\ \/ \E room \in Origins : form = NewEventForm(room)
           \/ \E e \in DOMAIN events : form = EditEventForm(e)
  BY DEF Opening
<1>2. FormOK(form)
  <2>1. CASE \E room \in Origins : form = NewEventForm(room)
    <3>1. \A room : NewEventForm(room) = NewFormAt(now, room)
      BY DEF NewEventForm, NewFormAt
    <3> QED
      BY <2>1, <3>1 DEF FormOK, TypeInv
  <2>2. CASE \E e \in DOMAIN events : form = EditEventForm(e)
    <3>1. PICK e \in DOMAIN events : form = EditEventForm(e)
      BY <2>2
    <3>2. EditEventForm(e) = EditFormOf(e, events[e].given)
      BY DEF EditEventForm, EditFormOf
    <3>3. events[e] \in Event /\ WhenEnds(events[e].given)
      BY EventsAre DEF TypeInv
    <3>4. events[e].given \in Shown
      BY <3>3 DEF Shown, Event
    <3> QED
      BY <3>1, <3>2, <3>4 DEF FormOK
  <2> QED
    BY <1>1, <2>1, <2>2
<1>3. /\ forms' = [forms EXCEPT ![u] = form] /\ (Creating \/ Command)
      /\ UNCHANGED <<providerVars, now, recruit, events, archives, reqs, crossed, faults>>
  BY <1>1 DEF OpenForm
<1>4. \A f : FormOK(f) => FormOK(f)'
  BY <1>3 DEF FormOK
<1>5. FormsOK'
  BY <1>2, <1>3, <1>4 DEF FormsOK, TypeInv, FormOK
<1>6. called' \in Nat
  BY <1>3, CalledIs DEF TypeInv
<1>7. Unmoved
  BY <1>3 DEF Unmoved
<1> QED
  BY <1>3, <1>5, <1>6, <1>7, UnmovedTypes DEF TypeInv

LEMMA RecruitTypes ==
  ASSUME TypeInv, NEW room \in Rooms \cup {None}, RecruitCommand(room)
  PROVE  TypeInv' /\ Unmoved
<1>1. /\ Command /\ recruit' = room
      /\ UNCHANGED <<providerVars, now, events, archives, forms, reqs, crossed, faults>>
  BY DEF RecruitCommand
<1>2. FormsOK' /\ called' \in Nat /\ Unmoved
  BY <1>1, FormsKept, CalledIs DEF TypeInv, Unmoved
<1> QED
  BY <1>1, <1>2, UnmovedTypes DEF TypeInv

LEMMA TickTypes ==
  ASSUME TypeInv, Tick
  PROVE  TypeInv' /\ Unmoved
<1>1. /\ now' \in Instants
      /\ UNCHANGED <<providerVars, recruit, events, archives, forms, reqs, crossed, called, faults>>
  BY DEF Tick
<1>2. FormsOK' /\ Unmoved
  BY <1>1, FormsKept DEF TypeInv, Unmoved
<1> QED
  BY <1>1, <1>2, UnmovedTypes DEF TypeInv

-----------------------------------------------------------------------------
(* The types: the calls of a request.                                      *)

LEMMA NextIs ==
  ASSUME NEW op \in Ops, NEW call \in CallsOf(op), NEW next \in NextCalls(op, call)
  PROVE  /\ next \notin {"insert", "edit", "close", "cancel", "archive"}
         /\ next \in Made => call \in Made \cup {"insert"}
         /\ next = "notify" => call = "cancel"
         /\ call = "notify" => next = "none"
BY DEF Ops, CallsOf, NextCalls, Made, Redraws

LEMMA AdvancedOK ==
  ASSUME RequestsOK, NEW r \in Reqs, NEW call, At(r, call), NEW ev \in Event, Advanced(r, ev),
         call # "insert", call \in Made => ev.given = reqs[r].ev.given,
         DOMAIN events' = DOMAIN events
  PROVE  RequestOK(reqs'[r], DOMAIN events') /\ RequestsOK'
<1> DEFINE req == reqs'[r]
           ids == DOMAIN events
<1>1. /\ call = CallOf(reqs[r]) /\ call \in CallsOf(reqs[r].op) /\ reqs[r].op \in Ops
      /\ RequestOK(reqs[r], ids) /\ reqs[r].op # "none" /\ call # "none"
  BY AtIs
<1>2. /\ Moved(r) /\ CallOf(req) \in NextCalls(reqs[r].op, call) /\ InOrder(req.op, req.todo)
      /\ \/ req = Idle
         \/ /\ SameRequest(req, reqs[r]) /\ req.ev = ev /\ req.todo # << >>
            /\ CallOf(req) # "none"
  BY <1>1 DEF Advanced
<1> HIDE DEF req, ids
<1>3. ASSUME req = Idle
      PROVE  RequestOK(req, ids)
  BY <1>3, IdleIs
<1>4. ASSUME req # Idle
      PROVE  RequestOK(req, ids)
  <2>1. /\ SameRequest(req, reqs[r]) /\ req.ev = ev /\ req.todo # << >> /\ CallOf(req) # "none"
    BY <1>2, <1>4
  <2>2. /\ CallOf(req) \notin {"insert", "cancel", "close"}
        /\ CallOf(req) \in Made => call \in Made
        /\ call # "notify"
    BY <1>1, <1>2, <2>1, NextIs
  <2>3. AboutEvent(req, ids)
    BY <1>1, <2>1, <2>2 DEF AboutEvent, SameRequest, RequestOK
  <2>4. CallOf(req) \in Made \cup {"cancel", "close"} => WhenEnds(req.ev.given)
    BY <1>1, <2>1, <2>2 DEF RequestOK
  <2>5. SentAsShown(req)
    BY <1>1, <2>1 DEF SentAsShown, SameRequest, RequestOK
  <2> QED
    BY <1>2, <2>1, <2>3, <2>4, <2>5 DEF RequestOK
<1>5. RequestOK(req, ids)
  BY <1>3, <1>4
<1>6. RequestOK(reqs'[r], DOMAIN events')
  BY <1>5 DEF req, ids
<1> QED
  BY <1>2, <1>6, MovedTypes

LEMMA EndedOK ==
  ASSUME RequestsOK, NEW r \in Reqs, Ended(r), DOMAIN events' = DOMAIN events
  PROVE  RequestOK(reqs'[r], DOMAIN events') /\ RequestsOK'
BY IdleIs, MovedTypes DEF Ended

LEMMA TurnedOK ==
  ASSUME RequestsOK, NEW r \in Reqs, NEW from, At(r, from), NEW to,
         (to = "cancel" /\ from \in Made) \/ (to = "notify" /\ from \in {"insert", "plan"}),
         Turned(r, to, TRUE) \/ Turned(r, to, FALSE), DOMAIN events' = DOMAIN events,
         reqs[r].ev \in Event
  PROVE  RequestOK(reqs'[r], DOMAIN events') /\ RequestsOK'
<1> DEFINE req == reqs'[r]
           ids == DOMAIN events
<1>1. /\ from = CallOf(reqs[r]) /\ RequestOK(reqs[r], ids) /\ reqs[r].op # "none"
  BY AtIs
<1>2. /\ Moved(r) /\ CallOf(req) = to /\ InOrder(req.op, req.todo)
      /\ SameRequest(req, reqs[r]) /\ req.ev = reqs[r].ev /\ req.todo # << >>
  BY DEF Turned
<1> HIDE DEF req, ids
<1>3. AboutEvent(req, ids)
  <2>1. CASE from = "insert"
    BY <1>1, <1>2, <2>1 DEF AboutEvent, SameRequest, RequestOK, Made
  <2>2. CASE from \in Made
    <3>1. from \notin {"insert", "notify"}
      BY <2>2 DEF Made
    <3> QED
      BY <1>1, <1>2, <3>1 DEF AboutEvent, SameRequest, RequestOK
  <2> QED
    BY <2>1, <2>2 DEF Made
<1>4. CallOf(req) \in Made \cup {"cancel", "close"} => WhenEnds(req.ev.given)
  BY <1>1, <1>2 DEF RequestOK, Made
<1>5. SentAsShown(req)
  BY <1>1, <1>2 DEF SentAsShown, SameRequest, RequestOK
<1>6. RequestOK(req, ids)
  BY <1>2, <1>3, <1>4, <1>5 DEF RequestOK
<1>7. RequestOK(reqs'[r], DOMAIN events')
  BY <1>6 DEF req, ids
<1> QED
  BY <1>2, <1>7, MovedTypes

LEMMA StepTypes ==
  ASSUME TypeInv, Quiet, RequestsOK', EventsOK', ProviderOK', DOMAIN events \subseteq DOMAIN events',
         archives' \in SUBSET DOMAIN events', faults' \in Nat
  PROVE  TypeInv'
<1>1. FormsOK'
  BY FormsKept DEF TypeInv, Quiet
<1> QED
  BY <1>1 DEF TypeInv, Quiet

\* What a call about an event that is there finds.
LEMMA CallIs ==
  ASSUME TypeInv, NEW r \in Reqs, NEW call, At(r, call),
         call \notin {"insert", "notify"}
  PROVE  /\ reqs[r] \in Request /\ reqs[r].ev \in Event /\ reqs[r].event \in DOMAIN events
         /\ reqs[r].event \in Nat /\ CallOf(reqs[r]) = call /\ reqs[r].op \in Ops
         /\ call \in CallsOf(reqs[r].op)
<1>1. /\ reqs[r] \in Request /\ RequestOK(reqs[r], DOMAIN events) /\ call = CallOf(reqs[r])
      /\ reqs[r].op # "none" /\ reqs[r].op \in Ops /\ call \in CallsOf(reqs[r].op)
  BY AtIs DEF TypeInv
<1>2. reqs[r].event \in DOMAIN events
  BY <1>1 DEF RequestOK, AboutEvent
<1>3. reqs[r].ev \in Event
  BY <1>1 DEF RequestOK, HasRead
<1> QED
  BY <1>1, <1>2, <1>3 DEF Request

LEMMA MadeIs ==
  ASSUME TypeInv, NEW r \in Reqs, NEW call, At(r, call), call \in Made \cup {"insert", "cancel"}
  PROVE  reqs[r].op = "new" /\ (call # "insert" => WhenEnds(reqs[r].ev.given)) /\ reqs[r].ev \in Event
<1>1. /\ RequestOK(reqs[r], DOMAIN events) /\ call = CallOf(reqs[r]) /\ call \in CallsOf(reqs[r].op)
      /\ reqs[r].op # "none" /\ reqs[r].op \in Ops
  BY AtIs DEF TypeInv
<1> QED
  BY <1>1, OpIs DEF RequestOK, HasRead

-----------------------------------------------------------------------------
(* What each call does: to the types, and to what the rest is about.       *)

\* The document of event e is doc now.
Wrote(e, doc) ==
  /\ DOMAIN events' = DOMAIN events
  /\ \A d \in DOMAIN events : events'[d] = IF d = e THEN doc ELSE events[d]

LEMMA WroteTypes ==
  ASSUME EventsOK, NEW e \in DOMAIN events, NEW doc \in Event, WhenEnds(doc.given),
         events' = [events EXCEPT ![e] = doc]
  PROVE  EventsOK' /\ Wrote(e, doc)
<1>1. events \in Seq(Event) /\ \A d \in DOMAIN events : WhenEnds(events[d].given)
  BY DEF EventsOK
<1>2. /\ events' \in Seq(Event) /\ DOMAIN events' = DOMAIN events
      /\ \A d \in DOMAIN events : events'[d] = IF d = e THEN doc ELSE events[d]
  BY <1>1, ExceptIs
<1>3. \A d \in DOMAIN events' : WhenEnds(events'[d].given)
  BY <1>1, <1>2
<1> QED
  BY <1>2, <1>3 DEF EventsOK, Wrote

\* The call of r has put post at id, a message about event e, or there is none.
Touches(id, post, e) ==
  /\ Effect(id, post)
  /\ id # NoPost =>
       /\ post.message.event = e
       /\ IsPost(id) => /\ PostOf(id).message.event = e
                        /\ PostOf(id).message.kind = post.message.kind

\* The message at target has become post, unless a failure prevents it.
Written(target, post, e) ==
  \E id \in {target, NoPost} : Touches(id, post, e) /\ (faults' = faults => id = target)

LEMMA NotWritten ==
  ASSUME UNCHANGED posts, NEW target, NEW post, NEW e, faults' = faults => target = NoPost
  PROVE  Written(target, post, e)
BY SamePosts DEF Written, Touches

\* What r has read of its event is of that event.
LEMMA RefKnown ==
  ASSUME TypeInv, RefInv, NEW r \in Reqs, NEW call, At(r, call)
  PROVE  /\ RefsOK(posts, reqs[r].event, reqs[r].ev.refs)
         /\ reqs[r].ev.channel \in DOMAIN channels \cup {None}
<1>1. call = CallOf(reqs[r]) /\ reqs[r].op # "none"
  BY AtIs DEF TypeInv
<1>2. ReadTrue(reqs[r], channels, posts)
  BY DEF RefInv, RequestInv
<1> QED
  BY <1>1, <1>2 DEF ReadTrue, HasRead

\* The calls whose failure is only logged.
Tolerated == Redraws \cup {"pin_announcement", "pin_summary", "unpin_announcement", "unpin_summary",
                           "post_closing"}

\* r goes on with ev; no document has changed.
Going(r, ev) == Advanced(r, ev) /\ UNCHANGED <<events, crossed>>

LEMMA ToleratedTypes ==
  ASSUME TypeInv, NEW r \in Reqs, NEW call \in Tolerated, At(r, call),
         Quiet, UNCHANGED <<events, archives>>, GoOn(r, reqs[r].ev),
         ProviderOK', faults' \in {faults, faults + 1}
  PROVE  TypeInv' /\ Going(r, reqs[r].ev)
<1>1. call \notin {"insert", "notify"}
  BY DEF Tolerated, Redraws
<1>2. reqs[r].ev \in Event
  BY <1>1, CallIs
<1>3. Advanced(r, reqs[r].ev)
  BY <1>2, GoOnIs DEF TypeInv
<1>4. RequestsOK'
  BY <1>1, <1>2, <1>3, AdvancedOK DEF TypeInv
<1>5. EventsOK' /\ archives' \in SUBSET DOMAIN events' /\ faults' \in Nat
  BY DEF TypeInv, EventsOK
<1>6. TypeInv'
  BY <1>4, <1>5, StepTypes
<1> QED
  BY <1>3, <1>6 DEF Going, Quiet

RefNames == {"announcement", "recruit", "summary"}

LEMMA RefIs ==
  ASSUME TypeInv, RefInv, NEW r \in Reqs, NEW call \in Tolerated, At(r, call),
         NEW name \in RefNames, ~Missing(r, name)
  PROVE  LET kind == IF name = "summary" THEN "summary" ELSE "announcement" IN
         /\ Ref(r, name) \in Int \X Nat /\ IsPost(Ref(r, name))
         /\ PostOf(Ref(r, name)).message.event = reqs[r].event
         /\ PostOf(Ref(r, name)).message.kind = kind
<1>1. RefsOK(posts, reqs[r].event, reqs[r].ev.refs)
  BY RefKnown
<1>2. reqs[r].ev.refs[name] # NoPost
  BY DEF Missing, Ref
<1>3. RefersTo(posts, reqs[r].ev.refs[name], reqs[r].event,
               IF name = "summary" THEN "summary" ELSE "announcement")
  BY <1>1, <1>2 DEF RefsOK, RefNames
<1> QED
  BY <1>3 DEF RefersTo, IsPost, PostOf, Ref

LEMMA PinTypes ==
  ASSUME TypeInv, RefInv, NEW r \in Reqs, NEW call \in Tolerated, At(r, call),
         NEW name \in RefNames, NEW pinned \in BOOLEAN,
         Tolerant(r, Missing(r, name), SetPin(Ref(r, name), pinned))
  PROVE  /\ TypeInv' /\ Going(r, reqs[r].ev) /\ UNCHANGED channels
         /\ Written(Ref(r, name), [PostOf(Ref(r, name)) EXCEPT !.pinned = pinned], reqs[r].event)
<1> DEFINE id == Ref(r, name)
           post == [PostOf(id) EXCEPT !.pinned = pinned]
<1>1. /\ Quiet /\ UNCHANGED <<events, archives>> /\ GoOn(r, reqs[r].ev)
      /\ \/ UNCHANGED providerVars /\ faults' = faults /\ Missing(r, name)
         \/ UNCHANGED providerVars /\ faults' = faults + 1
         \/ ~Missing(r, name) /\ SetPin(id, pinned) /\ faults' \in {faults, faults + 1}
  BY DEF Tolerant, Answered, Failed
<1>2. faults \in Nat /\ ProviderOK /\ faults' \in {faults, faults + 1}
  BY <1>1 DEF TypeInv
<1>3. CASE UNCHANGED providerVars /\ (faults' = faults => Missing(r, name))
  <2>1. ProviderOK'
    BY <1>2, <1>3 DEF ProviderOK, providerVars
  <2>2. Written(id, post, reqs[r].event)
    BY <1>3, NotWritten DEF Missing, providerVars
  <2> QED
    BY <1>1, <1>2, <1>3, <2>1, <2>2, ToleratedTypes DEF providerVars
<1>4. CASE ~Missing(r, name) /\ SetPin(id, pinned)
  <2>1. /\ id \in Int \X Nat /\ IsPost(id) /\ PostOf(id).message.event = reqs[r].event
    BY <1>4, RefIs
  <2> HIDE DEF id
  <2>2. PostOf(id) \in Post
    BY <1>2, <2>1, PostOfIs
  <2>3. post.message = PostOf(id).message
    BY <2>2 DEF Post
  <2>4. ProviderOK' /\ UNCHANGED channels /\ Effect(id, post)
    BY <1>2, <1>4, <2>1, PinIs
  <2> HIDE DEF post
  <2>5. Written(id, post, reqs[r].event)
    BY <2>1, <2>3, <2>4 DEF Written, Touches
  <2> QED
    BY <1>1, <1>2, <2>4, <2>5, ToleratedTypes DEF id, post
<1> QED
  BY <1>1, <1>2, <1>3, <1>4

LEMMA UpdateMessageTypes ==
  ASSUME TypeInv, RefInv, NEW r \in Reqs, NEW call \in Tolerated, At(r, call),
         NEW name \in RefNames, NEW m \in Messages, m.event = reqs[r].event,
         m.kind = IF name = "summary" THEN "summary" ELSE "announcement",
         Tolerant(r, Missing(r, name), UpdateMessage(Ref(r, name), m))
  PROVE  /\ TypeInv' /\ Going(r, reqs[r].ev) /\ UNCHANGED channels
         /\ Written(Ref(r, name), [PostOf(Ref(r, name)) EXCEPT !.message = m], reqs[r].event)
<1> DEFINE id == Ref(r, name)
           post == [PostOf(id) EXCEPT !.message = m]
<1>1. /\ Quiet /\ UNCHANGED <<events, archives>> /\ GoOn(r, reqs[r].ev)
      /\ \/ UNCHANGED providerVars /\ faults' = faults /\ Missing(r, name)
         \/ UNCHANGED providerVars /\ faults' = faults + 1
         \/ ~Missing(r, name) /\ UpdateMessage(id, m) /\ faults' \in {faults, faults + 1}
  BY DEF Tolerant, Answered, Failed
<1>2. faults \in Nat /\ ProviderOK /\ faults' \in {faults, faults + 1}
  BY <1>1 DEF TypeInv
<1>3. CASE UNCHANGED providerVars /\ (faults' = faults => Missing(r, name))
  <2>1. ProviderOK'
    BY <1>2, <1>3 DEF ProviderOK, providerVars
  <2>2. Written(id, post, reqs[r].event)
    BY <1>3, NotWritten DEF Missing, providerVars
  <2> QED
    BY <1>1, <1>2, <1>3, <2>1, <2>2, ToleratedTypes DEF providerVars
<1>4. CASE ~Missing(r, name) /\ UpdateMessage(id, m)
  <2>1. /\ id \in Int \X Nat /\ IsPost(id) /\ PostOf(id).message.event = reqs[r].event
        /\ PostOf(id).message.kind = m.kind
    BY <1>4, RefIs
  <2> HIDE DEF id
  <2>2. PostOf(id) \in Post
    BY <1>2, <2>1, PostOfIs
  <2>3. post.message = m
    BY <2>2 DEF Post
  <2>4. ProviderOK' /\ UNCHANGED channels /\ Effect(id, post)
    BY <1>2, <1>4, <2>1, UpdateIs
  <2> HIDE DEF post
  <2>5. Written(id, post, reqs[r].event)
    BY <2>1, <2>3, <2>4 DEF Written, Touches
  <2> QED
    BY <1>1, <1>2, <2>4, <2>5, ToleratedTypes DEF id, post
<1> QED
  BY <1>1, <1>2, <1>3, <1>4

LEMMA MessagesAre ==
  ASSUME NEW e \in Nat, NEW ev \in Event
  PROVE  /\ Announcement(e, ev) \in Messages /\ Announcement(e, ev).event = e
         /\ Announcement(e, ev).kind = "announcement"
         /\ Summary(e, ev) \in Messages /\ Summary(e, ev).event = e
         /\ Summary(e, ev).kind = "summary"
<1>1. ev.given \in Given /\ ev.channel \in Nat /\ ev.open \in BOOLEAN
  BY DEF Event
<1>2. ev.given.title \in Titles /\ ev.given.starts \in Moments /\ ev.given.ends \in Int
  BY <1>1 DEF Given
<1>3. /\ Announcement(e, ev).event = e /\ Announcement(e, ev).kind = "announcement"
      /\ Summary(e, ev).event = e /\ Summary(e, ev).kind = "summary"
  BY DEF Announcement, Summary
<1>4. Announcement(e, ev) \in Messages
  BY <1>1, <1>2 DEF Announcement, Messages
<1>5. Summary(e, ev) \in Messages
  BY <1>1, <1>2 DEF Summary, Messages
<1> QED
  BY <1>3, <1>4, <1>5

\* A post of a request at the end of channel c.
NewPost(m) == [message |-> m, pinned |-> FALSE]

LEMMA NewPostTypes ==
  ASSUME ProviderOK, NEW c, NEW m \in Messages, PostMessage(c, m)
  PROVE  /\ ProviderOK' /\ UNCHANGED channels
         /\ \E id : /\ Touches(id, NewPost(m), m.event)
                    /\ id # NoPost => id \in Int \X Nat /\ ~IsPost(id) /\ IsPost(id)'
                    /\ c \in DOMAIN posts => id = NextPost(c) /\ id # NoPost
<1>1. ProviderOK' /\ UNCHANGED channels
  BY PostIs
<1>2. CASE c \in DOMAIN posts
  <2>1. PICK id \in Int \X Nat :
          /\ id = NextPost(c) /\ Effect(id, NewPost(m)) /\ ~IsPost(id) /\ IsPost(id)'
    BY <1>2, PostIs DEF NewPost
  <2>2. NewPost(m).message = m
    BY DEF NewPost
  <2>3. id # NoPost
    BY NoPostIs
  <2> QED
    BY <1>1, <2>1, <2>2, <2>3 DEF Touches
<1>3. CASE c \notin DOMAIN posts
  <2>1. Effect(NoPost, NewPost(m))
    BY <1>3, PostIs, SamePosts
  <2> QED
    BY <1>1, <1>3, <2>1 DEF Touches
<1> QED
  BY <1>2, <1>3

\* The last message of an event.
ClosingMessage(e) == [kind |-> "closing", event |-> e]

LEMMA PostClosingTypes ==
  ASSUME TypeInv, NEW r \in Reqs, PostClosing(r)
  PROVE  /\ TypeInv' /\ Going(r, reqs[r].ev) /\ UNCHANGED channels /\ At(r, "post_closing")
         /\ \E id : /\ Touches(id, NewPost(ClosingMessage(reqs[r].event)), reqs[r].event)
                    /\ id # NoPost => ~IsPost(id)
<1> DEFINE m == ClosingMessage(reqs[r].event)
           c == reqs[r].ev.channel
<1>1. /\ Quiet /\ UNCHANGED <<events, archives>> /\ GoOn(r, reqs[r].ev)
      /\ \/ UNCHANGED providerVars /\ faults' = faults + 1
         \/ PostMessage(c, m) /\ faults' \in {faults, faults + 1}
      /\ At(r, "post_closing")
  BY DEF PostClosing, Tolerant, Answered, Failed, ClosingMessage
<1>2. "post_closing" \in Tolerated
  BY DEF Tolerated
<1>3. reqs[r].event \in Nat
  BY <1>1, CallIs
<1>4. m \in Messages /\ m.event = reqs[r].event
  BY <1>3 DEF ClosingMessage, Messages
<1> HIDE DEF m, c
<1>5. /\ ProviderOK' /\ UNCHANGED channels
      /\ \E id : Touches(id, NewPost(m), m.event) /\ (id # NoPost => ~IsPost(id))
  <2>1. CASE UNCHANGED providerVars
    <3>1. ProviderOK' /\ UNCHANGED <<channels, posts>>
      BY <2>1 DEF TypeInv, ProviderOK, providerVars
    <3> QED
      BY <3>1, SamePosts DEF Touches
  <2>2. CASE PostMessage(c, m)
    BY <1>4, <2>2, NewPostTypes DEF TypeInv
  <2> QED
    BY <1>1, <2>1, <2>2
<1>6. TypeInv' /\ Going(r, reqs[r].ev)
  BY <1>1, <1>2, <1>5, ToleratedTypes
<1> QED
  BY <1>1, <1>4, <1>5, <1>6 DEF m

\* A creation gives up.
Aborted(r) == Turned(r, "cancel", TRUE) /\ UNCHANGED <<events, crossed>>

LEMMA AbortTypes ==
  ASSUME TypeInv, NEW r \in Reqs, NEW call \in Made, At(r, call), Quiet,
         UNCHANGED <<events, archives>>, Abort(r), ProviderOK', faults' \in Nat
  PROVE  TypeInv' /\ Aborted(r)
<1>1. reqs[r].op = "new" /\ reqs[r].ev \in Event
  BY MadeIs
<1>2. Turned(r, "cancel", TRUE)
  BY <1>1, AbortIs DEF TypeInv
<1>3. call # "insert" /\ DOMAIN events' = DOMAIN events /\ RequestsOK
  BY DEF Made, TypeInv
<1>4. RequestsOK'
  BY <1>1, <1>2, <1>3, TurnedOK
<1>5. EventsOK' /\ archives' \in SUBSET DOMAIN events'
  BY DEF TypeInv, EventsOK
<1>6. TypeInv'
  BY <1>4, <1>5, StepTypes
<1> QED
  BY <1>2, <1>6 DEF Aborted, Quiet

\* The event as a creation knows it after a post.
WithRef(ev, ref, id) == [ev EXCEPT !.refs[ref] = id]

LEMMA WithRefTypes ==
  ASSUME NEW ev \in Event, NEW ref \in RefNames, NEW id \in Int \X Nat
  PROVE  LET new == WithRef(ev, ref, id) IN
         /\ new \in Event /\ new.given = ev.given /\ new.open = ev.open
         /\ new.channel = ev.channel /\ new.refs[ref] = id
         /\ \A other \in RefNames \ {ref} : new.refs[other] = ev.refs[other]
<1> DEFINE refs == [ev.refs EXCEPT ![ref] = id]
           new == [ev EXCEPT !.refs = refs]
<1>1. WithRef(ev, ref, id) = new
  BY DEF WithRef
<1>2. ev.refs \in [announcement : PostIds, recruit : PostIds, summary : PostIds] /\ id \in PostIds
  BY DEF Event, PostIds
<1>3. /\ refs \in [announcement : PostIds, recruit : PostIds, summary : PostIds]
      /\ refs[ref] = id /\ \A other \in RefNames \ {ref} : refs[other] = ev.refs[other]
  BY <1>2 DEF RefNames
<1> HIDE DEF refs
<1>4. /\ new \in Event /\ new.refs = refs /\ new.given = ev.given /\ new.open = ev.open
      /\ new.channel = ev.channel
  BY <1>3 DEF Event
<1> QED
  BY <1>1, <1>3, <1>4

LEMMA PostedTypes ==
  ASSUME TypeInv, NEW r \in Reqs, NEW call \in Made, At(r, call), Quiet,
         UNCHANGED <<events, archives>>, NEW ref \in RefNames, NEW c \in DOMAIN posts,
         NEW m \in Messages, m.event = reqs[r].event, Posted(r, ref, c, m)
  PROVE  /\ TypeInv' /\ UNCHANGED channels
         /\ \E id :
              /\ Touches(id, NewPost(m), reqs[r].event)
              /\ id # NoPost => id \in Int \X Nat /\ ~IsPost(id) /\ IsPost(id)'
              /\ \/ Going(r, WithRef(reqs[r].ev, ref, id)) /\ id # NoPost
                 \/ Aborted(r) /\ faults' = faults + 1
<1>1. reqs[r].ev \in Event /\ faults \in Nat /\ faults + 1 \in Nat /\ ProviderOK
  BY MadeIs DEF TypeInv
<1>2. CASE /\ PostMessage(c, m) /\ faults' = faults
           /\ GoOn(r, [reqs[r].ev EXCEPT !.refs[ref] = NextPost(c)])
  <2>1. /\ ProviderOK' /\ UNCHANGED channels
        /\ \E id : Touches(id, NewPost(m), m.event) /\ id = NextPost(c) /\ id # NoPost
                   /\ id \in Int \X Nat /\ ~IsPost(id) /\ IsPost(id)'
    BY <1>1, <1>2, NewPostTypes
  <2>2. PICK id : /\ Touches(id, NewPost(m), m.event) /\ id = NextPost(c) /\ id # NoPost
                  /\ id \in Int \X Nat /\ ~IsPost(id) /\ IsPost(id)'
    BY <2>1
  <2> DEFINE ev == WithRef(reqs[r].ev, ref, id)
  <2>3. GoOn(r, ev)
    BY <1>2, <2>2 DEF WithRef
  <2>4. ev \in Event /\ ev.given = reqs[r].ev.given
    BY <1>1, <2>2, WithRefTypes
  <2> HIDE DEF ev
  <2>5. Advanced(r, ev)
    BY <2>3, <2>4, GoOnIs DEF TypeInv
  <2>6. RequestsOK'
    <3>1. call # "insert" /\ DOMAIN events' = DOMAIN events
      BY DEF Made
    <3> QED
      BY <2>4, <2>5, <3>1, AdvancedOK DEF TypeInv
  <2>7. EventsOK' /\ archives' \in SUBSET DOMAIN events' /\ faults' \in Nat
    BY <1>1, <1>2 DEF TypeInv, EventsOK
  <2>8. TypeInv'
    BY <2>1, <2>6, <2>7, StepTypes
  <2> QED
    BY <2>1, <2>2, <2>5, <2>8 DEF Going, Quiet, ev
<1>3. CASE PostMessage(c, m) /\ faults' = faults + 1 /\ Abort(r)
  <2>1. /\ ProviderOK' /\ UNCHANGED channels
        /\ \E id : Touches(id, NewPost(m), m.event)
                   /\ id \in Int \X Nat /\ ~IsPost(id) /\ IsPost(id)'
    BY <1>1, <1>3, NewPostTypes
  <2>2. TypeInv' /\ Aborted(r)
    BY <1>1, <1>3, <2>1, AbortTypes
  <2> QED
    BY <1>3, <2>1, <2>2
<1>4. CASE UNCHANGED providerVars /\ faults' = faults + 1 /\ Abort(r)
  <2>1. ProviderOK' /\ UNCHANGED <<channels, posts>>
    BY <1>1, <1>4 DEF ProviderOK, providerVars
  <2>2. TypeInv' /\ Aborted(r)
    BY <1>1, <1>4, <2>1, AbortTypes
  <2>3. Touches(NoPost, NewPost(m), m.event)
    BY <2>1, SamePosts DEF Touches
  <2> QED
    BY <1>4, <2>1, <2>2, <2>3
<1> QED
  BY <1>2, <1>3, <1>4 DEF Posted, Answered, Failed

\* r has made its call.
LEMMA AdvanceTypes ==
  ASSUME TypeInv, NEW r \in Reqs, NEW call, At(r, call), call # "insert",
         NEW ev \in Event, GoOn(r, ev), call \in Made => ev.given = reqs[r].ev.given,
         Quiet, EventsOK', ProviderOK', DOMAIN events' = DOMAIN events,
         archives' \in SUBSET DOMAIN events', faults' \in Nat
  PROVE  TypeInv' /\ Advanced(r, ev)
<1>1. Advanced(r, ev)
  BY GoOnIs DEF TypeInv
<1>2. RequestsOK'
  BY <1>1, AdvancedOK DEF TypeInv
<1> QED
  BY <1>1, <1>2, StepTypes

LEMMA InDatabaseIs ==
  ASSUME TypeInv, InDatabase
  PROVE  Quiet /\ ProviderOK' /\ faults' \in Nat /\ UNCHANGED <<channels, posts, crossed, faults>>
BY DEF InDatabase, TypeInv, ProviderOK, providerVars, Quiet

\* The event of r is there.
Inserted(r) ==
  \E e \in Nat \ {0} :
    /\ e \notin DOMAIN events /\ DOMAIN events' = DOMAIN events \cup {e}
    /\ events'[e] = reqs[r].ev /\ \A d \in DOMAIN events : events'[d] = events[d]
    /\ Moved(r) /\ reqs'[r].event = e /\ CallOf(reqs'[r]) = "create_channel"
    /\ reqs'[r].op = reqs[r].op /\ reqs'[r].attempt = reqs[r].attempt /\ reqs'[r].ev = reqs[r].ev
    /\ reqs'[r].failed = reqs[r].failed

LEMMA InsertEventTypes ==
  ASSUME TypeInv, NEW r \in Reqs, InsertEvent(r)
  PROVE  /\ TypeInv' /\ At(r, "insert") /\ UNCHANGED <<channels, posts, crossed, faults>>
         /\ \/ Inserted(r)
            \/ UNCHANGED events /\ (Ended(r) \/ Turned(r, "notify", TRUE))
<1> DEFINE ev == reqs[r].ev
           todo == reqs[r].todo
           call == "insert"
<1>1. At(r, call) /\ InDatabase /\ UNCHANGED archives
  BY DEF InsertEvent
<1>2. Quiet /\ ProviderOK' /\ faults' \in Nat /\ UNCHANGED <<channels, posts, crossed, faults>>
  BY <1>1, InDatabaseIs
<1>3. /\ reqs[r] \in Request /\ RequestOK(reqs[r], DOMAIN events) /\ CallOf(reqs[r]) = call
      /\ todo \in Seq(Calls) /\ todo # << >> /\ InOrder("new", todo) /\ reqs[r].op = "new"
      /\ ev \in Event /\ Head(todo) = call
  BY <1>1, AtIs, MadeIs DEF TypeInv, RequestOK, At
<1>4. reqs \in [Reqs -> Request] /\ events \in Seq(Event)
  BY DEF TypeInv, RequestsOK, EventsOK
<1>5. CASE ~(ev.given.starts > now /\ WhenEnds(ev.given))
  <2>1. Instead(r, Told(r), TRUE) /\ UNCHANGED events
    BY <1>5 DEF InsertEvent
  <2>2. Ended(r) \/ Turned(r, "notify", TRUE)
    BY <1>3, <2>1, ToldIs DEF TypeInv
  <2>3. DOMAIN events' = DOMAIN events /\ RequestsOK
    BY <2>1 DEF TypeInv
  <2>4. RequestsOK'
    <3>1. CASE Ended(r)
      BY <2>3, <3>1, EndedOK
    <3>2. CASE Turned(r, "notify", TRUE)
      BY <1>1, <1>3, <2>3, <3>2, TurnedOK
    <3> QED
      BY <2>2, <3>1, <3>2
  <2>5. EventsOK' /\ archives' \in SUBSET DOMAIN events'
    BY <1>1, <2>1 DEF TypeInv, EventsOK
  <2> QED
    BY <1>1, <1>2, <2>1, <2>2, <2>4, <2>5, StepTypes
<1>6. CASE ev.given.starts > now /\ WhenEnds(ev.given)
  <2> DEFINE e == Len(events) + 1
             req == [reqs[r] EXCEPT !.todo = Tail(todo), !.event = e]
  <2>1. events' = Append(events, ev) /\ reqs' = [reqs EXCEPT ![r] = req]
    BY <1>6 DEF InsertEvent
  <2>2. /\ e \in Nat \ {0} /\ e \notin DOMAIN events /\ events' \in Seq(Event)
        /\ DOMAIN events' = DOMAIN events \cup {e} /\ events'[e] = ev
        /\ \A d \in DOMAIN events : events'[d] = events[d]
    BY <1>3, <1>4, <2>1, AppendProperties
  <2> HIDE DEF e
  <2>3. "none" \notin NextCalls("new", call)
    BY DEF NextCalls
  <2>4. /\ Tail(todo) \in Seq(Calls) /\ Tail(todo) # << >> /\ InOrder("new", Tail(todo))
        /\ Head(Tail(todo)) \in NextCalls("new", call)
    BY <1>3, <2>3, NextInOrder DEF Ops
  <2>5. Head(Tail(todo)) = "create_channel"
    BY <2>4 DEF NextCalls
  <2>6. /\ req \in Request /\ req.op = "new" /\ req.todo = Tail(todo) /\ req.event = e
        /\ req.ev = ev /\ req.attempt = reqs[r].attempt /\ req.failed = reqs[r].failed
        /\ req.shown = reqs[r].shown /\ req.change = reqs[r].change
    BY <1>3, <2>2, <2>4 DEF Request
  <2> HIDE DEF req, todo, ev
  <2>7. reqs'[r] = req /\ reqs' = [reqs EXCEPT ![r] = reqs'[r]]
    BY <1>4, <2>1
  <2>8. CallOf(req) = "create_channel"
    BY <2>4, <2>5, <2>6 DEF CallOf
  <2>9. RequestOK(req, DOMAIN events')
    <3>1. AboutEvent(req, DOMAIN events')
      BY <2>2, <2>6, <2>8 DEF AboutEvent
    <3>2. SentAsShown(req)
      BY <1>3, <2>6 DEF RequestOK, SentAsShown
    <3> QED
      BY <1>3, <1>6, <2>4, <2>6, <2>8, <3>1, <3>2 DEF RequestOK, HasRead
  <2>10. Moved(r) /\ Inserted(r)
    BY <1>3, <2>2, <2>6, <2>7, <2>8 DEF Moved, Inserted, ev
  <2>11. RequestsOK'
    BY <2>2, <2>7, <2>9, <2>10, MovedTypes DEF TypeInv
  <2>12. EventsOK' /\ archives' \in SUBSET DOMAIN events' /\ DOMAIN events \subseteq DOMAIN events'
    <3>1. \A d \in DOMAIN events' : WhenEnds(events'[d].given)
      BY <1>6, <2>2 DEF TypeInv, EventsOK
    <3> QED
      BY <1>1, <2>2, <3>1 DEF TypeInv, EventsOK
  <2> QED
    BY <1>1, <1>2, <2>10, <2>11, <2>12, StepTypes
<1> QED
  BY <1>5, <1>6

\* r tries the next name.
Retried(r) ==
  /\ Moved(r) /\ CallOf(reqs'[r]) = "create_channel"
  /\ reqs'[r].op = reqs[r].op /\ reqs'[r].event = reqs[r].event /\ reqs'[r].ev = reqs[r].ev
  /\ reqs'[r].failed = reqs[r].failed
  /\ reqs[r].attempt < Attempts /\ reqs'[r].attempt = reqs[r].attempt + 1

\* There is another channel.
OneChannel ==
  /\ \A post : Effect(NoPost, post)
  /\ DOMAIN channels \subseteq DOMAIN channels'
  /\ \A c \in DOMAIN channels : channels'[c].name = channels[c].name

\* The event as a creation knows it once it has a channel.
WithChannel(ev, c) == [ev EXCEPT !.channel = c]

LEMMA WithChannelTypes ==
  ASSUME NEW ev \in Event, NEW c \in Nat
  PROVE  LET new == WithChannel(ev, c) IN
         /\ new \in Event /\ new.given = ev.given /\ new.open = ev.open
         /\ new.channel = c /\ new.refs = ev.refs
BY DEF WithChannel, Event

\* The name of r's next attempt is in use.
InUse(r) ==
  \E c \in DOMAIN channels : channels[c].name = ChannelName(reqs[r].ev, reqs[r].attempt)

LEMMA CreateChannelTypes ==
  ASSUME TypeInv, RefInv, NEW r \in Reqs, CreateChannel(r)
  PROVE  /\ TypeInv' /\ At(r, "create_channel") /\ UNCHANGED <<events, crossed>> /\ OneChannel
         /\ \/ Retried(r) /\ InUse(r) /\ UNCHANGED <<channels, faults>>
            \/ Aborted(r) /\ InUse(r) /\ ~(reqs[r].attempt < Attempts) /\ UNCHANGED faults
            \/ Aborted(r) /\ faults' = faults + 1
            \/ \E c \in DOMAIN channels' : Going(r, WithChannel(reqs[r].ev, c)) /\ c # None
<1> DEFINE ev == reqs[r].ev
           name == ChannelName(ev, reqs[r].attempt)
           call == "create_channel"
<1>1. At(r, call) /\ Quiet /\ UNCHANGED <<events, archives>>
  BY DEF CreateChannel
<1>2. call \in Made
  BY DEF Made
<1>3. /\ reqs[r] \in Request /\ RequestOK(reqs[r], DOMAIN events) /\ CallOf(reqs[r]) = call
      /\ reqs[r].op = "new" /\ ev \in Event /\ reqs[r].attempt \in 1..Attempts
      /\ reqs[r].attempt \in Nat
  <2>1. /\ reqs[r] \in Request /\ RequestOK(reqs[r], DOMAIN events) /\ CallOf(reqs[r]) = call
        /\ reqs[r].op = "new" /\ ev \in Event
    BY <1>1, <1>2, AtIs, MadeIs DEF TypeInv
  <2>2. Progress(reqs[r], events, channels)
    BY DEF RefInv, RequestInv
  <2> QED
    BY <2>1, <2>2 DEF Progress, Request
<1>4. /\ reqs \in [Reqs -> Request] /\ ProviderOK /\ faults \in Nat /\ faults + 1 \in Nat
      /\ RequestsOK /\ EventsOK' /\ archives' \in SUBSET DOMAIN events'
      /\ DOMAIN events' = DOMAIN events
  BY <1>1 DEF TypeInv, RequestsOK, EventsOK
<1>5. name \in Names
  BY <1>3 DEF Names
<1>6. UNCHANGED crossed
  BY <1>1 DEF Quiet
<1>7. CASE NameTaken(name)
  <2>1. /\ UNCHANGED <<channels, posts, faults>>
        /\ IF reqs[r].attempt < Attempts THEN reqs' = [reqs EXCEPT ![r].attempt = @ + 1]
           ELSE Abort(r)
    BY <1>7 DEF CreateChannel, providerVars
  <2>2. InUse(r)
    BY <1>7 DEF NameTaken, InUse
  <2>3. OneChannel /\ ProviderOK' /\ faults' \in Nat
    BY <1>4, <2>1, SamePosts DEF OneChannel, ProviderOK
  <2>4. CASE reqs[r].attempt < Attempts
    <3>0. PICK n \in Nat : n = reqs[r].attempt + 1
      BY <1>3
    <3> DEFINE req == [reqs[r] EXCEPT !.attempt = n]
    <3>1. reqs' = [reqs EXCEPT ![r] = req]
      BY <2>1, <2>4, <3>0
    <3>2. /\ req \in Request /\ req.op = "new" /\ req.event = reqs[r].event /\ req.ev = ev
          /\ req.failed = reqs[r].failed /\ req.attempt = n
          /\ req.todo = reqs[r].todo /\ req.shown = reqs[r].shown /\ req.change = reqs[r].change
      BY <1>3 DEF Request
    <3> HIDE DEF req, ev
    <3>3. reqs'[r] = req /\ reqs' = [reqs EXCEPT ![r] = reqs'[r]]
      BY <1>4, <3>1
    <3>4. CallOf(req) = call
      BY <1>3, <3>2 DEF CallOf
    <3>5. reqs[r].todo # << >>
      BY <1>1 DEF At
    <3>6. AboutEvent(req, DOMAIN events) /\ SentAsShown(req)
      BY <1>3, <3>2, <3>4 DEF RequestOK, SentAsShown, AboutEvent
    <3>7. RequestOK(req, DOMAIN events)
      BY <1>2, <1>3, <3>2, <3>4, <3>5, <3>6 DEF RequestOK, HasRead, ev
    <3>8. Moved(r) /\ Retried(r)
      BY <1>3, <2>4, <3>0, <3>2, <3>3, <3>4 DEF Moved, Retried, ev
    <3>9. RequestsOK'
      BY <1>4, <3>3, <3>7, <3>8, MovedTypes
    <3> QED
      BY <1>1, <1>4, <1>6, <2>1, <2>2, <2>3, <3>8, <3>9, StepTypes
  <2>5. CASE ~(reqs[r].attempt < Attempts)
    <3>1. TypeInv' /\ Aborted(r)
      BY <1>1, <1>2, <2>1, <2>3, <2>5, AbortTypes
    <3> QED
      BY <1>1, <1>6, <2>1, <2>2, <2>3, <2>5, <3>1
  <2> QED
    BY <2>4, <2>5
<1>8. CASE ~NameTaken(name)
  <2> HIDE DEF name
  <2>1. \/ CreatePrivateChannel(name) /\ faults' = faults /\ GoOn(r, WithChannel(ev, NextChannel))
        \/ CreatePrivateChannel(name) /\ faults' = faults + 1 /\ Abort(r)
        \/ UNCHANGED providerVars /\ faults' = faults + 1 /\ Abort(r)
    BY <1>8 DEF CreateChannel, Answered, Failed, WithChannel, name
  <2>2. CASE CreatePrivateChannel(name)
    <3>1. /\ ProviderOK' /\ OneChannel /\ NextChannel \in DOMAIN channels'
          /\ NextChannel \in Nat \ {0}
      BY <1>4, <1>5, <2>2, ChannelIs DEF OneChannel
    <3>2. CASE faults' = faults /\ GoOn(r, WithChannel(ev, NextChannel))
      <4>1. PICK c \in Nat \ {0} : c = NextChannel /\ c \in DOMAIN channels'
        BY <3>1
      <4>2. WithChannel(ev, c) \in Event /\ WithChannel(ev, c).given = ev.given
        BY <1>3, <4>1, WithChannelTypes
      <4>3. GoOn(r, WithChannel(ev, c)) /\ call # "insert" /\ faults' \in Nat
        BY <1>4, <3>2, <4>1
      <4>4. TypeInv' /\ Advanced(r, WithChannel(ev, c))
        BY <1>1, <1>4, <3>1, <4>2, <4>3, AdvanceTypes
      <4> QED
        BY <1>1, <1>6, <3>1, <4>1, <4>4 DEF Going, None
    <3>3. CASE faults' = faults + 1 /\ Abort(r)
      <4>1. TypeInv' /\ Aborted(r)
        BY <1>1, <1>2, <1>4, <3>1, <3>3, AbortTypes
      <4> QED
        BY <1>1, <1>6, <3>1, <3>3, <4>1
    <3> QED
      BY <1>4, <2>1, <2>2, <3>2, <3>3
  <2>3. CASE UNCHANGED providerVars /\ faults' = faults + 1 /\ Abort(r)
    <3>1. OneChannel /\ ProviderOK'
      BY <1>4, <2>3, SamePosts DEF OneChannel, ProviderOK, providerVars
    <3>2. TypeInv' /\ Aborted(r)
      BY <1>1, <1>2, <1>4, <2>3, <3>1, AbortTypes
    <3> QED
      BY <1>1, <1>6, <2>3, <3>1, <3>2
  <2> QED
    BY <2>1, <2>2, <2>3
<1> QED
  BY <1>7, <1>8

\* A call that writes to the document of r's event.
LEMMA WriteTypes ==
  ASSUME TypeInv, InDatabase, NEW r \in Reqs, NEW call, At(r, call), call # "insert",
         NEW doc \in Event, WhenEnds(doc.given), events' = [events EXCEPT ![reqs[r].event] = doc],
         reqs[r].event \in DOMAIN events,
         NEW ev \in Event, GoOn(r, ev), call \in Made => ev.given = reqs[r].ev.given,
         archives' \in SUBSET DOMAIN events
  PROVE  /\ TypeInv' /\ Advanced(r, ev) /\ Wrote(reqs[r].event, doc)
         /\ UNCHANGED <<channels, posts, crossed, faults>>
<1>1. Quiet /\ ProviderOK' /\ faults' \in Nat /\ UNCHANGED <<channels, posts, crossed, faults>>
  BY InDatabaseIs
<1>2. EventsOK' /\ Wrote(reqs[r].event, doc)
  BY WroteTypes DEF TypeInv
<1>3. DOMAIN events' = DOMAIN events
  BY <1>2 DEF Wrote
<1>4. archives' \in SUBSET DOMAIN events'
  BY <1>3
<1>5. TypeInv' /\ Advanced(r, ev)
  BY <1>1, <1>2, <1>3, <1>4, AdvanceTypes
<1> QED
  BY <1>1, <1>2, <1>5

LEMMA DocIs ==
  ASSUME TypeInv, NEW e \in DOMAIN events
  PROVE  events[e] \in Event /\ WhenEnds(events[e].given) /\ events[e].given \in Given
BY EventsAre DEF TypeInv, Event

LEMMA SetChannelTypes ==
  ASSUME TypeInv, RefInv, NEW r \in Reqs, SetChannel(r)
  PROVE  /\ TypeInv' /\ At(r, "set_channel") /\ Advanced(r, reqs[r].ev)
         /\ Wrote(reqs[r].event, WithChannel(events[reqs[r].event], reqs[r].ev.channel))
         /\ UNCHANGED <<channels, posts, crossed, faults>>
<1> DEFINE e == reqs[r].event
           doc == WithChannel(events[e], reqs[r].ev.channel)
<1>1. /\ At(r, "set_channel") /\ InDatabase /\ UNCHANGED archives /\ GoOn(r, reqs[r].ev)
      /\ events' = [events EXCEPT ![e] = doc]
  BY DEF SetChannel, WithChannel
<1>2. e \in DOMAIN events /\ reqs[r].ev \in Event /\ reqs[r].ev.channel \in Nat
  BY <1>1, CallIs DEF Event
<1>3. doc \in Event /\ doc.given = events[e].given /\ WhenEnds(events[e].given)
  BY <1>2, DocIs, WithChannelTypes
<1>4. archives' \in SUBSET DOMAIN events
  BY <1>1 DEF TypeInv
<1> HIDE DEF doc, e
<1> QED
  BY <1>1, <1>2, <1>3, <1>4, WriteTypes DEF doc, e

\* The event with its messages.
WithRefs(ev, refs) == [ev EXCEPT !.refs = refs]

LEMMA SetMessagesTypes ==
  ASSUME TypeInv, RefInv, NEW r \in Reqs, SetMessages(r)
  PROVE  /\ TypeInv' /\ At(r, "set_messages") /\ Advanced(r, reqs[r].ev)
         /\ Wrote(reqs[r].event, WithRefs(events[reqs[r].event], reqs[r].ev.refs))
         /\ UNCHANGED <<channels, posts, crossed, faults>>
<1> DEFINE e == reqs[r].event
           doc == WithRefs(events[e], reqs[r].ev.refs)
<1>1. /\ At(r, "set_messages") /\ InDatabase /\ UNCHANGED archives /\ GoOn(r, reqs[r].ev)
      /\ events' = [events EXCEPT ![e] = doc]
  BY DEF SetMessages, WithRefs
<1>2. e \in DOMAIN events /\ reqs[r].ev \in Event
  BY <1>1, CallIs
<1>3. events[e] \in Event /\ WhenEnds(events[e].given)
  BY <1>2, DocIs
<1>4. doc \in Event /\ doc.given = events[e].given
  BY <1>2, <1>3 DEF WithRefs, Event
<1>5. archives' \in SUBSET DOMAIN events
  BY <1>1 DEF TypeInv
<1> HIDE DEF doc, e
<1> QED
  BY <1>1, <1>2, <1>3, <1>4, <1>5, WriteTypes DEF doc, e

\* The event with what a user gives, and its status.
WithGiven(ev, given, open) == [ev EXCEPT !.given = given, !.open = open]

LEMMA StoredIs ==
  ASSUME NEW e \in DOMAIN events, NEW ev, Stored(e, ev)
  PROVE  events' = [events EXCEPT ![e] = WithGiven(events[e], ev.given, ev.open)]
<1> DEFINE first == [events EXCEPT ![e] = [events[e] EXCEPT !.given = ev.given]]
<1>1. events' = [first EXCEPT ![e] = [first[e] EXCEPT !.open = ev.open]]
  BY DEF Stored
<1>2. first[e] = [events[e] EXCEPT !.given = ev.given]
  OBVIOUS
<1>3. WithGiven(events[e], ev.given, ev.open) = [first[e] EXCEPT !.open = ev.open]
  BY <1>2 DEF WithGiven
<1> QED
  BY <1>1, <1>3

LEMMA WithGivenTypes ==
  ASSUME NEW ev \in Event, NEW given \in Given, NEW open \in BOOLEAN
  PROVE  LET new == WithGiven(ev, given, open) IN
         /\ new \in Event /\ new.given = given /\ new.open = open
         /\ new.channel = ev.channel /\ new.refs = ev.refs /\ new.organizer = ev.organizer
<1> DEFINE new == WithGiven(ev, given, open)
<1>1. /\ new \in Event /\ new.given = given
      /\ new.channel = ev.channel /\ new.refs = ev.refs /\ new.organizer = ev.organizer
  BY DEF WithGiven, Event
<1>2. new.open = open
  BY Zenon DEF WithGiven, Event
<1> QED
  BY <1>1, <1>2

LEMMA CancelCreationTypes ==
  ASSUME TypeInv, NEW r \in Reqs, CancelCreation(r)
  PROVE  /\ TypeInv' /\ At(r, "cancel") /\ Advanced(r, reqs[r].ev)
         /\ Wrote(reqs[r].event, WithGiven(events[reqs[r].event], reqs[r].ev.given, FALSE))
         /\ UNCHANGED <<channels, posts, crossed, faults>>
<1> DEFINE e == reqs[r].event
           ev == reqs[r].ev
           doc == WithGiven(events[e], ev.given, FALSE)
           cancelled == [ev EXCEPT !.open = FALSE]
<1>1. /\ At(r, "cancel") /\ InDatabase /\ GoOn(r, ev) /\ Stored(e, cancelled)
      /\ archives' = archives \cup (IF ev.channel = None THEN {} ELSE {e})
  BY DEF CancelCreation
<1>2. e \in DOMAIN events /\ ev \in Event /\ WhenEnds(ev.given)
  BY <1>1, CallIs, MadeIs
<1>3. cancelled.given = ev.given /\ ev.given \in Given
  BY <1>2 DEF Event
<1>4. cancelled.open = FALSE
  BY <1>2, Zenon DEF Event
<1> HIDE DEF cancelled
<1>5. events' = [events EXCEPT ![e] = WithGiven(events[e], cancelled.given, cancelled.open)]
  BY <1>1, <1>2, StoredIs
<1>6. events' = [events EXCEPT ![e] = doc]
  BY <1>3, <1>4, <1>5
<1>7. doc \in Event /\ doc.given = ev.given
  <2>1. events[e] \in Event
    BY <1>2, DocIs
  <2> QED
    BY <1>3, <2>1, WithGivenTypes
<1>8. archives' \in SUBSET DOMAIN events
  BY <1>1, <1>2 DEF TypeInv
<1> HIDE DEF doc, e, ev
<1>9. WhenEnds(doc.given)
  BY <1>2, <1>7
<1> QED
  BY <1>1, <1>2, <1>6, <1>7, <1>8, <1>9, WriteTypes DEF doc, e, ev

LEMMA PlanTypes ==
  ASSUME TypeInv, NEW r \in Reqs, Plan(r)
  PROVE  /\ TypeInv' /\ At(r, "plan") /\ UNCHANGED <<channels, posts, events, crossed, faults>>
         /\ \/ Ended(r)
            \/ Turned(r, "notify", TRUE) /\ reqs[r].ev.given.policy = "daily"
            \/ Turned(r, "notify", FALSE)
<1> DEFINE failed == Excessive(reqs[r].ev.given)
<1>1. At(r, "plan") /\ InDatabase /\ UNCHANGED <<events, archives>> /\ Instead(r, Told(r), failed)
  BY DEF Plan
<1>2. Quiet /\ ProviderOK' /\ faults' \in Nat /\ UNCHANGED <<channels, posts, crossed, faults>>
  BY <1>1, InDatabaseIs
<1>3. reqs[r].op = "new" /\ reqs[r].ev \in Event
  BY <1>1, MadeIs DEF Made
<1>4. \/ Instead(r, Told(r), TRUE) /\ reqs[r].ev.given.policy = "daily"
      \/ Instead(r, Told(r), FALSE)
  <2>1. CASE failed
    <3>1. failed = TRUE
      BY <2>1 DEF Excessive
    <3> QED
      BY <1>1, <2>1, <3>1 DEF Excessive
  <2>2. CASE ~failed
    <3>1. failed = FALSE
      BY <2>2 DEF Excessive
    <3> QED
      BY <1>1, <3>1
  <2> QED
    BY <2>1, <2>2
<1>5. RequestsOK /\ DOMAIN events' = DOMAIN events
  BY <1>1 DEF TypeInv
<1>6. \/ Ended(r)
      \/ Turned(r, "notify", TRUE) /\ reqs[r].ev.given.policy = "daily"
      \/ Turned(r, "notify", FALSE)
  BY <1>3, <1>4, <1>5, ToldIs
<1>7. RequestsOK'
  <2>1. CASE Ended(r)
    BY <1>5, <2>1, EndedOK
  <2>2. CASE Turned(r, "notify", TRUE) \/ Turned(r, "notify", FALSE)
    BY <1>1, <1>3, <1>5, <2>2, TurnedOK
  <2> QED
    BY <1>6, <2>1, <2>2
<1>8. EventsOK' /\ archives' \in SUBSET DOMAIN events'
  BY <1>1 DEF TypeInv, EventsOK
<1>9. TypeInv'
  BY <1>1, <1>2, <1>5, <1>7, <1>8, StepTypes
<1> QED
  BY <1>1, <1>2, <1>6, <1>9

LEMMA NotifyTypes ==
  ASSUME TypeInv, NEW r \in Reqs, Notify(r)
  PROVE  /\ TypeInv' /\ At(r, "notify") /\ Ended(r)
         /\ UNCHANGED <<channels, posts, events, crossed>> /\ faults' \in {faults, faults + 1}
<1>1. /\ At(r, "notify") /\ Quiet /\ UNCHANGED <<providerVars, events, archives>>
      /\ GoOn(r, reqs[r].ev) /\ faults' \in {faults, faults + 1}
  BY DEF Notify, Answered, Failed
<1>2. RequestOK(reqs[r], DOMAIN events) /\ CallOf(reqs[r]) = "notify" /\ reqs[r].op # "none"
  BY <1>1, AtIs DEF TypeInv
<1>3. reqs[r].ev \in Event
  BY <1>2 DEF RequestOK, HasRead
<1>4. Advanced(r, reqs[r].ev)
  BY <1>1, <1>3, GoOnIs DEF TypeInv
<1>5. Ended(r)
  <2>1. CallOf(reqs'[r]) = "none"
    BY <1>2, <1>4 DEF Advanced, NextCalls
  <2> QED
    BY <1>4, <2>1 DEF Advanced, Ended
<1>6. /\ RequestsOK' /\ EventsOK' /\ archives' \in SUBSET DOMAIN events' /\ faults' \in Nat
      /\ DOMAIN events' = DOMAIN events /\ ProviderOK'
  BY <1>1, <1>5, EndedOK DEF TypeInv, EventsOK, ProviderOK, providerVars
<1>7. TypeInv'
  BY <1>1, <1>6, StepTypes
<1> QED
  BY <1>1, <1>5, <1>7 DEF providerVars, Quiet

LEMMA AppliedTypes ==
  ASSUME NEW g \in Given, NEW c \in Change
  PROVE  Applied(g, c) \in Given
BY NeverIs DEF Applied, Given, Change

\* r has changed the event it has read and stored that, or it may not.
LEMMA EditEventTypes ==
  ASSUME TypeInv, NEW r \in Reqs, EditEvent(r)
  PROVE  /\ TypeInv' /\ At(r, "edit") /\ UNCHANGED <<channels, posts, crossed, faults>>
         /\ \/ Ended(r) /\ UNCHANGED events
            \/ LET old == reqs[r].ev
                   given == Applied(old.given, reqs[r].change)
               IN  /\ Wrote(reqs[r].event, WithGiven(events[reqs[r].event], given, old.open))
                   /\ Advanced(r, WithGiven(old, given, old.open)) /\ old.open
<1> DEFINE e == reqs[r].event
           old == reqs[r].ev
           given == Applied(old.given, reqs[r].change)
           ev == [old EXCEPT !.given = given]
           doc == WithGiven(events[e], given, old.open)
           new == WithGiven(old, given, old.open)
<1>1. At(r, "edit") /\ InDatabase /\ UNCHANGED archives
  BY DEF EditEvent
<1>2. /\ reqs[r] \in Request /\ RequestOK(reqs[r], DOMAIN events) /\ CallOf(reqs[r]) = "edit"
      /\ reqs[r].op # "none"
  BY <1>1, AtIs DEF TypeInv
<1>3. e \in DOMAIN events /\ reqs[r].change \in Change /\ old \in Event
  BY <1>1, <1>2, CallIs DEF Request
<1>4. given \in Given /\ old.open \in BOOLEAN /\ events[e] \in Event
  BY <1>3, DocIs, AppliedTypes DEF Event
<1> HIDE DEF given
<1>5. CASE MayManage(r) /\ old.open /\ WhenEnds(ev.given)
  <2>1. Stored(e, ev) /\ GoOn(r, ev)
    BY <1>5 DEF EditEvent, given
  <2>2. ev.given = given /\ ev.open = old.open
    BY <1>3 DEF Event
  <2>3. ev = new
    <3>1. new = [ev EXCEPT !.open = old.open]
      BY DEF WithGiven
    <3>2. ev \in Event
      BY <1>3, <1>4 DEF Event
    <3> HIDE DEF ev
    <3>3. [ev EXCEPT !.open = ev.open] = ev
      BY <3>2 DEF Event
    <3> QED
      BY <2>2, <3>1, <3>3
  <2>4. doc \in Event /\ doc.given = given /\ WhenEnds(given) /\ new \in Event
    BY <1>3, <1>4, <1>5, <2>2, WithGivenTypes
  <2>5. events' = [events EXCEPT ![e] = WithGiven(events[e], ev.given, ev.open)]
    BY <1>3, <2>1, StoredIs
  <2>6. events' = [events EXCEPT ![e] = doc]
    BY <2>2, <2>5
  <2>7. archives' \in SUBSET DOMAIN events
    BY <1>1 DEF TypeInv
  <2> HIDE DEF doc, ev, new
  <2>8. GoOn(r, new) /\ WhenEnds(doc.given) /\ "edit" \notin Made
    BY <2>1, <2>3, <2>4 DEF Made
  <2>9. /\ TypeInv' /\ Advanced(r, new) /\ Wrote(e, doc)
        /\ UNCHANGED <<channels, posts, crossed, faults>>
    BY <1>1, <1>3, <2>4, <2>6, <2>7, <2>8, WriteTypes
  <2> QED
    BY <1>1, <1>5, <2>9 DEF doc, new, given
<1>6. CASE ~(MayManage(r) /\ old.open /\ WhenEnds(ev.given))
  <2>1. Instead(r, << >>, TRUE) /\ UNCHANGED events
    BY <1>6 DEF EditEvent, given
  <2>2. Ended(r) /\ DOMAIN events' = DOMAIN events
    BY <2>1, EndIs DEF TypeInv
  <2>3. Quiet /\ ProviderOK' /\ faults' \in Nat /\ UNCHANGED <<channels, posts, crossed, faults>>
    BY <1>1, InDatabaseIs
  <2>4. RequestsOK' /\ EventsOK' /\ archives' \in SUBSET DOMAIN events'
    BY <1>1, <2>1, <2>2, EndedOK DEF TypeInv, EventsOK
  <2>5. TypeInv'
    BY <2>2, <2>3, <2>4, StepTypes
  <2> QED
    BY <1>1, <2>1, <2>2, <2>3, <2>5
<1> QED
  BY <1>5, <1>6

LEMMA CloseEventTypes ==
  ASSUME TypeInv, NEW r \in Reqs, CloseEvent(r)
  PROVE  /\ TypeInv' /\ At(r, "close") /\ UNCHANGED <<channels, posts, crossed, faults>>
         /\ \/ Ended(r) /\ UNCHANGED events
            \/ LET old == reqs[r].ev IN
               /\ Wrote(reqs[r].event, WithGiven(events[reqs[r].event], old.given, FALSE))
               /\ Advanced(r, WithGiven(old, old.given, FALSE)) /\ old.open
<1> DEFINE e == reqs[r].event
           old == reqs[r].ev
           ev == [old EXCEPT !.open = FALSE]
           doc == WithGiven(events[e], old.given, FALSE)
           new == WithGiven(old, old.given, FALSE)
<1>1. At(r, "close") /\ InDatabase /\ UNCHANGED archives
  BY DEF CloseEvent
<1>2. /\ reqs[r] \in Request /\ RequestOK(reqs[r], DOMAIN events) /\ CallOf(reqs[r]) = "close"
      /\ reqs[r].op # "none"
  BY <1>1, AtIs DEF TypeInv
<1>3. e \in DOMAIN events /\ events[e] \in Event
  BY <1>1, CallIs, DocIs
<1>4. old \in Event /\ old.given \in Given /\ WhenEnds(old.given)
  BY <1>1, <1>2, CallIs DEF RequestOK, Event
<1>5. CASE MayManage(r) /\ old.open
  <2>1. Stored(e, ev) /\ GoOn(r, ev)
    BY <1>5 DEF CloseEvent
  <2>2. ev.given = old.given
    BY <1>4 DEF Event
  <2>3. ev.open = FALSE
    BY <1>4, Zenon DEF Event
  <2>4. ev = new
    BY <1>4 DEF WithGiven, Event
  <2>5. doc \in Event /\ doc.given = old.given /\ new \in Event
    BY <1>3, <1>4, WithGivenTypes
  <2>6. events' = [events EXCEPT ![e] = WithGiven(events[e], ev.given, ev.open)]
    BY <1>3, <2>1, StoredIs
  <2> HIDE DEF ev
  <2>7. events' = [events EXCEPT ![e] = doc]
    BY <2>2, <2>3, <2>6
  <2>8. archives' \in SUBSET DOMAIN events
    BY <1>1 DEF TypeInv
  <2> HIDE DEF doc, new
  <2>9. GoOn(r, new) /\ WhenEnds(doc.given) /\ "close" \notin Made
    BY <1>4, <2>1, <2>4, <2>5 DEF Made
  <2>10. /\ TypeInv' /\ Advanced(r, new) /\ Wrote(e, doc)
         /\ UNCHANGED <<channels, posts, crossed, faults>>
    BY <1>1, <1>3, <2>5, <2>7, <2>8, <2>9, WriteTypes
  <2> QED
    BY <1>1, <1>5, <2>10 DEF doc, new
<1>6. CASE ~(MayManage(r) /\ old.open)
  <2>1. Instead(r, << >>, TRUE) /\ UNCHANGED events
    BY <1>6 DEF CloseEvent
  <2>2. Ended(r) /\ DOMAIN events' = DOMAIN events
    BY <2>1, EndIs DEF TypeInv
  <2>3. Quiet /\ ProviderOK' /\ faults' \in Nat /\ UNCHANGED <<channels, posts, crossed, faults>>
    BY <1>1, InDatabaseIs
  <2>4. RequestsOK' /\ EventsOK' /\ archives' \in SUBSET DOMAIN events'
    BY <1>1, <2>1, <2>2, EndedOK DEF TypeInv, EventsOK
  <2>5. TypeInv'
    BY <2>2, <2>3, <2>4, StepTypes
  <2> QED
    BY <1>1, <2>1, <2>2, <2>3, <2>5
<1> QED
  BY <1>5, <1>6

LEMMA EnqueueArchiveTypes ==
  ASSUME TypeInv, NEW r \in Reqs, EnqueueArchive(r)
  PROVE  /\ TypeInv' /\ At(r, "enqueue_archive") /\ Advanced(r, reqs[r].ev)
         /\ UNCHANGED <<channels, posts, events, crossed, faults>>
<1>1. /\ At(r, "enqueue_archive") /\ InDatabase /\ UNCHANGED events /\ GoOn(r, reqs[r].ev)
      /\ archives' = archives \cup (IF reqs[r].ev.channel = None THEN {} ELSE {reqs[r].event})
  BY DEF EnqueueArchive
<1>2. Quiet /\ ProviderOK' /\ faults' \in Nat /\ UNCHANGED <<channels, posts, crossed, faults>>
  BY <1>1, InDatabaseIs
<1>3. reqs[r].event \in DOMAIN events /\ reqs[r].ev \in Event
  BY <1>1, CallIs
<1>4. EventsOK' /\ archives' \in SUBSET DOMAIN events' /\ DOMAIN events' = DOMAIN events
  BY <1>1, <1>3 DEF TypeInv, EventsOK
<1>5. TypeInv' /\ Advanced(r, reqs[r].ev)
  BY <1>1, <1>2, <1>3, <1>4, AdvanceTypes
<1> QED
  BY <1>1, <1>2, <1>5

LEMMA ArchiveTypes ==
  ASSUME TypeInv, NEW r \in Reqs, Archive(r)
  PROVE  /\ TypeInv' /\ At(r, "archive") /\ UNCHANGED <<posts, events, crossed>>
         /\ DOMAIN channels' = DOMAIN channels
         /\ \A c \in DOMAIN channels : channels'[c].name = channels[c].name
         /\ \/ Advanced(r, reqs[r].ev) /\ UNCHANGED faults
            \/ Ended(r) /\ faults' = faults + 1
<1> DEFINE c == reqs[r].ev.channel
<1>1. /\ At(r, "archive") /\ Quiet /\ UNCHANGED <<events, archives>>
      /\ \/ ArchiveChannel(c) /\ faults' = faults /\ GoOn(r, reqs[r].ev)
         \/ ArchiveChannel(c) /\ faults' = faults + 1 /\ Instead(r, << >>, TRUE)
         \/ UNCHANGED providerVars /\ faults' = faults + 1 /\ Instead(r, << >>, TRUE)
  BY DEF Archive, Answered, Failed
<1> HIDE DEF c
<1>2. reqs[r].ev \in Event
  BY <1>1, CallIs
<1>3. /\ ProviderOK' /\ UNCHANGED posts /\ DOMAIN channels' = DOMAIN channels
      /\ \A d \in DOMAIN channels : channels'[d].name = channels[d].name
  <2>1. ProviderOK
    BY DEF TypeInv
  <2>2. CASE ArchiveChannel(c)
    BY <2>1, <2>2, ArchiveIs
  <2>3. CASE UNCHANGED providerVars
    BY <2>1, <2>3 DEF ProviderOK, providerVars
  <2> QED
    BY <1>1, <2>2, <2>3
<1>4. /\ EventsOK' /\ archives' \in SUBSET DOMAIN events' /\ DOMAIN events' = DOMAIN events
      /\ faults' \in Nat /\ UNCHANGED crossed
  <2>1. faults \in Nat /\ (faults' = faults \/ faults' = faults + 1)
    BY <1>1 DEF TypeInv
  <2>2. UNCHANGED <<events, archives, crossed>>
    BY <1>1 DEF Quiet
  <2> QED
    BY <2>1, <2>2 DEF TypeInv, EventsOK
<1>5. CASE faults' = faults /\ GoOn(r, reqs[r].ev)
  <2>1. "archive" \notin Made
    BY DEF Made
  <2>2. TypeInv' /\ Advanced(r, reqs[r].ev)
    BY <1>1, <1>2, <1>3, <1>4, <1>5, <2>1, AdvanceTypes
  <2> QED
    BY <1>1, <1>3, <1>4, <1>5, <2>2
<1>6. CASE faults' = faults + 1 /\ Instead(r, << >>, TRUE)
  <2>1. Ended(r)
    BY <1>6, EndIs DEF TypeInv
  <2>2. RequestsOK'
    BY <1>4, <2>1, EndedOK DEF TypeInv
  <2>3. TypeInv'
    BY <1>1, <1>3, <1>4, <2>2, StepTypes
  <2> QED
    BY <1>1, <1>3, <1>4, <1>6, <2>1, <2>3
<1> QED
  BY <1>1, <1>5, <1>6

\* The event whose channel has been archived.
WithArchived(ev) == [ev EXCEPT !.archived = TRUE]

LEMMA WithArchivedTypes ==
  ASSUME NEW ev \in Event
  PROVE  LET new == WithArchived(ev) IN
         /\ new \in Event /\ new.given = ev.given /\ new.open = ev.open
         /\ new.channel = ev.channel /\ new.refs = ev.refs
<1> DEFINE new == WithArchived(ev)
<1>1. new \in Event /\ new.given = ev.given /\ new.channel = ev.channel /\ new.refs = ev.refs
  BY DEF WithArchived, Event
<1>2. new.open = ev.open
  BY DEF WithArchived, Event
<1> QED
  BY <1>1, <1>2

LEMMA SetArchivedTypes ==
  ASSUME TypeInv, NEW r \in Reqs, SetArchived(r)
  PROVE  /\ TypeInv' /\ At(r, "set_archived") /\ Advanced(r, reqs[r].ev)
         /\ Wrote(reqs[r].event, WithArchived(events[reqs[r].event]))
         /\ UNCHANGED <<channels, posts, crossed, faults>>
<1> DEFINE e == reqs[r].event
           doc == WithArchived(events[e])
<1>1. /\ At(r, "set_archived") /\ InDatabase /\ GoOn(r, reqs[r].ev)
      /\ events' = [events EXCEPT ![e] = doc] /\ archives' = archives \ {e}
  BY DEF SetArchived, WithArchived
<1>2. e \in DOMAIN events /\ reqs[r].ev \in Event
  BY <1>1, CallIs
<1>3. events[e] \in Event /\ WhenEnds(events[e].given)
  BY <1>2, DocIs
<1>4. doc \in Event /\ doc.given = events[e].given
  BY <1>3, WithArchivedTypes
<1>5. archives' \in SUBSET DOMAIN events
  BY <1>1 DEF TypeInv
<1> HIDE DEF doc, e
<1>6. "set_archived" \notin Made
  BY DEF Made
<1> QED
  BY <1>1, <1>2, <1>3, <1>4, <1>5, <1>6, WriteTypes DEF doc, e

\* A post of the creation: it is made, or the creation gives up.
PostMade(r, ref, m) ==
  \E id :
    /\ Touches(id, NewPost(m), reqs[r].event)
    /\ id # NoPost => id \in Int \X Nat /\ ~IsPost(id) /\ IsPost(id)'
    /\ \/ Going(r, WithRef(reqs[r].ev, ref, id)) /\ id # NoPost
       \/ Aborted(r) /\ faults' = faults + 1

LEMMA PostAnnouncementTypes ==
  ASSUME TypeInv, NEW r \in Reqs, PostAnnouncement(r)
  PROVE  /\ TypeInv' /\ At(r, "post_announcement") /\ UNCHANGED channels
         /\ PostMade(r, "announcement", Announcement(reqs[r].event, reqs[r].ev))
<1> DEFINE m == Announcement(reqs[r].event, reqs[r].ev)
           c == reqs[r].ev.origin
<1>1. /\ At(r, "post_announcement") /\ Quiet /\ UNCHANGED <<events, archives>>
      /\ Posted(r, "announcement", c, m)
  BY DEF PostAnnouncement
<1>2. "post_announcement" \in Made /\ "announcement" \in RefNames
  BY DEF Made, RefNames
<1>3. reqs[r].event \in Nat /\ reqs[r].ev \in Event
  BY <1>1, CallIs
<1>4. m \in Messages /\ m.event = reqs[r].event
  BY <1>3, MessagesAre
<1>5. c \in DOMAIN posts
  <2>1. c \in Rooms
    BY <1>3, DispatcherAssumption DEF Event
  <2> QED
    BY <2>1 DEF TypeInv, ProviderOK
<1> HIDE DEF m, c
<1> QED
  BY <1>1, <1>2, <1>4, <1>5, PostedTypes DEF m, PostMade

\* There is no room to recruit in.
SkipsRecruit(r) == reqs[r].recruit \in {None, reqs[r].ev.origin}

LEMMA PostRecruitTypes ==
  ASSUME TypeInv, NEW r \in Reqs, PostRecruit(r)
  PROVE  /\ TypeInv' /\ At(r, "post_recruit") /\ UNCHANGED channels
         /\ \/ Going(r, reqs[r].ev) /\ UNCHANGED <<posts, faults>>
            \/ PostMade(r, "recruit", Announcement(reqs[r].event, reqs[r].ev))
<1> DEFINE m == Announcement(reqs[r].event, reqs[r].ev)
           c == reqs[r].recruit
           call == "post_recruit"
<1>1. At(r, call) /\ Quiet /\ UNCHANGED <<events, archives>>
  BY DEF PostRecruit
<1>2. call \in Made /\ "recruit" \in RefNames /\ call # "insert"
  BY DEF Made, RefNames
<1>3. reqs[r].event \in Nat /\ reqs[r].ev \in Event /\ reqs[r] \in Request
  BY <1>1, CallIs
<1>4. CASE SkipsRecruit(r)
  <2>1. GoOn(r, reqs[r].ev) /\ UNCHANGED <<providerVars, faults>>
    BY <1>4 DEF PostRecruit, SkipsRecruit
  <2>2. /\ EventsOK' /\ archives' \in SUBSET DOMAIN events' /\ DOMAIN events' = DOMAIN events
        /\ faults' \in Nat /\ ProviderOK' /\ UNCHANGED <<channels, posts, crossed>>
    BY <1>1, <2>1 DEF TypeInv, EventsOK, Quiet, ProviderOK, providerVars
  <2>3. TypeInv' /\ Advanced(r, reqs[r].ev)
    BY <1>1, <1>2, <1>3, <2>1, <2>2, AdvanceTypes
  <2> QED
    BY <1>1, <2>1, <2>2, <2>3 DEF Going
<1>5. CASE ~SkipsRecruit(r)
  <2>1. Posted(r, "recruit", c, m)
    BY <1>5 DEF PostRecruit, SkipsRecruit
  <2>2. m \in Messages /\ m.event = reqs[r].event
    BY <1>3, MessagesAre
  <2>3. c \in DOMAIN posts
    BY <1>3, <1>5 DEF TypeInv, ProviderOK, SkipsRecruit, Request
  <2> HIDE DEF m, c
  <2> QED
    BY <1>1, <1>2, <2>1, <2>2, <2>3, PostedTypes DEF m, PostMade
<1> QED
  BY <1>4, <1>5

LEMMA PostSummaryTypes ==
  ASSUME TypeInv, RefInv, NEW r \in Reqs, PostSummary(r)
  PROVE  /\ TypeInv' /\ At(r, "post_summary") /\ UNCHANGED channels
         /\ PostMade(r, "summary", Summary(reqs[r].event, reqs[r].ev))
<1> DEFINE m == Summary(reqs[r].event, reqs[r].ev)
           c == reqs[r].ev.channel
           call == "post_summary"
<1>1. /\ At(r, call) /\ Quiet /\ UNCHANGED <<events, archives>>
      /\ Posted(r, "summary", c, m)
  BY DEF PostSummary
<1>2. call \in Made /\ "summary" \in RefNames
  BY DEF Made, RefNames
<1>3. reqs[r].event \in Nat /\ reqs[r].ev \in Event /\ CallOf(reqs[r]) = call
  BY <1>1, CallIs
<1>4. m \in Messages /\ m.event = reqs[r].event
  BY <1>3, MessagesAre
<1>5. c \in DOMAIN posts
  <2>1. c # None
    BY <1>2, <1>3 DEF RefInv, RequestInv, Progress
  <2>2. c \in DOMAIN channels \cup {None}
    BY <1>1, RefKnown
  <2> QED
    BY <2>1, <2>2 DEF TypeInv, ProviderOK
<1> HIDE DEF m, c
<1> QED
  BY <1>1, <1>2, <1>4, <1>5, PostedTypes DEF m, PostMade

-----------------------------------------------------------------------------
(* What a request knows stays true.                                        *)

DocsGrow ==
  /\ DOMAIN events \subseteq DOMAIN events'
  /\ \A e \in DOMAIN events :
       /\ events[e].channel # None => events'[e].channel # None
       /\ events[e].refs.announcement # NoPost => events'[e].refs.announcement # NoPost
       /\ events[e].refs.summary # NoPost => events'[e].refs.summary # NoPost

ChannelsGrow ==
  /\ DOMAIN channels \subseteq DOMAIN channels'
  /\ \A c \in DOMAIN channels : channels'[c].name = channels[c].name

\* The posts that are not about e are what they were.
PostsGrow(e) ==
  /\ \A id, d, kind : RefersTo(posts, id, d, kind) => RefersTo(posts', id, d, kind)
  /\ \A c \in DOMAIN posts' : \A n \in DOMAIN posts'[c] :
       \/ posts'[c][n].message.event = e
       \/ c \in DOMAIN posts /\ n \in DOMAIN posts[c] /\ posts'[c][n] = posts[c][n]

LEMMA TouchGrows ==
  ASSUME NEW id, NEW post, NEW e, Touches(id, post, e)
  PROVE  PostsGrow(e)
<1>1. ASSUME NEW i, NEW d, NEW kind, RefersTo(posts, i, d, kind)
      PROVE  RefersTo(posts', i, d, kind)
  <2>1. PICK c, n : i = <<c, n>> /\ i \in Int \X Nat
    BY <1>1 DEF RefersTo
  <2>2. /\ c \in DOMAIN posts /\ n \in DOMAIN posts[c]
        /\ posts[c][n].message.event = d /\ posts[c][n].message.kind = kind
    BY <1>1, <2>1 DEF RefersTo
  <2>3. c \in DOMAIN posts' /\ n \in DOMAIN posts'[c]
    BY <2>2 DEF Touches, Effect
  <2>4. posts'[c][n].message.event = d /\ posts'[c][n].message.kind = kind
    <3>1. CASE i = id
      <4>1. posts'[c][n] = post /\ id # NoPost
        BY <2>1, <2>3, <3>1, NoPostIs DEF Touches, Effect
      <4>2. IsPost(id) /\ PostOf(id) = posts[c][n]
        BY <2>1, <2>2, <3>1 DEF IsPost, PostOf
      <4> QED
        BY <2>2, <4>1, <4>2 DEF Touches
    <3>2. CASE i # id
      <4>1. posts'[c][n] = posts[c][n]
        BY <2>1, <2>3, <3>2 DEF Touches, Effect
      <4> QED
        BY <2>2, <4>1
    <3> QED
      BY <3>1, <3>2
  <2> QED
    BY <2>1, <2>3, <2>4 DEF RefersTo
<1>2. ASSUME NEW c \in DOMAIN posts', NEW n \in DOMAIN posts'[c]
      PROVE  \/ posts'[c][n].message.event = e
             \/ c \in DOMAIN posts /\ n \in DOMAIN posts[c] /\ posts'[c][n] = posts[c][n]
  BY NoPostIs DEF Touches, Effect
<1> QED
  BY <1>1, <1>2 DEF PostsGrow

LEMMA SameGrows ==
  /\ UNCHANGED events => DocsGrow
  /\ UNCHANGED channels => ChannelsGrow
  /\ UNCHANGED posts => \A e : PostsGrow(e)
BY DEF DocsGrow, ChannelsGrow, PostsGrow

LEMMA RefsKept ==
  ASSUME NEW e, PostsGrow(e), NEW d, NEW refs, RefsOK(posts, d, refs)
  PROVE  RefsOK(posts', d, refs)
BY DEF PostsGrow, RefsOK

LEMMA CallOfIs ==
  ASSUME NEW req \in Request, NEW ids, RequestOK(req, ids), CallOf(req) # "none"
  PROVE  CallOf(req) \in CallsOf(req.op) /\ req.op # "none" /\ req.op \in Ops
<1>1. /\ req.todo \in Seq(Calls) /\ req.todo # << >> /\ CallOf(req) = Head(req.todo)
      /\ req.op \in Ops
  BY DEF CallOf, Request
<1>2. CallOf(req) \in CallsOf(req.op)
  BY <1>1, TodoLemma DEF RequestOK, InOrder, InPlace
<1>3. req.op # "none"
  BY <1>2 DEF CallsOf, Ops
<1> QED
  BY <1>1, <1>2, <1>3

LEMMA RequestKnows ==
  ASSUME NEW req \in Request, RequestOK(req, DOMAIN events),
         RequestInv(req, events, channels, posts), DocsGrow, ChannelsGrow, NEW e, PostsGrow(e)
  PROVE  RequestInv(req, events', channels', posts')
<1>1. ReadTrue(req, channels', posts')
  BY RefsKept DEF RequestInv, ReadTrue, ChannelsGrow
<1>2. TriedNames(req, channels) => TriedNames(req, channels')
  BY DEF TriedNames, ChannelsGrow
<1>3. Complete(req.event, events) => Complete(req.event, events')
  BY DEF Complete, DocsGrow
<1>4. CallOf(req) \in Made => req.event \in DOMAIN events
  <2>1. CallOf(req) \in Made => CallOf(req) \notin {"none", "insert", "notify"}
    BY DEF Made
  <2> QED
    BY <2>1, CallOfIs DEF RequestOK, AboutEvent
<1>5. CallOf(req) \in Made \ {"create_channel", "set_channel"} => events'[req.event].channel # None
  BY <1>4 DEF RequestInv, Progress, DocsGrow
<1> QED
  BY <1>1, <1>2, <1>3, <1>5 DEF RequestInv, Progress

LEMMA IdleKnows == \A docs, chans, ps : RequestInv(Idle, docs, chans, ps)
<1>1. CallOf(Idle) = "none" /\ ~HasRead(Idle)
  BY IdleIs DEF HasRead
<1> QED
  BY <1>1 DEF RequestInv, ReadTrue, Progress, Made

LEMMA DocsKnown ==
  ASSUME NEW e, PostsGrow(e), ChannelsGrow, NEW d, NEW ev, EventInv(d, ev, channels, posts)
  PROVE  EventInv(d, ev, channels', posts')
BY RefsKept DEF EventInv, ChannelsGrow

\* The rest of the invariant, after a step of r about event e.
LEMMA RefInvStep ==
  ASSUME TypeInv, RefInv, NEW r \in Reqs, Moved(r), DocsGrow, ChannelsGrow,
         NEW e \in DOMAIN events' \cup {None}, PostsGrow(e), e = None => UNCHANGED posts,
         \A d \in DOMAIN events' : EventInv(d, events'[d], channels', posts'),
         RequestInv(reqs'[r], events', channels', posts')
  PROVE  RefInv'
<1>1. ASSUME NEW c \in DOMAIN posts', NEW n \in DOMAIN posts'[c]
      PROVE  PostInv(posts'[c][n], events')
  <2>1. CASE c \in DOMAIN posts /\ n \in DOMAIN posts[c] /\ posts'[c][n] = posts[c][n]
    BY <2>1 DEF RefInv, PostInv, DocsGrow
  <2>2. CASE posts'[c][n].message.event = e /\ e # None
    BY <2>2 DEF PostInv
  <2>3. CASE e = None
    BY <2>1, <2>3
  <2> QED
    BY <2>1, <2>2, <2>3 DEF PostsGrow
<1>2. ASSUME NEW q \in Reqs
      PROVE  RequestInv(reqs'[q], events', channels', posts')
  <2>1. CASE q = r
    BY <2>1
  <2>2. CASE q # r
    <3>1. reqs'[q] = reqs[q] /\ reqs[q] \in Request /\ RequestOK(reqs[q], DOMAIN events)
      BY <2>2 DEF Moved, TypeInv, RequestsOK
    <3>2. RequestInv(reqs[q], events, channels, posts)
      BY DEF RefInv
    <3>3. RequestInv(reqs[q], events', channels', posts')
      BY <3>1, <3>2, RequestKnows
    <3> QED
      BY <3>1, <3>3
  <2> QED
    BY <2>1, <2>2
<1> QED
  BY <1>1, <1>2 DEF RefInv

LEMMA AdvancedKnows ==
  ASSUME NEW r \in Reqs, NEW ev, Advanced(r, ev),
         RefsOK(posts', reqs[r].event, ev.refs), ev.channel \in DOMAIN channels' \cup {None},
         reqs'[r] # Idle => Progress(reqs'[r], events', channels')
  PROVE  RequestInv(reqs'[r], events', channels', posts')
<1>1. CASE reqs'[r] = Idle
  BY <1>1, IdleKnows
<1>2. CASE reqs'[r] # Idle
  BY <1>2 DEF Advanced, RequestInv, ReadTrue, SameRequest
<1> QED
  BY <1>1, <1>2

LEMMA EndedKnows ==
  ASSUME NEW r \in Reqs, Ended(r)
  PROVE  RequestInv(reqs'[r], events', channels', posts')
BY IdleKnows DEF Ended

LEMMA AbortedKnows ==
  ASSUME NEW r \in Reqs, NEW call, At(r, call), TypeInv, RefInv,
         Aborted(r), ChannelsGrow, NEW e, PostsGrow(e)
  PROVE  RequestInv(reqs'[r], events', channels', posts')
<1> DEFINE req == reqs'[r]
<1>1. /\ RefsOK(posts, reqs[r].event, reqs[r].ev.refs)
      /\ reqs[r].ev.channel \in DOMAIN channels \cup {None}
  BY RefKnown
<1>2. /\ RefsOK(posts', reqs[r].event, reqs[r].ev.refs)
      /\ reqs[r].ev.channel \in DOMAIN channels' \cup {None}
  BY <1>1, RefsKept DEF ChannelsGrow
<1>3. CallOf(req) = "cancel" /\ req.failed /\ req.ev = reqs[r].ev /\ req.event = reqs[r].event
  BY DEF Aborted, Turned, SameRequest
<1> HIDE DEF req
<1>4. ReadTrue(req, channels', posts')
  BY <1>2, <1>3 DEF ReadTrue
<1>5. Progress(req, events', channels')
  BY <1>3 DEF Progress, Made
<1> QED
  BY <1>4, <1>5 DEF RequestInv, req

\* What r knows of its creation.
LEMMA AtProgress ==
  ASSUME RefInv, TypeInv, NEW r \in Reqs, NEW call, At(r, call)
  PROVE  Progress(reqs[r], events, channels) /\ CallOf(reqs[r]) = call
BY AtIs DEF RefInv, RequestInv, TypeInv

\* The documents are what they were, but the one of event e.
LEMMA WroteKnows ==
  ASSUME TypeInv, RefInv, NEW e \in DOMAIN events, NEW doc, Wrote(e, doc),
         UNCHANGED <<channels, posts>>, EventInv(e, doc, channels, posts),
         events[e].channel # None => doc.channel # None,
         events[e].refs.announcement # NoPost => doc.refs.announcement # NoPost,
         events[e].refs.summary # NoPost => doc.refs.summary # NoPost
  PROVE  /\ DocsGrow /\ ChannelsGrow /\ PostsGrow(None)
         /\ \A d \in DOMAIN events' : EventInv(d, events'[d], channels', posts')
<1>1. ChannelsGrow /\ PostsGrow(None)
  BY SameGrows
<1>2. DocsGrow
  BY DEF DocsGrow, Wrote
<1>3. ASSUME NEW d \in DOMAIN events'
      PROVE  EventInv(d, events'[d], channels', posts')
  <2>1. EventInv(d, events'[d], channels, posts)
    BY DEF RefInv, Wrote
  <2> QED
    BY <2>1
<1> QED
  BY <1>1, <1>2, <1>3

LEMMA SameDocsKnown ==
  ASSUME RefInv, UNCHANGED events, NEW e, PostsGrow(e), ChannelsGrow
  PROVE  \A d \in DOMAIN events' : EventInv(d, events'[d], channels', posts')
<1>1. \A d \in DOMAIN events : EventInv(d, events[d], channels, posts)
  BY DEF RefInv
<1>2. \A d \in DOMAIN events : EventInv(d, events[d], channels', posts')
  BY <1>1, DocsKnown
<1> QED
  BY <1>2

LEMMA InsertEventKnows ==
  ASSUME TypeInv, RefInv, NEW r \in Reqs, InsertEvent(r)
  PROVE  RefInv'
<1> DEFINE ev == reqs[r].ev
           req == reqs'[r]
<1>1. /\ At(r, "insert") /\ UNCHANGED <<channels, posts>>
      /\ \/ Inserted(r)
         \/ UNCHANGED events /\ (Ended(r) \/ Turned(r, "notify", TRUE))
  BY InsertEventTypes
<1>2. /\ ev.channel = None /\ ev.refs = NoRefs /\ ~reqs[r].failed /\ reqs[r].attempt = 1
  BY <1>1, AtProgress DEF Progress
<1>3. ChannelsGrow /\ PostsGrow(None)
  BY <1>1, SameGrows
<1>4. \A d : RefsOK(posts', d, ev.refs)
  BY <1>2 DEF RefsOK, NoRefs
<1>5. CASE Inserted(r)
  <2>1. PICK e \in Nat \ {0} :
          /\ e \notin DOMAIN events /\ DOMAIN events' = DOMAIN events \cup {e}
          /\ events'[e] = ev /\ \A d \in DOMAIN events : events'[d] = events[d]
          /\ Moved(r) /\ req.event = e /\ CallOf(req) = "create_channel"
          /\ req.attempt = reqs[r].attempt /\ req.ev = ev /\ req.failed = reqs[r].failed
    BY <1>5 DEF Inserted
  <2>2. DocsGrow
    BY <2>1 DEF DocsGrow
  <2>3. ASSUME NEW d \in DOMAIN events'
        PROVE  EventInv(d, events'[d], channels', posts')
    <3>1. CASE d = e
      BY <1>2, <1>4, <2>1, <3>1 DEF EventInv
    <3>2. CASE d \in DOMAIN events
      <4>1. EventInv(d, events[d], channels, posts)
        BY <3>2 DEF RefInv
      <4> QED
        BY <1>3, <2>1, <3>2, <4>1, DocsKnown
    <3> QED
      BY <2>1, <3>1, <3>2
  <2> HIDE DEF req, ev
  <2>4. ReadTrue(req, channels', posts')
    BY <1>2, <1>4, <2>1 DEF ReadTrue
  <2>5. Progress(req, events', channels')
    BY <1>2, <2>1 DEF Progress, TriedNames, Attempts, Made
  <2>6. RequestInv(req, events', channels', posts') /\ None \in DOMAIN events' \cup {None}
    BY <2>4, <2>5 DEF RequestInv
  <2> QED
    BY <1>1, <1>3, <2>1, <2>2, <2>3, <2>6, RefInvStep DEF req
<1>6. CASE UNCHANGED events /\ (Ended(r) \/ Turned(r, "notify", TRUE))
  <2>1. DocsGrow /\ Moved(r)
    BY <1>6, SameGrows DEF Ended, Turned
  <2>2. \A d \in DOMAIN events' : EventInv(d, events'[d], channels', posts')
    BY <1>3, <1>6, SameDocsKnown
  <2>3. RequestInv(reqs'[r], events', channels', posts')
    <3>1. CASE Ended(r)
      BY <3>1, EndedKnows
    <3>2. CASE Turned(r, "notify", TRUE)
      <4>1. CallOf(reqs[r]) = "insert" /\ RequestOK(reqs[r], DOMAIN events)
        BY <1>1, AtIs DEF TypeInv
      <4>2. reqs[r].event = None
        BY <4>1 DEF RequestOK, AboutEvent
      <4>3. /\ req.ev = ev /\ req.event = None /\ req.failed /\ CallOf(req) = "notify"
        BY <3>2, <4>2 DEF Turned, SameRequest
      <4> HIDE DEF req, ev
      <4>4. ReadTrue(req, channels', posts')
        BY <1>2, <1>4, <4>3 DEF ReadTrue
      <4>5. Progress(req, events', channels')
        BY <4>3 DEF Progress, Made
      <4> QED
        BY <4>4, <4>5 DEF RequestInv, req
    <3> QED
      BY <1>6, <3>1, <3>2
  <2> QED
    BY <1>1, <1>3, <2>1, <2>2, <2>3, RefInvStep
<1> QED
  BY <1>1, <1>5, <1>6

\* The steps that change no document.
LEMMA NoDocStep ==
  ASSUME TypeInv, RefInv, NEW r \in Reqs, UNCHANGED events, Moved(r), ChannelsGrow,
         NEW e \in DOMAIN events \cup {None}, PostsGrow(e), e = None => UNCHANGED posts,
         RequestInv(reqs'[r], events', channels', posts')
  PROVE  RefInv'
<1>1. DocsGrow /\ e \in DOMAIN events' \cup {None}
  BY SameGrows
<1>2. \A d \in DOMAIN events' : EventInv(d, events'[d], channels', posts')
  BY SameDocsKnown
<1> QED
  BY <1>1, <1>2, RefInvStep

LEMMA CreateChannelKnows ==
  ASSUME TypeInv, RefInv, NEW r \in Reqs, CreateChannel(r)
  PROVE  RefInv'
<1> DEFINE ev == reqs[r].ev
           req == reqs'[r]
           e == reqs[r].event
<1>1. /\ At(r, "create_channel") /\ UNCHANGED <<events, crossed>> /\ OneChannel
      /\ \/ Retried(r) /\ InUse(r) /\ UNCHANGED <<channels, faults>>
         \/ Aborted(r)
         \/ \E c \in DOMAIN channels' : Going(r, WithChannel(ev, c)) /\ c # None
  BY CreateChannelTypes
<1>2. /\ ev.refs = NoRefs /\ ~reqs[r].failed /\ reqs[r].attempt \in 1..Attempts
      /\ TriedNames(reqs[r], channels) /\ ev.channel = None
  BY <1>1, AtProgress DEF Progress, Made
<1>3. e \in DOMAIN events /\ ev \in Event
  BY <1>1, CallIs
<1>4. ChannelsGrow /\ PostsGrow(e)
  <2>1. \A post : Touches(NoPost, post, e)
    BY <1>1 DEF OneChannel, Touches
  <2> QED
    BY <1>1, <2>1, TouchGrows DEF OneChannel, ChannelsGrow
<1>5. \A d : RefsOK(posts', d, NoRefs)
  BY DEF RefsOK, NoRefs
<1>6. Moved(r)
  BY <1>1 DEF Retried, Aborted, Turned, Going, Advanced
<1>7. RequestInv(req, events', channels', posts')
  <2>1. CASE Retried(r) /\ InUse(r) /\ UNCHANGED channels
    <3>1. /\ CallOf(req) = "create_channel" /\ req.ev = ev /\ req.failed = reqs[r].failed
          /\ reqs[r].attempt < Attempts /\ req.attempt = reqs[r].attempt + 1
      BY <2>1 DEF Retried
    <3> HIDE DEF req
    <3>2. ReadTrue(req, channels', posts')
      BY <1>2, <1>5, <3>1 DEF ReadTrue
    <3>3. TriedNames(req, channels')
      <4> SUFFICES ASSUME NEW n \in 1..req.attempt - 1
                   PROVE  \E c \in DOMAIN channels : channels[c].name = ChannelName(ev, n)
        BY <2>1, <3>1 DEF TriedNames
      <4>1. n \in 1..reqs[r].attempt - 1 \/ n = reqs[r].attempt
        BY <1>2, <3>1
      <4> QED
        BY <1>2, <2>1, <4>1 DEF TriedNames, InUse
    <3>4. req.attempt \in 1..Attempts
      BY <1>2, <3>1 DEF Attempts
    <3>5. Progress(req, events', channels')
      BY <1>2, <3>1, <3>3, <3>4 DEF Progress, Made
    <3> QED
      BY <3>2, <3>5 DEF RequestInv
  <2>2. CASE Aborted(r)
    BY <1>1, <1>4, <2>2, AbortedKnows
  <2>3. CASE \E c \in DOMAIN channels' : Going(r, WithChannel(ev, c)) /\ c # None
    <3>1. PICK c \in DOMAIN channels' : Going(r, WithChannel(ev, c)) /\ c # None
      BY <2>3
    <3> DEFINE new == WithChannel(ev, c)
    <3>2. new.refs = NoRefs /\ new.channel = c
      BY <1>2, <1>3 DEF WithChannel, Event
    <3> HIDE DEF new, ev
    <3>3. Advanced(r, new)
      BY <3>1 DEF Going, new
    <3>4. ASSUME req # Idle
          PROVE  Progress(req, events', channels')
      <4>1. /\ CallOf(req) \in NextCalls(reqs[r].op, "create_channel")
            /\ req.ev = new /\ req.failed = reqs[r].failed
        BY <1>1, <3>3, <3>4, AtProgress DEF Advanced
      <4>2. CallOf(req) = "set_channel"
        BY <4>1 DEF NextCalls
      <4> HIDE DEF req
      <4> QED
        BY <1>2, <3>1, <3>2, <4>1, <4>2 DEF Progress, Made
    <3> QED
      BY <1>5, <3>1, <3>2, <3>3, <3>4, AdvancedKnows
  <2> QED
    BY <1>1, <2>1, <2>2, <2>3
<1> HIDE DEF e
<1>8. e # None
  BY <1>3, EventsAre DEF TypeInv
<1> QED
  BY <1>1, <1>3, <1>4, <1>6, <1>7, <1>8, NoDocStep

LEMMA SetChannelKnows ==
  ASSUME TypeInv, RefInv, NEW r \in Reqs, SetChannel(r)
  PROVE  RefInv'
<1> DEFINE ev == reqs[r].ev
           req == reqs'[r]
           e == reqs[r].event
           doc == WithChannel(events[e], ev.channel)
<1>1. /\ At(r, "set_channel") /\ Advanced(r, ev) /\ Wrote(e, doc) /\ UNCHANGED <<channels, posts>>
  BY SetChannelTypes
<1>2. ev.refs = NoRefs /\ ~reqs[r].failed /\ ev.channel # None
  BY <1>1, AtProgress DEF Progress, Made
<1>3. e \in DOMAIN events /\ ev \in Event /\ ev.channel \in Nat
  BY <1>1, CallIs DEF Event
<1>4. ev.channel \in DOMAIN channels \cup {None}
  BY <1>1, RefKnown
<1>5. /\ doc.refs = events[e].refs /\ doc.channel = ev.channel /\ doc.open = events[e].open
  BY <1>3, DocIs, WithChannelTypes
<1>6. EventInv(e, doc, channels, posts)
  BY <1>3, <1>4, <1>5 DEF RefInv, EventInv
<1> HIDE DEF doc
<1>7. /\ DocsGrow /\ ChannelsGrow /\ PostsGrow(None)
      /\ \A d \in DOMAIN events' : EventInv(d, events'[d], channels', posts')
  BY <1>1, <1>2, <1>3, <1>5, <1>6, WroteKnows
<1>8. RefsOK(posts', e, ev.refs)
  BY <1>2 DEF RefsOK, NoRefs
<1>9. ASSUME req # Idle
      PROVE  Progress(req, events', channels')
  <2>1. /\ CallOf(req) \in NextCalls(reqs[r].op, "set_channel")
        /\ req.ev = ev /\ req.failed = reqs[r].failed /\ req.event = e
    BY <1>1, <1>9, AtProgress DEF Advanced, SameRequest
  <2>2. CallOf(req) = "post_announcement"
    BY <2>1 DEF NextCalls
  <2>3. events'[e].channel # None
    BY <1>1, <1>2, <1>3, <1>5 DEF Wrote
  <2> HIDE DEF req
  <2> QED
    BY <1>2, <2>1, <2>2, <2>3 DEF Progress, Made
<1>10. RequestInv(req, events', channels', posts')
  BY <1>1, <1>4, <1>8, <1>9, AdvancedKnows
<1> QED
  BY <1>1, <1>7, <1>10, RefInvStep DEF Advanced

\* What a new post is.
LEMMA NewPostIs ==
  ASSUME NEW id \in Int \X Nat, NEW m, NEW e, Touches(id, NewPost(m), e), IsPost(id)', id # NoPost
  PROVE  RefersTo(posts', id, e, m.kind) /\ m.event = e
<1>1. PICK c, n : id = <<c, n>>
  OBVIOUS
<1>2. c \in DOMAIN posts' /\ n \in DOMAIN posts'[c]
  BY <1>1 DEF IsPost
<1>3. posts'[c][n] = NewPost(m)
  BY <1>1, <1>2 DEF Touches, Effect
<1>4. NewPost(m).message = m
  BY DEF NewPost
<1> QED
  BY <1>1, <1>2, <1>3, <1>4 DEF RefersTo, Touches

LEMMA WithRefKnown ==
  ASSUME NEW e, PostsGrow(e), NEW ev \in Event, NEW ref \in RefNames, NEW id \in Int \X Nat,
         RefsOK(posts, e, ev.refs),
         RefersTo(posts', id, e, IF ref = "summary" THEN "summary" ELSE "announcement")
  PROVE  RefsOK(posts', e, WithRef(ev, ref, id).refs)
<1> DEFINE new == WithRef(ev, ref, id)
<1>1. new.refs[ref] = id /\ \A other \in RefNames \ {ref} : new.refs[other] = ev.refs[other]
  BY WithRefTypes
<1>2. RefsOK(posts', e, ev.refs)
  BY RefsKept
<1> HIDE DEF new
<1> QED
  BY <1>1, <1>2 DEF RefsOK, RefNames, new

LEMMA PostAnnouncementKnows ==
  ASSUME TypeInv, RefInv, NEW r \in Reqs, PostAnnouncement(r)
  PROVE  RefInv'
<1> DEFINE ev == reqs[r].ev
           req == reqs'[r]
           e == reqs[r].event
           m == Announcement(e, ev)
<1>1. /\ At(r, "post_announcement") /\ UNCHANGED channels /\ PostMade(r, "announcement", m)
  BY PostAnnouncementTypes
<1>2. ev.refs = NoRefs /\ ~reqs[r].failed /\ ev.channel # None /\ events[e].channel # None
  BY <1>1, AtProgress DEF Progress, Made
<1>3. e \in DOMAIN events /\ ev \in Event /\ e \in Nat
  BY <1>1, CallIs
<1>4. /\ RefsOK(posts, e, ev.refs) /\ ev.channel \in DOMAIN channels \cup {None}
  BY <1>1, RefKnown
<1>5. PICK id :
        /\ Touches(id, NewPost(m), e)
        /\ id # NoPost => id \in Int \X Nat /\ ~IsPost(id) /\ IsPost(id)'
        /\ \/ Going(r, WithRef(ev, "announcement", id)) /\ id # NoPost
           \/ Aborted(r) /\ faults' = faults + 1
  BY <1>1 DEF PostMade
<1>6. PostsGrow(e) /\ ChannelsGrow
  BY <1>1, <1>5, TouchGrows, SameGrows
<1>7. Moved(r) /\ UNCHANGED events
  BY <1>5 DEF Aborted, Turned, Going, Advanced
<1>8. RequestInv(req, events', channels', posts')
  <2>1. CASE Aborted(r)
    BY <1>1, <1>6, <2>1, AbortedKnows
  <2>2. CASE Going(r, WithRef(ev, "announcement", id)) /\ id # NoPost
    <3> DEFINE new == WithRef(ev, "announcement", id)
    <3>1. id \in Int \X Nat /\ IsPost(id)'
      BY <1>5, <2>2
    <3>2. m.kind = "announcement"
      BY <1>3, MessagesAre
    <3>3. RefersTo(posts', id, e, "announcement")
      BY <1>5, <2>2, <3>1, <3>2, NewPostIs
    <3> HIDE DEF m
    <3>4. /\ new.channel = ev.channel /\ new.refs["announcement"] = id
          /\ \A other \in RefNames \ {"announcement"} : new.refs[other] = ev.refs[other]
      <4>1. "announcement" \in RefNames
        BY DEF RefNames
      <4>2. ev \in Event /\ id \in Int \X Nat
        BY <1>3, <3>1
      <4> QED
        BY <4>1, <4>2, WithRefTypes
    <3>5. new.refs.announcement = id /\ new.refs.recruit = NoPost /\ new.refs.summary = NoPost
      BY <1>2, <3>4 DEF RefNames, NoRefs
    <3>6. RefsOK(posts', e, new.refs)
      BY <1>3, <1>4, <1>6, <3>1, <3>3, WithRefKnown DEF RefNames
    <3> HIDE DEF new
    <3>7. Advanced(r, new)
      BY <2>2 DEF Going, new
    <3>8. ASSUME req # Idle
          PROVE  Progress(req, events', channels')
      <4>1. /\ CallOf(req) \in NextCalls(reqs[r].op, "post_announcement")
            /\ req.ev = new /\ req.failed = reqs[r].failed /\ req.event = e
        BY <1>1, <3>7, <3>8, AtProgress DEF Advanced, SameRequest
      <4>2. CallOf(req) = "pin_announcement"
        BY <4>1 DEF NextCalls
      <4> HIDE DEF req, e
      <4> QED
        BY <1>2, <1>7, <2>2, <3>4, <3>5, <4>1, <4>2 DEF Progress, Made
    <3>9. new.channel \in DOMAIN channels' \cup {None}
      BY <1>1, <1>4, <3>4
    <3> QED
      BY <3>6, <3>7, <3>8, <3>9, AdvancedKnows
  <2> QED
    BY <1>5, <2>1, <2>2
<1> HIDE DEF e
<1>9. e # None
  BY <1>3, EventsAre DEF TypeInv
<1> QED
  BY <1>3, <1>6, <1>7, <1>8, <1>9, NoDocStep

LEMMA PostRecruitKnows ==
  ASSUME TypeInv, RefInv, NEW r \in Reqs, PostRecruit(r)
  PROVE  RefInv'
<1> DEFINE ev == reqs[r].ev
           req == reqs'[r]
           e == reqs[r].event
           m == Announcement(e, ev)
<1>1. /\ At(r, "post_recruit") /\ UNCHANGED channels
      /\ \/ Going(r, ev) /\ UNCHANGED <<posts, faults>>
         \/ PostMade(r, "recruit", m)
  BY PostRecruitTypes
<1>2. /\ ev.refs.summary = NoPost /\ ev.refs.announcement # NoPost
      /\ ~reqs[r].failed /\ ev.channel # None /\ events[e].channel # None
  BY <1>1, AtProgress DEF Progress, Made
<1>3. e \in DOMAIN events /\ ev \in Event /\ e \in Nat
  BY <1>1, CallIs
<1>4. /\ RefsOK(posts, e, ev.refs) /\ ev.channel \in DOMAIN channels \cup {None}
  BY <1>1, RefKnown
<1>5. ChannelsGrow /\ (UNCHANGED posts => PostsGrow(e))
  BY <1>1, SameGrows
\* However the post went, the summary is next.
<1>6. ASSUME NEW new, Advanced(r, new), UNCHANGED events, PostsGrow(e),
             new.channel = ev.channel, new.refs.summary = NoPost,
             new.refs.announcement # NoPost, RefsOK(posts', e, new.refs)
      PROVE  RequestInv(req, events', channels', posts')
  <2>1. ASSUME req # Idle
        PROVE  Progress(req, events', channels')
    <3>1. /\ CallOf(req) \in NextCalls(reqs[r].op, "post_recruit")
          /\ req.ev = new /\ req.failed = reqs[r].failed /\ req.event = e
      BY <1>1, <1>6, <2>1, AtProgress DEF Advanced, SameRequest
    <3>2. CallOf(req) = "post_summary"
      BY <3>1 DEF NextCalls
    <3> HIDE DEF req, e
    <3> QED
      BY <1>2, <1>6, <3>1, <3>2 DEF Progress, Made
  <2>2. new.channel \in DOMAIN channels' \cup {None}
    BY <1>1, <1>4, <1>6
  <2> QED
    BY <1>6, <2>1, <2>2, AdvancedKnows
<1>7. CASE Going(r, ev) /\ UNCHANGED <<posts, faults>>
  <2>1. Advanced(r, ev) /\ UNCHANGED <<events, posts>>
    BY <1>7 DEF Going
  <2>2. RequestInv(req, events', channels', posts')
    BY <1>2, <1>4, <1>5, <1>6, <2>1
  <2> QED
    BY <1>3, <1>5, <2>1, <2>2, NoDocStep DEF Advanced
<1>8. CASE PostMade(r, "recruit", m)
  <2>1. PICK id :
          /\ Touches(id, NewPost(m), e)
          /\ id # NoPost => id \in Int \X Nat /\ ~IsPost(id) /\ IsPost(id)'
          /\ \/ Going(r, WithRef(ev, "recruit", id)) /\ id # NoPost
             \/ Aborted(r) /\ faults' = faults + 1
    BY <1>8 DEF PostMade
  <2>2. PostsGrow(e)
    BY <2>1, TouchGrows
  <2>3. Moved(r) /\ UNCHANGED events
    BY <2>1 DEF Aborted, Turned, Going, Advanced
  <2>4. RequestInv(req, events', channels', posts')
    <3>1. CASE Aborted(r)
      BY <1>1, <1>5, <2>2, <3>1, AbortedKnows
    <3>2. CASE Going(r, WithRef(ev, "recruit", id)) /\ id # NoPost
      <4> DEFINE new == WithRef(ev, "recruit", id)
      <4>1. id \in Int \X Nat /\ IsPost(id)' /\ m.kind = "announcement"
        BY <1>3, <2>1, <3>2, MessagesAre
      <4>2. RefersTo(posts', id, e, "announcement")
        BY <2>1, <3>2, <4>1, NewPostIs
      <4>3. /\ new.channel = ev.channel /\ new.refs["recruit"] = id
            /\ \A other \in RefNames \ {"recruit"} : new.refs[other] = ev.refs[other]
        <5>1. "recruit" \in RefNames
          BY DEF RefNames
        <5>2. ev \in Event /\ id \in Int \X Nat
          BY <1>3, <4>1
        <5> QED
          BY <5>1, <5>2, WithRefTypes
      <4>4. new.refs.announcement # NoPost /\ new.refs.summary = NoPost
        BY <1>2, <4>3 DEF RefNames
      <4>5. RefsOK(posts', e, new.refs)
        BY <1>3, <1>4, <2>2, <4>1, <4>2, WithRefKnown DEF RefNames
      <4> HIDE DEF new
      <4>6. Advanced(r, new)
        BY <3>2 DEF Going, new
      <4> QED
        BY <1>6, <2>2, <2>3, <4>3, <4>4, <4>5, <4>6
    <3> QED
      BY <2>1, <3>1, <3>2
  <2> HIDE DEF e
  <2>5. e # None
    BY <1>3, EventsAre DEF TypeInv
  <2> QED
    BY <1>3, <1>5, <2>2, <2>3, <2>4, <2>5, NoDocStep
<1> QED
  BY <1>1, <1>7, <1>8

LEMMA PostSummaryKnows ==
  ASSUME TypeInv, RefInv, NEW r \in Reqs, PostSummary(r)
  PROVE  RefInv'
<1> DEFINE ev == reqs[r].ev
           req == reqs'[r]
           e == reqs[r].event
           m == Summary(e, ev)
<1>1. /\ At(r, "post_summary") /\ UNCHANGED channels /\ PostMade(r, "summary", m)
  BY PostSummaryTypes
<1>2. /\ ev.refs.announcement # NoPost
      /\ ~reqs[r].failed /\ ev.channel # None /\ events[e].channel # None
  BY <1>1, AtProgress DEF Progress, Made
<1>3. e \in DOMAIN events /\ ev \in Event /\ e \in Nat
  BY <1>1, CallIs
<1>4. /\ RefsOK(posts, e, ev.refs) /\ ev.channel \in DOMAIN channels \cup {None}
  BY <1>1, RefKnown
<1>5. PICK id :
        /\ Touches(id, NewPost(m), e)
        /\ id # NoPost => id \in Int \X Nat /\ ~IsPost(id) /\ IsPost(id)'
        /\ \/ Going(r, WithRef(ev, "summary", id)) /\ id # NoPost
           \/ Aborted(r) /\ faults' = faults + 1
  BY <1>1 DEF PostMade
<1>6. PostsGrow(e) /\ ChannelsGrow
  BY <1>1, <1>5, TouchGrows, SameGrows
<1>7. Moved(r) /\ UNCHANGED events
  BY <1>5 DEF Aborted, Turned, Going, Advanced
<1>8. RequestInv(req, events', channels', posts')
  <2>1. CASE Aborted(r)
    BY <1>1, <1>6, <2>1, AbortedKnows
  <2>2. CASE Going(r, WithRef(ev, "summary", id)) /\ id # NoPost
    <3> DEFINE new == WithRef(ev, "summary", id)
    <3>1. id \in Int \X Nat /\ IsPost(id)' /\ m.kind = "summary"
      BY <1>3, <1>5, <2>2, MessagesAre
    <3>2. RefersTo(posts', id, e, "summary")
      BY <1>5, <2>2, <3>1, NewPostIs
    <3> HIDE DEF m
    <3>3. /\ new.channel = ev.channel /\ new.refs["summary"] = id
          /\ \A other \in RefNames \ {"summary"} : new.refs[other] = ev.refs[other]
      <4>1. "summary" \in RefNames
        BY DEF RefNames
      <4>2. ev \in Event /\ id \in Int \X Nat
        BY <1>3, <3>1
      <4> QED
        BY <4>1, <4>2, WithRefTypes
    <3>4. new.refs.announcement # NoPost /\ new.refs.summary # NoPost
      BY <1>2, <2>2, <3>3 DEF RefNames
    <3>5. RefsOK(posts', e, new.refs)
      BY <1>3, <1>4, <1>6, <3>1, <3>2, WithRefKnown DEF RefNames
    <3> HIDE DEF new
    <3>6. Advanced(r, new)
      BY <2>2 DEF Going, new
    <3>7. ASSUME req # Idle
          PROVE  Progress(req, events', channels')
      <4>1. /\ CallOf(req) \in NextCalls(reqs[r].op, "post_summary")
            /\ req.ev = new /\ req.failed = reqs[r].failed /\ req.event = e
        BY <1>1, <3>6, <3>7, AtProgress DEF Advanced, SameRequest
      <4>2. CallOf(req) = "pin_summary"
        BY <4>1 DEF NextCalls
      <4> HIDE DEF req, e
      <4> QED
        BY <1>2, <1>7, <3>3, <3>4, <4>1, <4>2 DEF Progress, Made
    <3>8. new.channel \in DOMAIN channels' \cup {None}
      BY <1>1, <1>4, <3>3
    <3> QED
      BY <3>5, <3>6, <3>7, <3>8, AdvancedKnows
  <2> QED
    BY <1>5, <2>1, <2>2
<1> HIDE DEF e
<1>9. e # None
  BY <1>3, EventsAre DEF TypeInv
<1> QED
  BY <1>3, <1>6, <1>7, <1>8, <1>9, NoDocStep

\* The calls whose failure is only logged.
LEMMA ToleratedKnows ==
  ASSUME TypeInv, RefInv, NEW r \in Reqs, NEW call \in Tolerated, At(r, call),
         Going(r, reqs[r].ev), UNCHANGED channels, PostsGrow(reqs[r].event)
  PROVE  RefInv'
<1> DEFINE ev == reqs[r].ev
           req == reqs'[r]
           e == reqs[r].event
<1>1. call \notin {"insert", "edit", "close", "notify"} /\ Advanced(r, ev) /\ UNCHANGED events
  BY DEF Tolerated, Redraws, Going
<1>2. e \in DOMAIN events /\ RefsOK(posts, e, ev.refs) /\ ev.channel \in DOMAIN channels \cup {None}
  BY <1>1, CallIs, RefKnown
<1>3. RefsOK(posts', e, ev.refs)
  BY <1>2, RefsKept
<1>4. Progress(reqs[r], events, channels) /\ CallOf(reqs[r]) = call
  BY AtProgress
<1>5. ASSUME req # Idle
      PROVE  Progress(req, events', channels')
  <2>1. /\ CallOf(req) \in NextCalls(reqs[r].op, call)
        /\ req.ev = ev /\ req.failed = reqs[r].failed /\ req.event = e
    BY <1>1, <1>4, <1>5 DEF Advanced, SameRequest
  <2> HIDE DEF req
  <2>2. CASE call = "pin_announcement"
    <3>1. CallOf(req) = "post_recruit"
      BY <2>1, <2>2 DEF NextCalls
    <3> QED
      BY <1>1, <1>4, <2>1, <2>2, <3>1 DEF Progress, Made
  <2>3. CASE call = "pin_summary"
    <3>1. CallOf(req) = "set_messages"
      BY <2>1, <2>3 DEF NextCalls
    <3> QED
      BY <1>1, <1>4, <2>1, <2>3, <3>1 DEF Progress, Made
  <2>4. CASE call \notin {"pin_announcement", "pin_summary"}
    <3>1. CallOf(req) \notin Made \cup {"insert", "cancel", "notify"}
      BY <2>1, <2>4 DEF NextCalls, Tolerated, Redraws, Made
    <3> QED
      BY <3>1 DEF Progress, Made
  <2> QED
    BY <2>2, <2>3, <2>4
<1>6. RequestInv(req, events', channels', posts')
  BY <1>1, <1>2, <1>3, <1>5, AdvancedKnows
<1> HIDE DEF e
<1>7. e # None /\ Moved(r) /\ ChannelsGrow
  BY <1>1, <1>2, EventsAre, SameGrows DEF TypeInv, Advanced
<1> QED
  BY <1>1, <1>2, <1>6, <1>7, NoDocStep DEF e

LEMMA WrittenGrows ==
  ASSUME NEW target, NEW post, NEW e, Written(target, post, e)
  PROVE  PostsGrow(e)
BY TouchGrows DEF Written

\* The steps that write to the document of r's event.
LEMMA DocStep ==
  ASSUME TypeInv, RefInv, NEW r \in Reqs, NEW e \in DOMAIN events, NEW doc, Wrote(e, doc),
         UNCHANGED <<channels, posts>>, EventInv(e, doc, channels, posts),
         events[e].channel # None => doc.channel # None,
         events[e].refs.announcement # NoPost => doc.refs.announcement # NoPost,
         events[e].refs.summary # NoPost => doc.refs.summary # NoPost,
         Moved(r), RequestInv(reqs'[r], events', channels', posts')
  PROVE  RefInv'
<1>1. /\ DocsGrow /\ ChannelsGrow /\ PostsGrow(None)
      /\ \A d \in DOMAIN events' : EventInv(d, events'[d], channels', posts')
  BY WroteKnows
<1>2. UNCHANGED posts /\ None \in DOMAIN events' \cup {None}
  OBVIOUS
<1> QED
  BY <1>1, <1>2, RefInvStep

LEMMA SetMessagesKnows ==
  ASSUME TypeInv, RefInv, NEW r \in Reqs, SetMessages(r)
  PROVE  RefInv'
<1> DEFINE ev == reqs[r].ev
           req == reqs'[r]
           e == reqs[r].event
           doc == WithRefs(events[e], ev.refs)
<1>1. /\ At(r, "set_messages") /\ Advanced(r, ev) /\ Wrote(e, doc) /\ UNCHANGED <<channels, posts>>
  BY SetMessagesTypes
<1>2. /\ ~reqs[r].failed /\ ev.channel # None /\ events[e].channel # None
      /\ ev.refs.announcement # NoPost /\ ev.refs.summary # NoPost
  BY <1>1, AtProgress DEF Progress, Made
<1>3. e \in DOMAIN events /\ ev \in Event /\ events[e] \in Event
  BY <1>1, CallIs, DocIs
<1>4. RefsOK(posts, e, ev.refs) /\ ev.channel \in DOMAIN channels \cup {None}
  BY <1>1, RefKnown
<1>5. doc.refs = ev.refs /\ doc.channel = events[e].channel /\ doc.open = events[e].open
  BY <1>3 DEF WithRefs, Event
<1>6. EventInv(e, doc, channels, posts)
  BY <1>3, <1>4, <1>5 DEF RefInv, EventInv
<1> HIDE DEF doc
<1>7. ASSUME req # Idle
      PROVE  Progress(req, events', channels')
  <2>1. /\ CallOf(req) \in NextCalls(reqs[r].op, "set_messages")
        /\ req.ev = ev /\ req.failed = reqs[r].failed /\ req.event = e
    BY <1>1, <1>7, AtProgress DEF Advanced, SameRequest
  <2>2. CallOf(req) = "plan"
    BY <2>1 DEF NextCalls
  <2>3. Complete(e, events')
    BY <1>1, <1>2, <1>3, <1>5 DEF Wrote, Complete
  <2>4. events'[e].channel # None
    BY <2>3 DEF Complete
  <2> HIDE DEF req
  <2> QED
    BY <1>2, <2>1, <2>2, <2>3, <2>4 DEF Progress, Made
<1>8. RequestInv(req, events', channels', posts')
  BY <1>1, <1>4, <1>7, AdvancedKnows
<1> QED
  BY <1>1, <1>2, <1>3, <1>5, <1>6, <1>8, DocStep DEF Advanced

LEMMA PlanKnows ==
  ASSUME TypeInv, RefInv, NEW r \in Reqs, Plan(r)
  PROVE  RefInv'
<1> DEFINE ev == reqs[r].ev
           req == reqs'[r]
           e == reqs[r].event
<1>1. /\ At(r, "plan") /\ UNCHANGED <<channels, posts, events>>
      /\ \/ Ended(r)
         \/ Turned(r, "notify", TRUE) /\ ev.given.policy = "daily"
         \/ Turned(r, "notify", FALSE)
  BY PlanTypes
<1>2. Complete(e, events)
  BY <1>1, AtProgress DEF Progress, Made
<1>3. RefsOK(posts, e, ev.refs) /\ ev.channel \in DOMAIN channels \cup {None}
  BY <1>1, RefKnown
<1>4. Moved(r) /\ ChannelsGrow /\ PostsGrow(None)
  BY <1>1, SameGrows DEF Ended, Turned
<1>5. RequestInv(req, events', channels', posts')
  <2>1. CASE Ended(r)
    BY <2>1, EndedKnows
  <2>2. CASE ~Ended(r)
    <3>1. req.event = e /\ req.ev = ev /\ CallOf(req) = "notify"
      BY <1>1, <2>2 DEF Turned, SameRequest
    <3> HIDE DEF req, e, ev
    <3>2. ReadTrue(req, channels', posts')
      BY <1>1, <1>3, <3>1 DEF ReadTrue
    <3>3. Progress(req, events', channels')
      BY <1>1, <1>2, <3>1 DEF Progress, Made
    <3> QED
      BY <3>2, <3>3 DEF RequestInv
  <2> QED
    BY <2>1, <2>2
<1> QED
  BY <1>1, <1>4, <1>5, NoDocStep

LEMMA CancelCreationKnows ==
  ASSUME TypeInv, RefInv, NEW r \in Reqs, CancelCreation(r)
  PROVE  RefInv'
<1> DEFINE ev == reqs[r].ev
           req == reqs'[r]
           e == reqs[r].event
           doc == WithGiven(events[e], ev.given, FALSE)
<1>1. /\ At(r, "cancel") /\ Advanced(r, ev) /\ Wrote(e, doc) /\ UNCHANGED <<channels, posts>>
  BY CancelCreationTypes
<1>2. reqs[r].failed
  BY <1>1, AtProgress DEF Progress, Made
<1>3. /\ e \in DOMAIN events /\ ev \in Event /\ ev.given \in Given /\ events[e] \in Event
  BY <1>1, CallIs, DocIs DEF Event
<1>4. RefsOK(posts, e, ev.refs) /\ ev.channel \in DOMAIN channels \cup {None}
  BY <1>1, RefKnown
<1>5. doc.refs = events[e].refs /\ doc.channel = events[e].channel /\ doc.open = FALSE
  BY <1>3, WithGivenTypes
<1>6. EventInv(e, doc, channels, posts)
  BY <1>3, <1>5 DEF RefInv, EventInv
<1> HIDE DEF doc
<1>7. ASSUME req # Idle
      PROVE  Progress(req, events', channels')
  <2>1. /\ CallOf(req) \in NextCalls(reqs[r].op, "cancel") /\ CallOf(req) # "none"
        /\ req.ev = ev /\ req.failed = reqs[r].failed /\ req.event = e
    BY <1>1, <1>7, AtProgress DEF Advanced, SameRequest
  <2>2. CallOf(req) = "notify"
    BY <2>1 DEF NextCalls
  <2> HIDE DEF req
  <2> QED
    BY <1>2, <2>1, <2>2 DEF Progress, Made
<1>8. RequestInv(req, events', channels', posts')
  BY <1>1, <1>4, <1>7, AdvancedKnows
<1> QED
  BY <1>1, <1>3, <1>5, <1>6, <1>8, DocStep DEF Advanced

LEMMA NotifyKnows ==
  ASSUME TypeInv, RefInv, NEW r \in Reqs, Notify(r)
  PROVE  RefInv'
<1>1. Ended(r) /\ UNCHANGED <<channels, posts, events>>
  BY NotifyTypes
<1>2. RequestInv(reqs'[r], events', channels', posts') /\ Moved(r)
  BY <1>1, EndedKnows DEF Ended
<1>3. ChannelsGrow /\ PostsGrow(None)
  BY <1>1, SameGrows
<1> QED
  BY <1>1, <1>2, <1>3, NoDocStep

LEMMA ChangerIs ==
  ASSUME TypeInv, NEW r \in Reqs, NEW call, call = "edit" \/ call = "close", At(r, call)
  PROVE  /\ reqs[r] \in Request /\ RequestOK(reqs[r], DOMAIN events) /\ CallOf(reqs[r]) = call
         /\ reqs[r].op # "none" /\ reqs[r].change \in Change /\ reqs[r].ev \in Event
         /\ reqs[r].event \in DOMAIN events /\ events[reqs[r].event] \in Event
<1>1. reqs[r] \in Request /\ RequestOK(reqs[r], DOMAIN events) /\ CallOf(reqs[r]) = call
  BY AtIs DEF TypeInv
<1>2. reqs[r].op # "none"
  BY <1>1, CallOfIs
<1>3. reqs[r].event \in DOMAIN events /\ reqs[r].change \in Change /\ reqs[r].ev \in Event
  BY <1>1, <1>2 DEF RequestOK, AboutEvent, HasRead, Request
<1>4. events[reqs[r].event] \in Event
  BY <1>3, DocIs
<1> QED
  BY <1>1, <1>2, <1>3, <1>4

\* An edit or the end of an event: the document keeps what it refers to, and so
\* does what r has read.
LEMMA ChangedKnows ==
  ASSUME TypeInv, RefInv, NEW r \in Reqs, NEW call, call = "edit" \/ call = "close", At(r, call),
         NEW given \in Given, NEW open \in BOOLEAN, UNCHANGED <<channels, posts>>,
         NEW doc, doc = WithGiven(events[reqs[r].event], given, open), Wrote(reqs[r].event, doc),
         NEW ev, ev = WithGiven(reqs[r].ev, given, open), Advanced(r, ev)
  PROVE  RefInv'
<1> DEFINE req == reqs'[r]
           e == reqs[r].event
<1>1. CallOf(reqs[r]) = call
  BY ChangerIs
<1>2. e \in DOMAIN events /\ events[e] \in Event /\ reqs[r].ev \in Event
  BY ChangerIs
<1>3. doc.refs = events[e].refs /\ doc.channel = events[e].channel
  BY <1>2, WithGivenTypes
<1>4. ev.refs = reqs[r].ev.refs /\ ev.channel = reqs[r].ev.channel
  BY <1>2, WithGivenTypes
<1>5. EventInv(e, doc, channels, posts)
  BY <1>2, <1>3 DEF RefInv, EventInv
<1>6. RefsOK(posts', e, ev.refs) /\ ev.channel \in DOMAIN channels' \cup {None}
  BY <1>4, RefKnown
<1>7. ASSUME req # Idle
      PROVE  Progress(req, events', channels')
  <2>1. CallOf(req) \in NextCalls(reqs[r].op, call)
    BY <1>1 DEF Advanced
  <2>2. CallOf(req) = "redraw_announcement"
    BY <2>1 DEF NextCalls
  <2> QED
    BY <2>2 DEF Progress, Made
<1>8. RequestInv(req, events', channels', posts')
  BY <1>6, <1>7, AdvancedKnows
<1> HIDE DEF e
<1> QED
  BY <1>2, <1>3, <1>5, <1>8, DocStep DEF Advanced, e

LEMMA EditEventKnows ==
  ASSUME TypeInv, RefInv, NEW r \in Reqs, EditEvent(r)
  PROVE  RefInv'
<1> DEFINE old == reqs[r].ev
           given == Applied(old.given, reqs[r].change)
           doc == WithGiven(events[reqs[r].event], given, old.open)
           ev == WithGiven(old, given, old.open)
<1>1. /\ At(r, "edit") /\ UNCHANGED <<channels, posts>>
      /\ \/ Ended(r) /\ UNCHANGED events
         \/ Wrote(reqs[r].event, doc) /\ Advanced(r, ev)
  BY EditEventTypes
<1>2. CASE Ended(r) /\ UNCHANGED events
  <2>1. RequestInv(reqs'[r], events', channels', posts') /\ Moved(r)
    BY <1>2, EndedKnows DEF Ended
  <2>2. ChannelsGrow /\ PostsGrow(None)
    BY <1>1, SameGrows
  <2> QED
    BY <1>1, <1>2, <2>1, <2>2, NoDocStep
<1>3. CASE Wrote(reqs[r].event, doc) /\ Advanced(r, ev)
  <2>1. old \in Event /\ reqs[r].change \in Change
    BY <1>1, ChangerIs
  <2>2. given \in Given /\ old.open \in BOOLEAN
    BY <2>1, AppliedTypes DEF Event
  <2> HIDE DEF given
  <2>3. PICK open \in BOOLEAN : open = old.open
    BY <2>2
  <2> QED
    BY <1>1, <1>3, <2>2, <2>3, ChangedKnows
<1> QED
  BY <1>1, <1>2, <1>3

LEMMA CloseEventKnows ==
  ASSUME TypeInv, RefInv, NEW r \in Reqs, CloseEvent(r)
  PROVE  RefInv'
<1> DEFINE old == reqs[r].ev
           doc == WithGiven(events[reqs[r].event], old.given, FALSE)
           ev == WithGiven(old, old.given, FALSE)
<1>1. /\ At(r, "close") /\ UNCHANGED <<channels, posts>>
      /\ \/ Ended(r) /\ UNCHANGED events
         \/ Wrote(reqs[r].event, doc) /\ Advanced(r, ev)
  BY CloseEventTypes
<1>2. CASE Ended(r) /\ UNCHANGED events
  <2>1. RequestInv(reqs'[r], events', channels', posts') /\ Moved(r)
    BY <1>2, EndedKnows DEF Ended
  <2>2. ChannelsGrow /\ PostsGrow(None)
    BY <1>1, SameGrows
  <2> QED
    BY <1>1, <1>2, <2>1, <2>2, NoDocStep
<1>3. CASE Wrote(reqs[r].event, doc) /\ Advanced(r, ev)
  <2>1. old.given \in Given /\ FALSE \in BOOLEAN
    BY <1>1, ChangerIs DEF Event
  <2> QED
    BY <1>1, <1>3, <2>1, ChangedKnows
<1> QED
  BY <1>1, <1>2, <1>3

LEMMA EnqueueArchiveKnows ==
  ASSUME TypeInv, RefInv, NEW r \in Reqs, EnqueueArchive(r)
  PROVE  RefInv'
<1>1. /\ At(r, "enqueue_archive") /\ Advanced(r, reqs[r].ev)
      /\ UNCHANGED <<channels, posts, events>>
  BY EnqueueArchiveTypes
<1>2. reqs'[r] = Idle
  <2>1. CallOf(reqs'[r]) = "none"
    BY <1>1, AtProgress DEF Advanced, NextCalls
  <2> QED
    BY <1>1, <2>1 DEF Advanced
<1>3. RequestInv(reqs'[r], events', channels', posts') /\ Moved(r)
  BY <1>1, <1>2, IdleKnows DEF Advanced
<1>4. ChannelsGrow /\ PostsGrow(None)
  BY <1>1, SameGrows
<1> QED
  BY <1>1, <1>3, <1>4, NoDocStep

LEMMA ArchiveKnows ==
  ASSUME TypeInv, RefInv, NEW r \in Reqs, Archive(r)
  PROVE  RefInv'
<1> DEFINE ev == reqs[r].ev
           req == reqs'[r]
<1>1. /\ At(r, "archive") /\ UNCHANGED <<posts, events>>
      /\ DOMAIN channels' = DOMAIN channels
      /\ \A c \in DOMAIN channels : channels'[c].name = channels[c].name
      /\ Advanced(r, ev) \/ Ended(r)
  BY ArchiveTypes
<1>2. ChannelsGrow /\ PostsGrow(None) /\ Moved(r)
  BY <1>1, SameGrows DEF ChannelsGrow, Advanced, Ended
<1>3. RefsOK(posts, reqs[r].event, ev.refs) /\ ev.channel \in DOMAIN channels \cup {None}
  BY <1>1, RefKnown
<1>4. ASSUME Advanced(r, ev), req # Idle
      PROVE  Progress(req, events', channels')
  <2>1. CallOf(req) \in NextCalls(reqs[r].op, "archive")
    BY <1>1, <1>4, AtProgress DEF Advanced
  <2>2. CallOf(req) = "set_archived"
    BY <2>1 DEF NextCalls
  <2> QED
    BY <2>2 DEF Progress, Made
<1>5. RequestInv(req, events', channels', posts')
  <2>1. CASE Advanced(r, ev)
    BY <1>1, <1>3, <1>4, <2>1, AdvancedKnows
  <2>2. CASE Ended(r)
    BY <2>2, EndedKnows
  <2> QED
    BY <1>1, <2>1, <2>2
<1> QED
  BY <1>1, <1>2, <1>5, NoDocStep

LEMMA SetArchivedKnows ==
  ASSUME TypeInv, RefInv, NEW r \in Reqs, SetArchived(r)
  PROVE  RefInv'
<1> DEFINE e == reqs[r].event
           doc == WithArchived(events[e])
<1>1. /\ At(r, "set_archived") /\ Advanced(r, reqs[r].ev) /\ Wrote(e, doc)
      /\ UNCHANGED <<channels, posts>>
  BY SetArchivedTypes
<1>2. e \in DOMAIN events /\ events[e] \in Event
  BY <1>1, CallIs, DocIs
<1>3. doc.refs = events[e].refs /\ doc.channel = events[e].channel /\ doc.open = events[e].open
  BY <1>2, WithArchivedTypes
<1> HIDE DEF doc
<1>4. EventInv(e, doc, channels, posts)
  BY <1>2, <1>3 DEF RefInv, EventInv
<1>5. reqs'[r] = Idle
  <2>1. CallOf(reqs'[r]) = "none"
    BY <1>1, AtProgress DEF Advanced, NextCalls
  <2> QED
    BY <1>1, <2>1 DEF Advanced
<1>6. RequestInv(reqs'[r], events', channels', posts') /\ Moved(r)
  BY <1>1, <1>5, IdleKnows DEF Advanced
<1> QED
  BY <1>1, <1>2, <1>3, <1>4, <1>6, DocStep

\* The pins and redrawings.
PinStep(r) == PinAnnouncement(r) \/ PinSummary(r) \/ UnpinAnnouncement(r) \/ UnpinSummary(r)
RedrawStep(r) == RedrawAnnouncement(r) \/ RedrawRecruit(r) \/ RedrawSummary(r)

\* What each of them writes, and to which message.
PinWrites(r, call, name, pinned) ==
  /\ At(r, call) /\ Going(r, reqs[r].ev) /\ UNCHANGED channels
  /\ Written(Ref(r, name), [PostOf(Ref(r, name)) EXCEPT !.pinned = pinned], reqs[r].event)

RedrawWrites(r, call, name, m) ==
  /\ At(r, call) /\ Going(r, reqs[r].ev) /\ UNCHANGED channels
  /\ Written(Ref(r, name), [PostOf(Ref(r, name)) EXCEPT !.message = m], reqs[r].event)

LEMMA PinStepTypes ==
  ASSUME TypeInv, RefInv, NEW r \in Reqs, PinStep(r)
  PROVE  /\ TypeInv'
         /\ \/ PinWrites(r, "pin_announcement", "announcement", TRUE)
            \/ PinWrites(r, "pin_summary", "summary", TRUE)
            \/ PinWrites(r, "unpin_announcement", "announcement", FALSE)
            \/ PinWrites(r, "unpin_summary", "summary", FALSE)
<1>1. CASE PinAnnouncement(r)
  <2>1. /\ At(r, "pin_announcement") /\ "pin_announcement" \in Tolerated
        /\ "announcement" \in RefNames
        /\ Tolerant(r, Missing(r, "announcement"), SetPin(Ref(r, "announcement"), TRUE))
    BY <1>1 DEF PinAnnouncement, PinMessage, Tolerated, RefNames
  <2> QED
    BY <2>1, PinTypes DEF PinWrites
<1>2. CASE PinSummary(r)
  <2>1. /\ At(r, "pin_summary") /\ "pin_summary" \in Tolerated /\ "summary" \in RefNames
        /\ Tolerant(r, Missing(r, "summary"), SetPin(Ref(r, "summary"), TRUE))
    BY <1>2 DEF PinSummary, PinMessage, Tolerated, RefNames
  <2> QED
    BY <2>1, PinTypes DEF PinWrites
<1>3. CASE UnpinAnnouncement(r)
  <2>1. /\ At(r, "unpin_announcement") /\ "unpin_announcement" \in Tolerated
        /\ "announcement" \in RefNames
        /\ Tolerant(r, Missing(r, "announcement"), SetPin(Ref(r, "announcement"), FALSE))
    BY <1>3 DEF UnpinAnnouncement, UnpinMessage, Tolerated, RefNames
  <2> QED
    BY <2>1, PinTypes DEF PinWrites
<1>4. CASE UnpinSummary(r)
  <2>1. /\ At(r, "unpin_summary") /\ "unpin_summary" \in Tolerated /\ "summary" \in RefNames
        /\ Tolerant(r, Missing(r, "summary"), SetPin(Ref(r, "summary"), FALSE))
    BY <1>4 DEF UnpinSummary, UnpinMessage, Tolerated, RefNames
  <2> QED
    BY <2>1, PinTypes DEF PinWrites
<1> QED
  BY <1>1, <1>2, <1>3, <1>4 DEF PinStep

LEMMA RedrawStepTypes ==
  ASSUME TypeInv, RefInv, NEW r \in Reqs, RedrawStep(r)
  PROVE  LET e == reqs[r].event
             ev == reqs[r].ev
         IN  /\ TypeInv'
             /\ \/ RedrawWrites(r, "redraw_announcement", "announcement", Announcement(e, ev))
                \/ RedrawWrites(r, "redraw_recruit", "recruit", Announcement(e, ev))
                \/ RedrawWrites(r, "redraw_summary", "summary", Summary(e, ev))
<1> DEFINE e == reqs[r].event
           ev == reqs[r].ev
           m == Announcement(e, ev)
           s == Summary(e, ev)
<1>1. PICK call \in Redraws : At(r, call)
  BY DEF RedrawStep, RedrawAnnouncement, RedrawRecruit, RedrawSummary, Redraws
<1>2. e \in Nat /\ ev \in Event
  BY <1>1, CallIs DEF Request, Redraws
<1>3. /\ m \in Messages /\ m.event = e /\ m.kind = "announcement"
      /\ s \in Messages /\ s.event = e /\ s.kind = "summary"
  BY <1>2, MessagesAre
<1> HIDE DEF m, s
<1>4. CASE RedrawAnnouncement(r)
  <2>1. /\ At(r, "redraw_announcement") /\ "redraw_announcement" \in Tolerated
        /\ "announcement" \in RefNames
        /\ Tolerant(r, Missing(r, "announcement"), UpdateMessage(Ref(r, "announcement"), m))
    BY <1>4 DEF RedrawAnnouncement, Tolerated, Redraws, RefNames, m
  <2>2. m.kind = IF "announcement" = "summary" THEN "summary" ELSE "announcement"
    BY <1>3
  <2> QED
    BY <1>3, <2>1, <2>2, UpdateMessageTypes DEF RedrawWrites, m
<1>5. CASE RedrawRecruit(r)
  <2>1. /\ At(r, "redraw_recruit") /\ "redraw_recruit" \in Tolerated /\ "recruit" \in RefNames
        /\ Tolerant(r, Missing(r, "recruit"), UpdateMessage(Ref(r, "recruit"), m))
    BY <1>5 DEF RedrawRecruit, Tolerated, Redraws, RefNames, m
  <2>2. m.kind = IF "recruit" = "summary" THEN "summary" ELSE "announcement"
    BY <1>3
  <2> QED
    BY <1>3, <2>1, <2>2, UpdateMessageTypes DEF RedrawWrites, m
<1>6. CASE RedrawSummary(r)
  <2>1. /\ At(r, "redraw_summary") /\ "redraw_summary" \in Tolerated /\ "summary" \in RefNames
        /\ Tolerant(r, Missing(r, "summary"), UpdateMessage(Ref(r, "summary"), s))
    BY <1>6 DEF RedrawSummary, Tolerated, Redraws, RefNames, s
  <2>2. s.kind = IF "summary" = "summary" THEN "summary" ELSE "announcement"
    BY <1>3
  <2> QED
    BY <1>3, <2>1, <2>2, UpdateMessageTypes DEF RedrawWrites, s
<1> QED
  BY <1>4, <1>5, <1>6 DEF RedrawStep

LEMMA PinKnows ==
  ASSUME TypeInv, RefInv, NEW r \in Reqs, PinStep(r) \/ RedrawStep(r) \/ PostClosing(r)
  PROVE  TypeInv' /\ RefInv'
<1> DEFINE e == reqs[r].event
<1>1. CASE PinStep(r)
  <2>1. TypeInv' /\ \E call, name, pinned : call \in Tolerated /\ PinWrites(r, call, name, pinned)
    BY <1>1, PinStepTypes DEF Tolerated
  <2>2. PICK call, name, pinned : call \in Tolerated /\ PinWrites(r, call, name, pinned)
    BY <2>1
  <2> QED
    BY <2>1, <2>2, WrittenGrows, ToleratedKnows DEF PinWrites
<1>2. CASE RedrawStep(r)
  <2>1. TypeInv' /\ \E call, name, m : call \in Tolerated /\ RedrawWrites(r, call, name, m)
    BY <1>2, RedrawStepTypes DEF Tolerated, Redraws
  <2>2. PICK call, name, m : call \in Tolerated /\ RedrawWrites(r, call, name, m)
    BY <2>1
  <2> QED
    BY <2>1, <2>2, WrittenGrows, ToleratedKnows DEF RedrawWrites
<1>3. CASE PostClosing(r)
  <2>1. /\ TypeInv' /\ At(r, "post_closing") /\ "post_closing" \in Tolerated
        /\ Going(r, reqs[r].ev) /\ UNCHANGED channels
        /\ \E id : Touches(id, NewPost(ClosingMessage(e)), e)
    BY <1>3, PostClosingTypes DEF Tolerated
  <2>2. PostsGrow(e)
    BY <2>1, TouchGrows
  <2> QED
    BY <2>1, <2>2, ToleratedKnows
<1> QED
  BY <1>1, <1>2, <1>3

-----------------------------------------------------------------------------
(* The invariant of the types and of what a request knows.                 *)

LEMMA StartKnows ==
  ASSUME TypeInv, RefInv, NEW r \in Reqs, Starts(r)
  PROVE  RefInv'
<1> DEFINE req == reqs'[r]
<1>1. Moved(r) /\ UNCHANGED <<channels, posts, events>>
  BY DEF Starts, providerVars
<1>2. ChannelsGrow /\ PostsGrow(None)
  BY <1>1, SameGrows
<1>3. RequestInv(req, events', channels', posts')
  <2>1. CASE CallOf(req) = "insert"
    <3>1. /\ req.ev.channel = None /\ req.ev.refs = NoRefs /\ req.ev.open
          /\ ~req.failed /\ req.attempt = 1
      BY <2>1 DEF Starts
    <3> HIDE DEF req
    <3>2. ReadTrue(req, channels', posts')
      BY <3>1 DEF ReadTrue, RefsOK, NoRefs
    <3>3. Progress(req, events', channels')
      BY <2>1, <3>1 DEF Progress, Made
    <3> QED
      BY <3>2, <3>3 DEF RequestInv
  <2>2. CASE CallOf(req) \in {"edit", "close", "archive"}
    <3>1. req.event \in DOMAIN events /\ req.ev = events[req.event]
      BY <2>2 DEF Starts
    <3>2. EventInv(req.event, req.ev, channels, posts)
      BY <3>1 DEF RefInv
    <3>3. ReadTrue(req, channels', posts')
      BY <1>1, <3>2 DEF ReadTrue, EventInv
    <3> HIDE DEF req
    <3>4. Progress(req, events', channels')
      BY <2>2 DEF Progress, Made
    <3> QED
      BY <3>3, <3>4 DEF RequestInv
  <2> QED
    BY <2>1, <2>2 DEF Starts
<1> QED
  BY <1>1, <1>2, <1>3, NoDocStep

LEMMA UnmovedKnows ==
  ASSUME RefInv, Unmoved
  PROVE  RefInv'
BY DEF RefInv, Unmoved, providerVars

\* The commands, and the forms that are sent.
LEMMA CommandsStart ==
  ASSUME TypeInv, NEW r \in Reqs, NEW u \in Users,
         Commands(r, u) \/ Submissions(r, u)
  PROVE  TypeInv' /\ Starts(r)
<1>1. CASE Commands(r, u)
  <2>1. CASE \E room \in Origins, a \in NewArgs : NewCommand(r, u, room, a.title, a.when, a.ends)
    BY <2>1, NewCommandTypes
  <2>2. CASE \E e \in DOMAIN events, a \in EditArgs : EditCommand(r, u, e, a.title, a.when, a.ends)
    BY <2>2, EditCommandTypes
  <2>3. CASE \E e \in DOMAIN events : EndCommand(r, u, e)
    BY <2>3, EndCommandTypes
  <2>4. CASE \E e \in DOMAIN events, p \in Policies : RemindCommand(r, u, e, p)
    BY <2>4, RemindCommandTypes
  <2> QED
    BY <1>1, <2>1, <2>2, <2>3, <2>4 DEF Commands
<1>2. CASE Submissions(r, u)
  BY <1>2, SubmitTypes
<1> QED
  BY <1>1, <1>2

LEMMA StepKnows ==
  ASSUME TypeInv, RefInv, NEW r \in Reqs, Step(r)
  PROVE  TypeInv' /\ RefInv'
<1>1. CASE InsertEvent(r) \/ CreateChannel(r) \/ SetChannel(r)
  BY <1>1, InsertEventTypes, CreateChannelTypes, SetChannelTypes,
     InsertEventKnows, CreateChannelKnows, SetChannelKnows
<1>2. CASE PostAnnouncement(r) \/ PostRecruit(r) \/ PostSummary(r)
  BY <1>2, PostAnnouncementTypes, PostRecruitTypes, PostSummaryTypes,
     PostAnnouncementKnows, PostRecruitKnows, PostSummaryKnows
<1>3. CASE SetMessages(r) \/ Plan(r) \/ CancelCreation(r) \/ Notify(r)
  BY <1>3, SetMessagesTypes, PlanTypes, CancelCreationTypes, NotifyTypes,
     SetMessagesKnows, PlanKnows, CancelCreationKnows, NotifyKnows
<1>4. CASE EditEvent(r) \/ CloseEvent(r)
  BY <1>4, EditEventTypes, CloseEventTypes, EditEventKnows, CloseEventKnows
<1>5. CASE PinStep(r) \/ RedrawStep(r) \/ PostClosing(r)
  BY <1>5, PinKnows
<1>6. CASE EnqueueArchive(r) \/ Archive(r) \/ SetArchived(r)
  BY <1>6, EnqueueArchiveTypes, ArchiveTypes, SetArchivedTypes,
     EnqueueArchiveKnows, ArchiveKnows, SetArchivedKnows
<1> QED
  BY <1>1, <1>2, <1>3, <1>4, <1>5, <1>6 DEF Step, PinStep, RedrawStep

LEMMA NextKnows ==
  ASSUME TypeInv, RefInv, [Next]_vars
  PROVE  TypeInv' /\ RefInv'
<1>1. ASSUME NEW u \in Users, Opening(u)
      PROVE  TypeInv' /\ RefInv'
  BY <1>1, OpeningTypes, UnmovedKnows
<1>2. ASSUME NEW r \in Reqs, NEW u \in Users, Commands(r, u) \/ Submissions(r, u)
      PROVE  TypeInv' /\ RefInv'
  BY <1>2, CommandsStart, StartKnows
<1>3. ASSUME NEW r \in Reqs, Step(r)
      PROVE  TypeInv' /\ RefInv'
  BY <1>3, StepKnows
<1>4. ASSUME NEW r \in Reqs, NEW e \in archives, StartArchiving(r, e)
      PROVE  TypeInv' /\ RefInv'
  BY <1>4, StartArchivingTypes, StartKnows
<1>5. ASSUME NEW room \in Rooms \cup {None}, RecruitCommand(room)
      PROVE  TypeInv' /\ RefInv'
  BY <1>5, RecruitTypes, UnmovedKnows
<1>6. CASE Tick
  BY <1>6, TickTypes, UnmovedKnows
<1>7. CASE UNCHANGED vars
  <2>1. UNCHANGED <<now, recruit, forms, archives, called>> /\ Unmoved
    BY <1>7 DEF vars, Unmoved
  <2>2. RefInv'
    BY <2>1, UnmovedKnows
  <2>3. TypeInv'
    BY <2>1 DEF Unmoved, providerVars, TypeInv, EventsOK, FormsOK, FormOK, RequestsOK, ProviderOK
  <2> QED
    BY <2>2, <2>3
<1> QED
  BY <1>1, <1>2, <1>3, <1>4, <1>5, <1>6, <1>7 DEF Next

LEMMA InitKnows ==
  ASSUME Init
  PROVE  TypeInv /\ RefInv
<1>1. /\ now \in Instants /\ recruit = None /\ events = << >> /\ archives = {}
      /\ forms = [u \in Users |-> NoForm] /\ reqs = [r \in Reqs |-> Idle]
      /\ crossed = {} /\ called = 0 /\ faults = 0
  BY DEF Init
<1>2. PICK n \in {0, Len(Taken)} :
        /\ channels = [c \in 1..n |-> [name |-> Taken[c], archived |-> FALSE]]
        /\ posts = [c \in Rooms \cup 1..n |-> << >>]
  BY DEF Init, ProviderInit
<1>3. Taken \in Seq({Taken[i] : i \in DOMAIN Taken}) /\ Len(Taken) \in Nat
      /\ DOMAIN Taken = 1..Len(Taken)
  BY RoomsAssumption
<1>4. n \in Nat /\ \A c \in 1..n : Taken[c] \in Names
  <2>1. n \in Nat /\ \A c \in 1..n : c \in DOMAIN Taken
    <3>1. CASE n = 0
      BY <3>1
    <3>2. CASE n = Len(Taken)
      BY <1>3, <3>2
    <3> QED
      BY <1>2, <3>1, <3>2
  <2> QED
    BY <2>1 DEF Names
<1>5. channels \in Seq(Channel)
  <2>1. \A c \in 1..n : channels[c] \in Channel
    BY <1>2, <1>4 DEF Channel
  <2> QED
    BY <1>2, <1>4, <2>1
<1>6. DOMAIN channels = 1..n /\ posts \in [Rooms \cup DOMAIN channels -> Seq(Post)]
  BY <1>2
<1>7. ProviderOK
  BY <1>5, <1>6 DEF ProviderOK
<1>8. EventsOK /\ DOMAIN events = {}
  BY <1>1 DEF EventsOK
<1>9. FormsOK
  BY <1>1 DEF FormsOK, FormOK
<1>10. RequestsOK
  BY <1>1, IdleIs DEF RequestsOK
<1>11. TypeInv
  BY <1>1, <1>7, <1>8, <1>9, <1>10 DEF TypeInv
<1>12. RefInv
  BY <1>1, <1>2, <1>8, IdleKnows DEF RefInv
<1> QED
  BY <1>11, <1>12

LEMMA Known == Spec => [](TypeInv /\ RefInv)
<1>1. Init => TypeInv /\ RefInv
  BY InitKnows
<1>2. (TypeInv /\ RefInv) /\ [Next]_vars => (TypeInv /\ RefInv)'
  BY NextKnows
<1> QED
  BY <1>1, <1>2, PTL DEF Spec

LEMMA TypesFollow == TypeInv /\ RefInv => BotTypeOK
<1> SUFFICES ASSUME TypeInv, RefInv
             PROVE  BotTypeOK
  OBVIOUS
<1>1. /\ recruit \in Rooms \cup {None} /\ events \in Seq(Event)
      /\ archives \cup crossed \subseteq DOMAIN events
      /\ DOMAIN posts = Rooms \cup DOMAIN channels
  BY DEF TypeInv, EventsOK, ProviderOK
<1>2. ASSUME NEW e \in DOMAIN events
      PROVE  /\ events[e].channel \in DOMAIN channels \cup {None}
             /\ \A ref \in DOMAIN NoRefs : events[e].refs[ref] = NoPost \/ IsPost(events[e].refs[ref])
  <2>1. RefsOK(posts, e, events[e].refs) /\ events[e].channel \in DOMAIN channels \cup {None}
    BY DEF RefInv, EventInv
  <2>2. DOMAIN NoRefs = {"announcement", "recruit", "summary"}
    BY DEF NoRefs
  <2> QED
    BY <2>1, <2>2 DEF RefsOK, RefersTo, IsPost
<1>3. ASSUME NEW r \in Reqs
      PROVE  reqs[r].event \in DOMAIN events \cup {None}
  <2>1. RequestOK(reqs[r], DOMAIN events) /\ reqs[r] \in Request
    BY DEF TypeInv, RequestsOK
  <2> QED
    BY <2>1 DEF RequestOK, AboutEvent
<1> QED
  BY <1>1, <1>2, <1>3 DEF BotTypeOK

\* The variables hold what the code can put in them, through every failure of
\* the Provider: what an event refers to has been posted, and what a request is
\* about is there (usecase/event.go, bot/dispatch.go).
THEOREM TypeCorrect == Spec => []BotTypeOK
BY Known, TypesFollow, PTL

-----------------------------------------------------------------------------
(* What a request does.                                                    *)

LEMMA StepIs ==
  ASSUME NEW r \in Reqs
  PROVE  /\ InsertEvent(r) => At(r, "insert")
         /\ CreateChannel(r) => At(r, "create_channel")
         /\ SetChannel(r) => At(r, "set_channel")
         /\ PostAnnouncement(r) => At(r, "post_announcement")
         /\ PinAnnouncement(r) => At(r, "pin_announcement")
         /\ PostRecruit(r) => At(r, "post_recruit")
         /\ PostSummary(r) => At(r, "post_summary")
         /\ PinSummary(r) => At(r, "pin_summary")
         /\ SetMessages(r) => At(r, "set_messages")
         /\ Plan(r) => At(r, "plan")
         /\ CancelCreation(r) => At(r, "cancel")
         /\ Notify(r) => At(r, "notify")
         /\ EditEvent(r) => At(r, "edit")
         /\ CloseEvent(r) => At(r, "close")
         /\ RedrawAnnouncement(r) => At(r, "redraw_announcement")
         /\ RedrawRecruit(r) => At(r, "redraw_recruit")
         /\ RedrawSummary(r) => At(r, "redraw_summary")
         /\ UnpinAnnouncement(r) => At(r, "unpin_announcement")
         /\ UnpinSummary(r) => At(r, "unpin_summary")
         /\ PostClosing(r) => At(r, "post_closing")
         /\ EnqueueArchive(r) => At(r, "enqueue_archive")
         /\ Archive(r) => At(r, "archive")
         /\ SetArchived(r) => At(r, "set_archived")
BY DEF InsertEvent, CreateChannel, SetChannel, PostAnnouncement, PinAnnouncement, PostRecruit,
       PostSummary, PinSummary, SetMessages, Plan, CancelCreation, Notify, EditEvent, CloseEvent,
       RedrawAnnouncement, RedrawRecruit, RedrawSummary, UnpinAnnouncement, UnpinSummary,
       PostClosing, EnqueueArchive, Archive, SetArchived

LEMMA IdleMakesNone == Idle.todo = << >> /\ ~Idle.failed
BY DEF Idle

LEMMA AtOne ==
  ASSUME NEW r \in Reqs, NEW one, NEW other, At(r, one), At(r, other)
  PROVE  one = other
BY DEF At

\* A step of a request moves no other.
LEMMA StepMoves ==
  ASSUME TypeInv, RefInv, NEW r \in Reqs, Step(r)
  PROVE  Moved(r)
<1>1. CASE InsertEvent(r) \/ CreateChannel(r) \/ SetChannel(r)
  BY <1>1, InsertEventTypes, CreateChannelTypes, SetChannelTypes
     DEF Inserted, Ended, Turned, Retried, Aborted, Going, Advanced
<1>2. CASE PostAnnouncement(r) \/ PostRecruit(r) \/ PostSummary(r)
  BY <1>2, PostAnnouncementTypes, PostRecruitTypes, PostSummaryTypes
     DEF PostMade, Turned, Aborted, Going, Advanced
<1>3. CASE SetMessages(r) \/ Plan(r) \/ CancelCreation(r) \/ Notify(r)
  BY <1>3, SetMessagesTypes, PlanTypes, CancelCreationTypes, NotifyTypes
     DEF Ended, Turned, Advanced
<1>4. CASE EditEvent(r) \/ CloseEvent(r)
  BY <1>4, EditEventTypes, CloseEventTypes DEF Ended, Advanced
<1>5. CASE PinStep(r) \/ RedrawStep(r) \/ PostClosing(r)
  BY <1>5, PinStepTypes, RedrawStepTypes, PostClosingTypes
     DEF PinWrites, RedrawWrites, Going, Advanced
<1>6. CASE EnqueueArchive(r) \/ Archive(r) \/ SetArchived(r)
  BY <1>6, EnqueueArchiveTypes, ArchiveTypes, SetArchivedTypes DEF Ended, Advanced
<1> QED
  BY <1>1, <1>2, <1>3, <1>4, <1>5, <1>6 DEF Step, PinStep, RedrawStep

\* A request under way is moved by a step of its own.
LEMMA MoverIs ==
  ASSUME TypeInv, RefInv, [Next]_vars, NEW r \in Reqs, NEW call, At(r, call),
         reqs'[r] # reqs[r]
  PROVE  Step(r)
<1>1. reqs[r] # Idle
  BY IdleMakesNone DEF At
<1>2. ASSUME NEW q \in Reqs, Starts(q)
      PROVE  FALSE
  BY <1>1, <1>2 DEF Starts, Moved, TypeInv, RequestsOK
<1>3. ASSUME Unmoved
      PROVE  FALSE
  BY <1>3 DEF Unmoved
<1>4. ASSUME NEW q \in Reqs, Step(q)
      PROVE  Step(r)
  BY <1>4, StepMoves DEF Moved, TypeInv, RequestsOK
<1>5. ASSUME NEW u \in Users, Opening(u)
      PROVE  FALSE
  BY <1>3, <1>5, OpeningTypes
<1>6. ASSUME NEW q \in Reqs, NEW u \in Users, Commands(q, u) \/ Submissions(q, u)
      PROVE  FALSE
  BY <1>2, <1>6, CommandsStart
<1>7. ASSUME NEW q \in Reqs, NEW e \in archives, StartArchiving(q, e)
      PROVE  FALSE
  BY <1>2, <1>7, StartArchivingTypes
<1>8. ASSUME NEW room \in Rooms \cup {None}, RecruitCommand(room)
      PROVE  FALSE
  BY <1>3, <1>8, RecruitTypes
<1>9. ~Tick
  BY <1>3, TickTypes
<1>10. ~UNCHANGED vars
  BY DEF vars
<1> QED
  BY <1>4, <1>5, <1>6, <1>7, <1>8, <1>9, <1>10 DEF Next

LEMMA GivesUpStep ==
  ASSUME TypeInv, RefInv, [Next]_vars, NEW r \in Reqs,
         At(r, "create_channel"), reqs'[r].failed, Answered
  PROVE  \A n \in 1..Attempts : \E c \in DOMAIN channels :
           channels[c].name = ChannelName(reqs[r].ev, n)
<1>1. /\ ~reqs[r].failed /\ reqs[r].attempt \in 1..Attempts /\ TriedNames(reqs[r], channels)
  BY AtProgress DEF Progress, Made
<1>2. CreateChannel(r)
  <2>1. Step(r)
    BY <1>1, MoverIs
  <2> QED
    BY <2>1, StepIs, AtOne DEF Step
<1>3. \/ ~reqs'[r].failed
      \/ faults' = faults + 1
      \/ InUse(r) /\ ~(reqs[r].attempt < Attempts)
  BY <1>1, <1>2, CreateChannelTypes, IdleMakesNone DEF Retried, Going, Advanced
<1>4. InUse(r) /\ reqs[r].attempt = Attempts
  BY <1>1, <1>3 DEF Answered, TypeInv, Attempts
<1> SUFFICES ASSUME NEW n \in 1..Attempts
             PROVE  \E c \in DOMAIN channels : channels[c].name = ChannelName(reqs[r].ev, n)
  OBVIOUS
<1>5. n \in 1..reqs[r].attempt - 1 \/ n = reqs[r].attempt
  BY <1>4 DEF Attempts
<1> QED
  BY <1>1, <1>4, <1>5 DEF TriedNames, InUse

\* A creation that no call failed gives its channel up only when each of the
\* names it may have had is one of another channel's (createChannel in
\* usecase/event.go).
THEOREM NamesInUse == Spec => GivesUpNames
<1>1. TypeInv /\ RefInv /\ [Next]_vars =>
        [\A r \in Reqs :
           At(r, "create_channel") /\ reqs'[r].failed /\ Answered =>
             \A n \in 1..Attempts : \E c \in DOMAIN channels :
               channels[c].name = ChannelName(reqs[r].ev, n)]_vars
  BY GivesUpStep
<1> QED
  BY <1>1, Known, PTL DEF Spec, GivesUpNames

-----------------------------------------------------------------------------
(* The messages of an event no two requests are about.  ev is the event as *)
(* it is stored.                                                           *)

\* The posts of event e are the ones refs names; those but the stale ones show
\* it, and those of pins are pinned.
PostShows(id, post, e, ev, refs, stale, pins) ==
  /\ post.message.kind = "announcement" =>
       /\ id \in {refs.announcement, refs.recruit}
       /\ id \notin stale => post.message = Announcement(e, ev)
  /\ post.message.kind = "summary" =>
       /\ id = refs.summary
       /\ id \notin stale => post.message = Summary(e, ev)
  /\ post.pinned <=> id \in pins

Shows(ps, e, ev, refs, stale, pins) ==
  \A c \in DOMAIN ps : \A n \in DOMAIN ps[c] :
    ps[c][n].message.event = e => PostShows(<<c, n>>, ps[c][n], e, ev, refs, stale, pins)

\* The posts that are pinned when nothing is under way.
Pins(ev) == IF ev.open THEN {ev.refs.announcement, ev.refs.summary} ELSE {}

RefsIn(req, ev) ==
  IF CallOf(req) \in (Made \ {"plan"}) \cup {"cancel"} THEN req.ev.refs ELSE ev.refs

StaleIn(req, ev) ==
  CASE CallOf(req) = "redraw_announcement" ->
         {ev.refs.announcement, ev.refs.recruit, ev.refs.summary}
    [] CallOf(req) = "redraw_recruit" -> {ev.refs.recruit, ev.refs.summary}
    [] CallOf(req) = "redraw_summary" -> {ev.refs.summary}
    [] OTHER -> {}

PinsIn(req, ev) ==
  LET refs == RefsIn(req, ev) IN
  CASE CallOf(req) \in {"create_channel", "set_channel", "post_announcement",
                        "pin_announcement", "cancel"} -> {}
    [] CallOf(req) \in {"post_recruit", "post_summary", "pin_summary"} -> {refs.announcement}
    [] CallOf(req) = "set_messages" -> {refs.announcement, refs.summary}
    [] req.op = "end" /\ CallOf(req) \in Redraws \cup {"unpin_announcement"} ->
         {refs.announcement, refs.summary}
    [] CallOf(req) = "unpin_summary" -> {refs.summary}
    [] OTHER -> Pins(ev)

\* What a request knows of an event that it alone is about.
Knows(req, ev) ==
  LET call == CallOf(req) IN
  /\ call \in Made => req.ev.given = ev.given /\ req.ev.open = ev.open /\ ev.open
  /\ call \in Made \ {"create_channel", "set_channel"} => req.ev.channel = ev.channel
  /\ call \in (Made \ {"plan"}) \cup {"cancel"} => ev.refs = NoRefs
  /\ call = "cancel" => req.ev.refs = NoRefs
  /\ req.op \in {"edit", "end"} /\ call \notin {"edit", "close"} => req.ev = ev
  /\ req.op = "end" /\ call # "close" => ~ev.open

Agrees(req, ev, ps) ==
  /\ Knows(req, ev)
  /\ Shows(ps, req.event, ev, RefsIn(req, ev), StaleIn(req, ev), PinsIn(req, ev))

AtRest(e, ev, ps) == Shows(ps, e, ev, ev.refs, {}, Pins(ev))

AgreeInv ==
  /\ \A q \in Reqs : \A r \in Reqs :
       q # r /\ reqs[q].event = reqs[r].event /\ reqs[q].event # None => reqs[q].event \in crossed
  /\ faults = 0 =>
       /\ \A r \in Reqs : reqs[r].event \in DOMAIN events \ crossed =>
            Agrees(reqs[r], events[reqs[r].event], posts)
       /\ \A e \in DOMAIN events \ crossed : ~Busy(e) => AtRest(e, events[e], posts)

NotMade(req, docs) ==
  req.event # None => ~docs[req.event].open \/ req.ev.given.policy = "daily"

\* What is still true of an event that nobody else is about: what a request has
\* read to change it, and that a creation that failed has left it canceled.
Fresh(req, docs) ==
  /\ CallOf(req) \in {"edit", "close"} => req.ev = docs[req.event]
  /\ CallOf(req) = "notify" /\ req.failed => NotMade(req, docs)

FreshInv == \A r \in Reqs : reqs[r].event \notin crossed => Fresh(reqs[r], events)

\* The posts that are shown are those a step leaves and the one it makes or changes.
LEMMA ShowsEffect ==
  ASSUME NEW id, NEW post, Effect(id, post), NEW e,
         NEW ev, NEW refs, NEW stale, NEW pins, Shows(posts, e, ev, refs, stale, pins),
         NEW ev2, NEW refs2, NEW stale2, NEW pins2,
         \A i, p : i # NoPost /\ i # id /\ PostShows(i, p, e, ev, refs, stale, pins)
                     => PostShows(i, p, e, ev2, refs2, stale2, pins2),
         id # NoPost => PostShows(id, post, e, ev2, refs2, stale2, pins2)
  PROVE  Shows(posts', e, ev2, refs2, stale2, pins2)
<1> SUFFICES ASSUME NEW c \in DOMAIN posts', NEW n \in DOMAIN posts'[c],
                    posts'[c][n].message.event = e
             PROVE  PostShows(<<c, n>>, posts'[c][n], e, ev2, refs2, stale2, pins2)
  BY DEF Shows
<1>1. <<c, n>> # NoPost
  BY NoPostIs
<1>2. CASE <<c, n>> = id /\ posts'[c][n] = post
  BY <1>1, <1>2
<1>3. CASE <<c, n>> # id /\ c \in DOMAIN posts /\ n \in DOMAIN posts[c] /\ posts'[c][n] = posts[c][n]
  <2>1. PostShows(<<c, n>>, posts[c][n], e, ev, refs, stale, pins)
    BY <1>3 DEF Shows
  <2> QED
    BY <1>1, <1>3, <2>1
<1> QED
  BY <1>2, <1>3 DEF Effect

\* What changes of the event nobody sees.
LEMMA ShowsSame ==
  ASSUME NEW post, Effect(NoPost, post), NEW e,
         NEW ev, NEW refs, NEW stale, NEW pins, Shows(posts, e, ev, refs, stale, pins),
         NEW ev2, Announcement(e, ev2) = Announcement(e, ev), Summary(e, ev2) = Summary(e, ev)
  PROVE  Shows(posts', e, ev2, refs, stale, pins)
<1>1. \A i, p : PostShows(i, p, e, ev, refs, stale, pins) => PostShows(i, p, e, ev2, refs, stale, pins)
  BY DEF PostShows
<1> QED
  BY <1>1, ShowsEffect

\* An event of which nothing has been announced.
LEMMA ShowsNone ==
  ASSUME NEW post, Effect(NoPost, post), NEW e,
         NEW ev, NEW stale, NEW pins, Shows(posts, e, ev, NoRefs, stale, pins), NEW ev2
  PROVE  Shows(posts', e, ev2, NoRefs, stale, pins)
<1>1. \A i, p : i # NoPost /\ PostShows(i, p, e, ev, NoRefs, stale, pins)
                  => PostShows(i, p, e, ev2, NoRefs, stale, pins)
  BY DEF PostShows, NoRefs
<1> QED
  BY <1>1, ShowsEffect

LEMMA ShowsKept ==
  ASSUME NEW e, PostsGrow(e), NEW d, d # e,
         NEW ev, NEW refs, NEW stale, NEW pins, Shows(posts, d, ev, refs, stale, pins)
  PROVE  Shows(posts', d, ev, refs, stale, pins)
BY DEF PostsGrow, Shows

\* A step of r when no other request is about its event, and no call has failed.
Alone(r) == faults = 0 /\ faults' = 0 /\ reqs[r].event \notin crossed

\* What there is to show of it.
Own(r) ==
  IF reqs'[r] = Idle THEN AtRest(reqs[r].event, events'[reqs[r].event], posts')
  ELSE reqs'[r].event = reqs[r].event /\ Agrees(reqs'[r], events'[reqs[r].event], posts')

LEMMA AloneAgrees ==
  ASSUME AgreeInv, NEW r \in Reqs, Alone(r), reqs[r].event \in DOMAIN events
  PROVE  /\ Agrees(reqs[r], events[reqs[r].event], posts)
         /\ Knows(reqs[r], events[reqs[r].event])
BY DEF AgreeInv, Alone, Agrees

LEMMA AgreeStep ==
  ASSUME TypeInv, AgreeInv, NEW r \in Reqs, Moved(r), UNCHANGED crossed,
         reqs[r].event \in DOMAIN events,
         reqs'[r] = Idle \/ reqs'[r].event = reqs[r].event,
         faults' \in {faults, faults + 1}, DOMAIN events' = DOMAIN events,
         \A d \in DOMAIN events : d # reqs[r].event => events'[d] = events[d],
         PostsGrow(reqs[r].event), Alone(r) => Own(r)
  PROVE  AgreeInv'
<1> DEFINE e == reqs[r].event
<1>1. e # None /\ None \notin DOMAIN events /\ Idle.event = None
  BY EventsAre, IdleIs DEF TypeInv
<1>2. \A q \in Reqs : q # r => reqs'[q] = reqs[q]
  BY DEF Moved, TypeInv, RequestsOK
<1>3. \A q \in Reqs : q # r => reqs[q].event # e \/ e \in crossed
  BY <1>1 DEF AgreeInv
<1>4. ASSUME NEW q \in Reqs, NEW p \in Reqs, q # p, reqs'[q].event = reqs'[p].event,
             reqs'[q].event # None
      PROVE  reqs'[q].event \in crossed'
  <2>1. reqs[q].event = reqs'[q].event /\ reqs[p].event = reqs'[p].event
    BY <1>1, <1>2, <1>4
  <2> QED
    BY <1>4, <2>1 DEF AgreeInv
<1>5. ASSUME faults' = 0
      PROVE  faults = 0
  BY <1>5 DEF TypeInv
<1>6. ASSUME faults' = 0, NEW q \in Reqs, reqs'[q].event \in DOMAIN events' \ crossed'
      PROVE  Agrees(reqs'[q], events'[reqs'[q].event], posts')
  <2>1. CASE q = r
    BY <1>1, <1>5, <1>6, <2>1 DEF Alone, Own
  <2>2. CASE q # r
    <3> DEFINE d == reqs[q].event
    <3>1. reqs'[q] = reqs[q] /\ d \in DOMAIN events \ crossed /\ d # e
      BY <1>2, <1>3, <1>6, <2>2
    <3>2. Agrees(reqs[q], events[d], posts) /\ events'[d] = events[d]
      BY <1>5, <1>6, <3>1 DEF AgreeInv
    <3>3. Agrees(reqs[q], events[d], posts')
      BY <3>1, <3>2, ShowsKept DEF Agrees
    <3> QED
      BY <3>1, <3>2, <3>3
  <2> QED
    BY <2>1, <2>2
<1>7. ASSUME faults' = 0, NEW d \in DOMAIN events' \ crossed', ~Busy(d)'
      PROVE  AtRest(d, events'[d], posts')
  <2>1. \A q \in Reqs : reqs'[q].event # d
    BY <1>7 DEF Busy
  <2>2. CASE d = e
    BY <1>5, <1>7, <2>1, <2>2 DEF Alone, Own
  <2>3. CASE d # e
    <3>1. ~Busy(d)
      BY <1>2, <2>1, <2>3 DEF Busy
    <3>2. AtRest(d, events[d], posts) /\ events'[d] = events[d]
      BY <1>5, <1>7, <2>3, <3>1 DEF AgreeInv
    <3> QED
      BY <2>3, <3>2, ShowsKept DEF AtRest
  <2> QED
    BY <2>2, <2>3
<1> QED
  BY <1>4, <1>6, <1>7 DEF AgreeInv

\* What a request makes of the messages, by the call it is about to make.
Sees(req, ev, refs, stale, pins) ==
  RefsIn(req, ev) = refs /\ StaleIn(req, ev) = stale /\ PinsIn(req, ev) = pins

LEMMA SeesNothing ==
  ASSUME NEW req, NEW ev,
         CallOf(req) \in {"create_channel", "set_channel", "post_announcement", "pin_announcement",
                          "cancel"}
  PROVE  Sees(req, ev, req.ev.refs, {}, {})
<1>1. RefsIn(req, ev) = req.ev.refs
  BY DEF RefsIn, Made
<1>2. StaleIn(req, ev) = {}
  BY DEF StaleIn
<1>3. PinsIn(req, ev) = {}
  BY DEF PinsIn, Redraws
<1> QED
  BY <1>1, <1>2, <1>3 DEF Sees

LEMMA SeesPosted ==
  ASSUME NEW req, NEW ev
  PROVE  /\ CallOf(req) \in {"post_recruit", "post_summary", "pin_summary"} =>
              Sees(req, ev, req.ev.refs, {}, {req.ev.refs.announcement})
         /\ CallOf(req) = "set_messages" =>
              Sees(req, ev, req.ev.refs, {}, {req.ev.refs.announcement, req.ev.refs.summary})
<1> SUFFICES ASSUME CallOf(req) \in {"post_recruit", "post_summary", "pin_summary", "set_messages"}
             PROVE  /\ RefsIn(req, ev) = req.ev.refs /\ StaleIn(req, ev) = {}
                    /\ CallOf(req) # "set_messages" => PinsIn(req, ev) = {req.ev.refs.announcement}
                    /\ CallOf(req) = "set_messages" =>
                         PinsIn(req, ev) = {req.ev.refs.announcement, req.ev.refs.summary}
  BY DEF Sees
<1>1. RefsIn(req, ev) = req.ev.refs
  BY DEF RefsIn, Made
<1>2. StaleIn(req, ev) = {}
  BY DEF StaleIn
<1>3. CallOf(req) # "set_messages" => PinsIn(req, ev) = {req.ev.refs.announcement}
  BY <1>1 DEF PinsIn, Redraws
<1>4. CallOf(req) = "set_messages" =>
        PinsIn(req, ev) = {req.ev.refs.announcement, req.ev.refs.summary}
  BY <1>1 DEF PinsIn, Redraws
<1> QED
  BY <1>1, <1>2, <1>3, <1>4

LEMMA SeesStored ==
  ASSUME NEW req, NEW ev,
         CallOf(req) \in {"plan", "notify", "edit", "close", "post_closing", "enqueue_archive",
                          "archive", "set_archived"}
  PROVE  Sees(req, ev, ev.refs, {}, Pins(ev))
BY DEF Sees, RefsIn, StaleIn, PinsIn, Made, Redraws

LEMMA SeesStale ==
  ASSUME NEW req, NEW ev
  PROVE  LET refs == ev.refs
             pins == IF req.op = "end" THEN {refs.announcement, refs.summary} ELSE Pins(ev)
         IN  /\ CallOf(req) = "redraw_announcement" =>
                  Sees(req, ev, refs, {refs.announcement, refs.recruit, refs.summary}, pins)
             /\ CallOf(req) = "redraw_recruit" =>
                  Sees(req, ev, refs, {refs.recruit, refs.summary}, pins)
             /\ CallOf(req) = "redraw_summary" => Sees(req, ev, refs, {refs.summary}, pins)
             /\ CallOf(req) = "unpin_announcement" => Sees(req, ev, refs, {}, pins)
             /\ CallOf(req) = "unpin_summary" => Sees(req, ev, refs, {}, {refs.summary})
BY DEF Sees, RefsIn, StaleIn, PinsIn, Made, Redraws

LEMMA AgreesIs ==
  ASSUME NEW req, NEW ev, NEW refs, NEW stale, NEW pins, Sees(req, ev, refs, stale, pins), NEW ps
  PROVE  Agrees(req, ev, ps) <=> Knows(req, ev) /\ Shows(ps, req.event, ev, refs, stale, pins)
BY DEF Agrees, Sees

\* Nothing is known but what is stored.
LEMMA KnowsStored ==
  ASSUME NEW req, NEW ev,
         \/ CallOf(req) = "notify" /\ req.op = "new"
         \/ CallOf(req) = "edit" /\ req.op = "edit"
         \/ CallOf(req) = "close" /\ req.op = "end"
         \/ CallOf(req) \in {"archive", "set_archived"} /\ req.op = "archive"
  PROVE  Knows(req, ev)
BY DEF Knows, Made

LEMMA PlanAgrees ==
  ASSUME TypeInv, RefInv, AgreeInv, NEW r \in Reqs, Plan(r)
  PROVE  AgreeInv'
<1> DEFINE e == reqs[r].event
           ev == events[e]
           req == reqs'[r]
<1>1. /\ At(r, "plan") /\ UNCHANGED <<channels, posts, events, crossed, faults>>
      /\ Ended(r) \/ Turned(r, "notify", TRUE) \/ Turned(r, "notify", FALSE)
  BY PlanTypes
<1>2. e \in DOMAIN events /\ CallOf(reqs[r]) = "plan" /\ reqs[r].op = "new"
  BY <1>1, CallIs, AtProgress, MadeIs DEF Made
<1>3. /\ Moved(r)
      /\ req = Idle \/ (req.event = e /\ req.op = "new" /\ CallOf(req) = "notify")
  BY <1>1, <1>2 DEF Ended, Turned, SameRequest
<1>4. ASSUME Alone(r)
      PROVE  Own(r)
  <2>1. Agrees(reqs[r], ev, posts)
    BY <1>2, <1>4, AloneAgrees
  <2>2. Shows(posts, e, ev, ev.refs, {}, Pins(ev))
    BY <1>2, <2>1, SeesStored, AgreesIs
  <2>3. req # Idle => Agrees(req, ev, posts)
    BY <1>3, <2>2, SeesStored, AgreesIs, KnowsStored
  <2> QED
    BY <1>1, <1>3, <2>2, <2>3 DEF Own, AtRest
<1>5. PostsGrow(e)
  BY <1>1, SameGrows
<1> HIDE DEF e
<1> QED
  BY <1>1, <1>2, <1>3, <1>4, <1>5, AgreeStep DEF e

LEMMA StartAgrees ==
  ASSUME TypeInv, AgreeInv, NEW r \in Reqs, Starts(r)
  PROVE  AgreeInv'
<1> DEFINE req == reqs'[r]
           e == req.event
<1>1. /\ reqs[r] = Idle /\ Idle.event = None /\ None \notin DOMAIN events
      /\ \A q \in Reqs : q # r => reqs'[q] = reqs[q]
  BY EventsAre, IdleIs DEF Starts, Moved, TypeInv, RequestsOK
<1>2. UNCHANGED <<posts, events, faults>>
  BY DEF Starts, providerVars
<1>3. /\ crossed \subseteq crossed'
      /\ e # None /\ Busy(e) => e \in crossed'
  BY DEF Starts
<1>4. ASSUME NEW q \in Reqs, NEW p \in Reqs, q # p, reqs'[q].event = reqs'[p].event,
             reqs'[q].event # None
      PROVE  reqs'[q].event \in crossed'
  <2>1. CASE q = r \/ p = r
    <3>1. PICK other \in Reqs : other # r /\ reqs[other].event = e /\ e = reqs'[q].event
      BY <1>1, <1>4, <2>1
    <3> QED
      BY <1>3, <1>4, <3>1 DEF Busy
  <2>2. CASE q # r /\ p # r
    BY <1>1, <1>3, <1>4, <2>2 DEF AgreeInv
  <2> QED
    BY <2>1, <2>2
<1>5. ASSUME faults' = 0, NEW q \in Reqs, reqs'[q].event \in DOMAIN events' \ crossed'
      PROVE  Agrees(reqs'[q], events'[reqs'[q].event], posts')
  <2>1. CASE q # r
    BY <1>1, <1>2, <1>3, <1>5, <2>1 DEF AgreeInv
  <2>2. CASE q = r
    <3> DEFINE ev == events[e]
    <3>1. e \in DOMAIN events \ crossed /\ ~Busy(e)
      BY <1>1, <1>2, <1>3, <1>5, <2>2
    <3>2. Shows(posts, e, ev, ev.refs, {}, Pins(ev))
      BY <1>2, <1>5, <3>1 DEF AgreeInv, AtRest
    <3>3. \/ CallOf(req) = "edit" /\ req.op = "edit"
          \/ CallOf(req) = "close" /\ req.op = "end"
          \/ CallOf(req) = "archive" /\ req.op = "archive"
      BY <1>1, <3>1 DEF Starts
    <3> HIDE DEF e
    <3>4. Knows(req, ev)
      BY <3>3, KnowsStored
    <3>5. Sees(req, ev, ev.refs, {}, Pins(ev))
      BY <3>3, SeesStored
    <3>6. Agrees(req, ev, posts)
      BY <3>2, <3>4, <3>5, AgreesIs DEF e
    <3> QED
      BY <1>2, <2>2, <3>6 DEF e
  <2> QED
    BY <2>1, <2>2
<1>6. ASSUME faults' = 0, NEW d \in DOMAIN events' \ crossed', ~Busy(d)'
      PROVE  AtRest(d, events'[d], posts')
  <2>1. ~Busy(d)
    BY <1>1, <1>2, <1>6 DEF Busy
  <2> QED
    BY <1>2, <1>3, <1>6, <2>1 DEF AgreeInv
<1> QED
  BY <1>4, <1>5, <1>6 DEF AgreeInv

LEMMA UnmovedAgrees ==
  ASSUME AgreeInv, Unmoved
  PROVE  AgreeInv'
BY DEF AgreeInv, Unmoved, providerVars, Busy

\* A request about no event that has ended, or goes on without one.
LEMMA NoEventAgrees ==
  ASSUME TypeInv, AgreeInv, NEW r \in Reqs, Moved(r), UNCHANGED <<events, posts, crossed>>,
         reqs[r].event = None, reqs'[r].event = None, faults' \in {faults, faults + 1}
  PROVE  AgreeInv'
<1>1. None \notin DOMAIN events
  BY EventsAre DEF TypeInv
<1>2. \A q \in Reqs : reqs'[q].event = reqs[q].event /\ (q # r => reqs'[q] = reqs[q])
  BY DEF Moved, TypeInv, RequestsOK
<1>3. faults' = 0 => faults = 0
  BY DEF TypeInv
<1>4. \A d : Busy(d)' <=> Busy(d)
  BY <1>2 DEF Busy
<1> QED
  BY <1>1, <1>2, <1>3, <1>4 DEF AgreeInv

LEMMA InsertEventAgrees ==
  ASSUME TypeInv, RefInv, AgreeInv, NEW r \in Reqs, InsertEvent(r)
  PROVE  AgreeInv'
<1> DEFINE ev == reqs[r].ev
           req == reqs'[r]
<1>1. /\ At(r, "insert") /\ UNCHANGED <<posts, crossed, faults>>
      /\ \/ Inserted(r)
         \/ UNCHANGED events /\ (Ended(r) \/ Turned(r, "notify", TRUE))
  BY InsertEventTypes
<1>2. /\ ev.refs = NoRefs /\ ev.open /\ CallOf(reqs[r]) = "insert" /\ reqs[r].op = "new"
      /\ RequestOK(reqs[r], DOMAIN events)
  BY <1>1, AtProgress, AtIs, MadeIs DEF Progress, TypeInv
<1>3. reqs[r].event = None /\ Idle.event = None
  BY <1>2, IdleIs DEF RequestOK, AboutEvent
<1>4. CASE UNCHANGED events /\ (Ended(r) \/ Turned(r, "notify", TRUE))
  <2>1. Moved(r) /\ req.event = None
    BY <1>3, <1>4 DEF Ended, Turned, SameRequest
  <2> QED
    BY <1>1, <1>3, <1>4, <2>1, NoEventAgrees
<1>5. CASE Inserted(r)
  <2>1. PICK e \in Nat \ {0} :
          /\ e \notin DOMAIN events /\ DOMAIN events' = DOMAIN events \cup {e}
          /\ events'[e] = ev /\ \A d \in DOMAIN events : events'[d] = events[d]
          /\ Moved(r) /\ req.event = e /\ CallOf(req) = "create_channel"
          /\ req.op = reqs[r].op /\ req.ev = ev
    BY <1>5 DEF Inserted
  <2>2. /\ \A q \in Reqs : q # r => reqs'[q] = reqs[q]
        /\ \A q \in Reqs : reqs[q].event # e
    <3>1. \A q \in Reqs : reqs[q] \in Request /\ RequestOK(reqs[q], DOMAIN events)
      BY DEF TypeInv, RequestsOK
    <3>2. \A q \in Reqs : reqs[q].event \in DOMAIN events \cup {None}
      BY <3>1 DEF RequestOK, AboutEvent
    <3> QED
      BY <2>1, <3>2 DEF Moved, TypeInv, RequestsOK, None
  <2>3. \A q \in Reqs, p \in Reqs :
          q # p /\ reqs'[q].event = reqs'[p].event /\ reqs'[q].event # None
            => reqs'[q].event \in crossed'
    BY <1>1, <2>1, <2>2 DEF AgreeInv
  <2>4. Agrees(req, ev, posts)
    <3>1. Shows(posts, e, ev, ev.refs, {}, {})
      <4>1. \A c \in DOMAIN posts : \A n \in DOMAIN posts[c] : posts[c][n].message.event # e
        BY <2>1 DEF RefInv, PostInv
      <4> QED
        BY <4>1 DEF Shows
    <3>2. Knows(req, ev)
      BY <1>2, <2>1 DEF Knows, Made
    <3>3. Sees(req, ev, ev.refs, {}, {})
      BY <2>1, SeesNothing
    <3> QED
      BY <2>1, <3>1, <3>2, <3>3, AgreesIs
  <2>5. ASSUME faults' = 0, NEW q \in Reqs, reqs'[q].event \in DOMAIN events' \ crossed'
        PROVE  Agrees(reqs'[q], events'[reqs'[q].event], posts')
    BY <1>1, <2>1, <2>2, <2>4, <2>5 DEF AgreeInv
  <2>6. ASSUME faults' = 0, NEW d \in DOMAIN events' \ crossed', ~Busy(d)'
        PROVE  AtRest(d, events'[d], posts')
    <3>1. d # e /\ d # None /\ d \in DOMAIN events \ crossed
      BY <1>1, <2>1, <2>6, EventsAre DEF Busy, TypeInv
    <3>2. ~Busy(d)
      BY <1>3, <2>2, <2>6, <3>1 DEF Busy
    <3> QED
      BY <1>1, <2>1, <2>6, <3>1, <3>2 DEF AgreeInv
  <2> QED
    BY <2>3, <2>5, <2>6 DEF AgreeInv
<1> QED
  BY <1>1, <1>4, <1>5

\* What is shown, known and seen after a step.
LEMMA OwnIs ==
  ASSUME NEW r \in Reqs, NEW doc, doc = events'[reqs[r].event],
         NEW refs, NEW stale, NEW pins, Shows(posts', reqs[r].event, doc, refs, stale, pins),
         reqs'[r] = Idle => refs = doc.refs /\ stale = {} /\ pins = Pins(doc),
         reqs'[r] # Idle =>
           /\ reqs'[r].event = reqs[r].event
           /\ Knows(reqs'[r], doc) /\ Sees(reqs'[r], doc, refs, stale, pins)
  PROVE  Own(r)
BY AgreesIs DEF Own, AtRest

LEMMA SameShown ==
  ASSUME NEW ev, NEW ev2, ev2.given = ev.given, ev2.open = ev.open, ev2.channel = ev.channel, NEW e
  PROVE  Announcement(e, ev2) = Announcement(e, ev) /\ Summary(e, ev2) = Summary(e, ev)
BY DEF Announcement, Summary

LEMMA NotifyAgrees ==
  ASSUME TypeInv, RefInv, AgreeInv, NEW r \in Reqs, Notify(r)
  PROVE  AgreeInv'
<1> DEFINE e == reqs[r].event
<1>1. /\ At(r, "notify") /\ Ended(r) /\ UNCHANGED <<channels, posts, events, crossed>>
      /\ faults' \in {faults, faults + 1}
  BY NotifyTypes
<1>2. CallOf(reqs[r]) = "notify" /\ e \in DOMAIN events \cup {None}
  BY <1>1, AtIs DEF TypeInv, RequestOK, AboutEvent
<1>3. Moved(r) /\ reqs'[r] = Idle /\ Idle.event = None
  BY <1>1, IdleIs DEF Ended
<1>4. CASE e = None
  BY <1>1, <1>3, <1>4, NoEventAgrees
<1>5. CASE e \in DOMAIN events
  <2>1. ASSUME Alone(r)
        PROVE  Own(r)
    <3>1. Agrees(reqs[r], events[e], posts)
      BY <1>5, <2>1, AloneAgrees
    <3>2. Shows(posts, e, events[e], events[e].refs, {}, Pins(events[e]))
      BY <1>2, <3>1, SeesStored, AgreesIs
    <3> QED
      BY <1>1, <1>3, <3>2 DEF Own, AtRest
  <2>2. PostsGrow(e)
    BY <1>1, SameGrows
  <2> HIDE DEF e
  <2> QED
    BY <1>1, <1>3, <1>5, <2>1, <2>2, AgreeStep DEF e
<1> QED
  BY <1>2, <1>4, <1>5

LEMMA CancelCreationAgrees ==
  ASSUME TypeInv, RefInv, AgreeInv, NEW r \in Reqs, CancelCreation(r)
  PROVE  AgreeInv'
<1> DEFINE ev == reqs[r].ev
           req == reqs'[r]
           e == reqs[r].event
           doc == WithGiven(events[e], ev.given, FALSE)
<1>1. /\ At(r, "cancel") /\ Advanced(r, ev) /\ Wrote(e, doc)
      /\ UNCHANGED <<channels, posts, crossed, faults>>
  BY CancelCreationTypes
<1>2. /\ e \in DOMAIN events /\ ev.given \in Given /\ events[e] \in Event
      /\ CallOf(reqs[r]) = "cancel" /\ reqs[r].op = "new"
  BY <1>1, CallIs, DocIs, AtProgress, MadeIs DEF Event
<1>3. doc.refs = events[e].refs /\ doc.open = FALSE
  BY <1>2, WithGivenTypes
<1> HIDE DEF doc
<1>4. events'[e] = doc
  BY <1>1, <1>2 DEF Wrote
<1>5. /\ Moved(r)
      /\ req = Idle \/ (req.event = e /\ req.op = "new" /\ CallOf(req) = "notify")
  BY <1>1, <1>2 DEF Advanced, SameRequest, NextCalls
<1>6. ASSUME Alone(r)
      PROVE  Own(r)
  <2>1. Agrees(reqs[r], events[e], posts) /\ Knows(reqs[r], events[e])
    BY <1>2, <1>6, AloneAgrees
  <2>2. ev.refs = NoRefs /\ events[e].refs = NoRefs
    BY <1>2, <2>1 DEF Knows
  <2>3. Sees(reqs[r], events[e], NoRefs, {}, {})
    BY <1>2, <2>2, SeesNothing
  <2>4. Shows(posts, e, events[e], NoRefs, {}, {})
    BY <2>1, <2>3, AgreesIs
  <2>5. Shows(posts', e, doc, NoRefs, {}, {})
    BY <1>1, <2>4, SamePosts, ShowsNone
  <2>6. doc.refs = NoRefs /\ Pins(doc) = {}
    BY <1>3, <2>2 DEF Pins
  <2>7. req # Idle => Knows(req, doc) /\ Sees(req, doc, NoRefs, {}, {})
    <3>1. req # Idle => Sees(req, doc, doc.refs, {}, Pins(doc))
      BY <1>5, SeesStored
    <3> QED
      BY <1>5, <2>6, <3>1, KnowsStored
  <2> HIDE DEF req
  <2> QED
    BY <1>4, <1>5, <2>5, <2>6, <2>7, OwnIs DEF req
<1>7. PostsGrow(e)
  BY <1>1, SameGrows
<1> HIDE DEF e
<1> QED
  BY <1>1, <1>2, <1>5, <1>6, <1>7, AgreeStep DEF e, Wrote

LEMMA EnqueueArchiveAgrees ==
  ASSUME TypeInv, RefInv, AgreeInv, NEW r \in Reqs, EnqueueArchive(r)
  PROVE  AgreeInv'
<1> DEFINE e == reqs[r].event
<1>1. /\ At(r, "enqueue_archive") /\ Advanced(r, reqs[r].ev)
      /\ UNCHANGED <<channels, posts, events, crossed, faults>>
  BY EnqueueArchiveTypes
<1>2. e \in DOMAIN events /\ CallOf(reqs[r]) = "enqueue_archive"
  BY <1>1, CallIs, AtProgress
<1>3. Moved(r) /\ reqs'[r] = Idle
  BY <1>1, <1>2 DEF Advanced, NextCalls
<1>4. ASSUME Alone(r)
      PROVE  Own(r)
  <2>1. Agrees(reqs[r], events[e], posts)
    BY <1>2, <1>4, AloneAgrees
  <2>2. Shows(posts, e, events[e], events[e].refs, {}, Pins(events[e]))
    BY <1>2, <2>1, SeesStored, AgreesIs
  <2> QED
    BY <1>1, <1>3, <2>2 DEF Own, AtRest
<1>5. PostsGrow(e)
  BY <1>1, SameGrows
<1> HIDE DEF e
<1> QED
  BY <1>1, <1>2, <1>3, <1>4, <1>5, AgreeStep DEF e

LEMMA ArchiveAgrees ==
  ASSUME TypeInv, RefInv, AgreeInv, NEW r \in Reqs, Archive(r)
  PROVE  AgreeInv'
<1> DEFINE e == reqs[r].event
           ev == events[e]
           req == reqs'[r]
<1>1. /\ At(r, "archive") /\ UNCHANGED <<posts, events, crossed>>
      /\ Advanced(r, reqs[r].ev) \/ Ended(r)
      /\ faults' \in {faults, faults + 1}
  BY ArchiveTypes
<1>2. e \in DOMAIN events /\ CallOf(reqs[r]) = "archive" /\ reqs[r].op = "archive"
  <2>1. CallOf(reqs[r]) \in CallsOf(reqs[r].op) /\ reqs[r].op \in Ops
    BY <1>1, AtIs DEF TypeInv
  <2> QED
    BY <1>1, <2>1, CallIs, AtProgress DEF CallsOf, Ops, Made, Redraws
<1>3. /\ Moved(r)
      /\ req = Idle \/ (req.event = e /\ req.op = "archive" /\ CallOf(req) = "set_archived")
  BY <1>1, <1>2 DEF Advanced, Ended, SameRequest, NextCalls
<1>4. ASSUME Alone(r)
      PROVE  Own(r)
  <2>1. Agrees(reqs[r], ev, posts)
    BY <1>2, <1>4, AloneAgrees
  <2>2. Shows(posts, e, ev, ev.refs, {}, Pins(ev))
    BY <1>2, <2>1, SeesStored, AgreesIs
  <2>3. req # Idle => Knows(req, ev) /\ Sees(req, ev, ev.refs, {}, Pins(ev))
    BY <1>3, KnowsStored, SeesStored
  <2> HIDE DEF req
  <2> QED
    BY <1>1, <1>3, <2>2, <2>3, OwnIs DEF req
<1>5. PostsGrow(e)
  BY <1>1, SameGrows
<1> HIDE DEF e
<1> QED
  BY <1>1, <1>2, <1>3, <1>4, <1>5, AgreeStep DEF e

LEMMA SetArchivedAgrees ==
  ASSUME TypeInv, RefInv, AgreeInv, NEW r \in Reqs, SetArchived(r)
  PROVE  AgreeInv'
<1> DEFINE e == reqs[r].event
           ev == events[e]
           doc == WithArchived(ev)
<1>1. /\ At(r, "set_archived") /\ Advanced(r, reqs[r].ev) /\ Wrote(e, doc)
      /\ UNCHANGED <<channels, posts, crossed, faults>>
  BY SetArchivedTypes
<1>2. /\ e \in DOMAIN events /\ CallOf(reqs[r]) = "set_archived" /\ ev \in Event
  BY <1>1, CallIs, AtProgress, DocIs
<1>3. /\ doc.given = ev.given /\ doc.open = ev.open
      /\ doc.channel = ev.channel /\ doc.refs = ev.refs
  BY <1>2, WithArchivedTypes
<1> HIDE DEF doc
<1>4. events'[e] = doc
  BY <1>1, <1>2 DEF Wrote
<1>5. Moved(r) /\ reqs'[r] = Idle
  BY <1>1, <1>2 DEF Advanced, NextCalls
<1>6. ASSUME Alone(r)
      PROVE  Own(r)
  <2>1. Agrees(reqs[r], ev, posts)
    BY <1>2, <1>6, AloneAgrees
  <2>2. Shows(posts, e, ev, ev.refs, {}, Pins(ev))
    BY <1>2, <2>1, SeesStored, AgreesIs
  <2>3. Shows(posts', e, doc, doc.refs, {}, Pins(doc))
    <3>1. Announcement(e, doc) = Announcement(e, ev) /\ Summary(e, doc) = Summary(e, ev)
      BY <1>3, SameShown
    <3>2. Pins(doc) = Pins(ev)
      BY <1>3 DEF Pins
    <3> HIDE DEF ev
    <3> QED
      BY <1>1, <1>3, <2>2, <3>1, <3>2, SamePosts, ShowsSame DEF ev
  <2> QED
    BY <1>4, <1>5, <2>3 DEF Own, AtRest
<1>7. PostsGrow(e)
  BY <1>1, SameGrows
<1> HIDE DEF e
<1> QED
  BY <1>1, <1>2, <1>5, <1>6, <1>7, AgreeStep DEF e, Wrote

LEMMA GoesOn ==
  ASSUME NEW r \in Reqs, NEW ev, Advanced(r, ev),
         "none" \notin NextCalls(reqs[r].op, CallOf(reqs[r]))
  PROVE  /\ Moved(r) /\ reqs'[r] # Idle /\ reqs'[r].event = reqs[r].event
         /\ reqs'[r].op = reqs[r].op /\ reqs'[r].ev = ev
         /\ CallOf(reqs'[r]) \in NextCalls(reqs[r].op, CallOf(reqs[r]))
BY IdleIs DEF Advanced, SameRequest

LEMMA SetChannelAgrees ==
  ASSUME TypeInv, RefInv, AgreeInv, NEW r \in Reqs, SetChannel(r)
  PROVE  AgreeInv'
<1> DEFINE ev == reqs[r].ev
           req == reqs'[r]
           e == reqs[r].event
           doc == WithChannel(events[e], ev.channel)
<1>1. /\ At(r, "set_channel") /\ Advanced(r, ev) /\ Wrote(e, doc)
      /\ UNCHANGED <<channels, posts, crossed, faults>>
  BY SetChannelTypes
<1>2. /\ e \in DOMAIN events /\ ev \in Event /\ ev.channel \in Nat /\ events[e] \in Event
      /\ CallOf(reqs[r]) = "set_channel" /\ reqs[r].op = "new"
  BY <1>1, CallIs, DocIs, AtProgress, MadeIs DEF Event, Made
<1>3. /\ doc.refs = events[e].refs /\ doc.channel = ev.channel /\ doc.open = events[e].open
      /\ doc.given = events[e].given
  BY <1>2, WithChannelTypes
<1> HIDE DEF doc
<1>4. events'[e] = doc
  BY <1>1, <1>2 DEF Wrote
<1>5. /\ Moved(r) /\ req.event = e /\ req.op = "new" /\ req.ev = ev /\ req # Idle
      /\ CallOf(req) = "post_announcement"
  <2>1. NextCalls(reqs[r].op, CallOf(reqs[r])) = {"post_announcement"}
    BY <1>2 DEF NextCalls
  <2> QED
    BY <1>1, <1>2, <2>1, GoesOn
<1>6. ev.refs = NoRefs
  BY <1>1, AtProgress DEF Progress
<1>7. ASSUME Alone(r)
      PROVE  Own(r)
  <2>1. Agrees(reqs[r], events[e], posts) /\ Knows(reqs[r], events[e])
    BY <1>2, <1>7, AloneAgrees
  <2>2. Sees(reqs[r], events[e], NoRefs, {}, {})
    BY <1>2, <1>6, SeesNothing
  <2>3. Shows(posts, e, events[e], NoRefs, {}, {})
    BY <2>1, <2>2, AgreesIs
  <2>4. Shows(posts', e, doc, NoRefs, {}, {})
    BY <1>1, <2>3, SamePosts, ShowsNone
  <2>5. Sees(req, doc, NoRefs, {}, {})
    BY <1>5, <1>6, SeesNothing
  <2>6. Knows(req, doc)
    BY <1>2, <1>3, <1>5, <2>1 DEF Knows, Made
  <2> HIDE DEF req
  <2> QED
    BY <1>4, <1>5, <2>4, <2>5, <2>6, OwnIs DEF req
<1>8. PostsGrow(e)
  BY <1>1, SameGrows
<1> HIDE DEF e
<1> QED
  BY <1>1, <1>2, <1>5, <1>7, <1>8, AgreeStep DEF e, Wrote

LEMMA SetMessagesAgrees ==
  ASSUME TypeInv, RefInv, AgreeInv, NEW r \in Reqs, SetMessages(r)
  PROVE  AgreeInv'
<1> DEFINE ev == reqs[r].ev
           req == reqs'[r]
           e == reqs[r].event
           doc == WithRefs(events[e], ev.refs)
<1>1. /\ At(r, "set_messages") /\ Advanced(r, ev) /\ Wrote(e, doc)
      /\ UNCHANGED <<channels, posts, crossed, faults>>
  BY SetMessagesTypes
<1>2. /\ e \in DOMAIN events /\ ev \in Event /\ events[e] \in Event
      /\ CallOf(reqs[r]) = "set_messages" /\ reqs[r].op = "new"
  BY <1>1, CallIs, DocIs, AtProgress, MadeIs DEF Event, Made
<1>3. /\ doc.refs = ev.refs /\ doc.channel = events[e].channel
      /\ doc.open = events[e].open /\ doc.given = events[e].given
  BY <1>2 DEF WithRefs, Event
<1> HIDE DEF doc
<1>4. events'[e] = doc
  BY <1>1, <1>2 DEF Wrote
<1>5. /\ Moved(r) /\ req.event = e /\ req.op = "new" /\ req.ev = ev /\ req # Idle
      /\ CallOf(req) = "plan"
  <2>1. NextCalls(reqs[r].op, CallOf(reqs[r])) = {"plan"}
    BY <1>2 DEF NextCalls
  <2> QED
    BY <1>1, <1>2, <2>1, GoesOn
<1>6. ASSUME Alone(r)
      PROVE  Own(r)
  <2> DEFINE refs == ev.refs
             pins == {refs.announcement, refs.summary}
  <2>1. Agrees(reqs[r], events[e], posts) /\ Knows(reqs[r], events[e])
    BY <1>2, <1>6, AloneAgrees
  <2>2. Sees(reqs[r], events[e], refs, {}, pins)
    BY <1>2, SeesPosted
  <2>3. Pins(doc) = pins
    BY <1>2, <1>3, <2>1 DEF Knows, Pins, Made
  <2> HIDE DEF pins
  <2>4. Shows(posts, e, events[e], refs, {}, pins)
    BY <2>1, <2>2, AgreesIs
  <2>5. Shows(posts', e, doc, refs, {}, pins)
    <3>1. /\ Announcement(e, doc) = Announcement(e, events[e])
          /\ Summary(e, doc) = Summary(e, events[e])
      BY <1>3, SameShown
    <3> HIDE DEF refs
    <3> QED
      BY <1>1, <2>4, <3>1, SamePosts, ShowsSame
  <2>6. Sees(req, doc, refs, {}, pins)
    BY <1>3, <1>5, <2>3, SeesStored
  <2>7. Knows(req, doc)
    BY <1>2, <1>3, <1>5, <2>1 DEF Knows, Made
  <2> HIDE DEF req
  <2> QED
    BY <1>4, <1>5, <2>5, <2>6, <2>7, OwnIs DEF req
<1>7. PostsGrow(e)
  BY <1>1, SameGrows
<1> HIDE DEF e
<1> QED
  BY <1>1, <1>2, <1>5, <1>6, <1>7, AgreeStep DEF e, Wrote

\* A creation that gives up before anything has been announced.
LEMMA AbortOwn ==
  ASSUME TypeInv, RefInv, AgreeInv, NEW r \in Reqs, At(r, "create_channel"), Aborted(r), Alone(r),
         \A post : Effect(NoPost, post), reqs[r].event \in DOMAIN events
  PROVE  Own(r)
<1> DEFINE e == reqs[r].event
           req == reqs'[r]
<1>1. /\ req.event = e /\ req.op = reqs[r].op /\ req.ev = reqs[r].ev /\ CallOf(req) = "cancel"
      /\ events' = events
  BY DEF Aborted, Turned, SameRequest
<1>2. reqs[r].ev.refs = NoRefs /\ CallOf(reqs[r]) = "create_channel" /\ reqs[r].op = "new"
  BY AtProgress, MadeIs DEF Progress, Made
<1>3. Agrees(reqs[r], events[e], posts) /\ Knows(reqs[r], events[e])
  BY AloneAgrees
<1>4. Sees(reqs[r], events[e], NoRefs, {}, {}) /\ Sees(req, events[e], NoRefs, {}, {})
  BY <1>1, <1>2, SeesNothing
<1>5. Shows(posts', e, events[e], NoRefs, {}, {})
  BY <1>3, <1>4, AgreesIs, ShowsNone
<1>6. Knows(req, events[e]) /\ req # Idle
  BY <1>1, <1>2, <1>3, IdleIs DEF Knows, Made
<1> HIDE DEF req
<1> QED
  BY <1>1, <1>4, <1>5, <1>6, OwnIs DEF req

LEMMA CreateChannelAgrees ==
  ASSUME TypeInv, RefInv, AgreeInv, NEW r \in Reqs, CreateChannel(r)
  PROVE  AgreeInv'
<1> DEFINE ev == reqs[r].ev
           req == reqs'[r]
           e == reqs[r].event
<1>1. /\ At(r, "create_channel") /\ UNCHANGED <<events, crossed>> /\ OneChannel
      /\ \/ Retried(r) /\ UNCHANGED faults
         \/ Aborted(r) /\ faults' \in {faults, faults + 1}
         \/ \E c \in DOMAIN channels' : Going(r, WithChannel(ev, c)) /\ c # None
  BY CreateChannelTypes
<1>2. /\ e \in DOMAIN events /\ ev \in Event /\ ev.refs = NoRefs
      /\ CallOf(reqs[r]) = "create_channel" /\ reqs[r].op = "new"
  BY <1>1, CallIs, AtProgress, MadeIs DEF Progress, Made
<1>3. faults' \in {faults, faults + 1}
  BY DEF CreateChannel, Answered, Failed
<1>4. \A post : Effect(NoPost, post)
  BY <1>1 DEF OneChannel
<1>5. Moved(r) /\ (req = Idle \/ req.event = e)
  BY <1>1 DEF Retried, Aborted, Turned, Going, Advanced, SameRequest
<1>6. ASSUME Alone(r)
      PROVE  Own(r)
  <2>1. CASE Aborted(r)
    BY <1>1, <1>2, <1>4, <1>6, <2>1, AbortOwn
  <2>2. CASE ~Aborted(r)
    <3>1. /\ req.event = e /\ req.op = "new" /\ req.ev.refs = NoRefs /\ req # Idle
          /\ req.ev.given = ev.given /\ req.ev.open = ev.open
          /\ CallOf(req) = "create_channel" \/ CallOf(req) = "set_channel"
      <4>1. CASE Retried(r)
        BY <1>2, <4>1, IdleIs DEF Retried
      <4>2. CASE \E c \in DOMAIN channels' : Going(r, WithChannel(ev, c)) /\ c # None
        <5>1. PICK c \in DOMAIN channels' : Advanced(r, WithChannel(ev, c))
          BY <4>2 DEF Going
        <5>2. /\ WithChannel(ev, c).refs = NoRefs /\ WithChannel(ev, c).given = ev.given
              /\ WithChannel(ev, c).open = ev.open
          BY <1>2 DEF WithChannel, Event
        <5>3. NextCalls(reqs[r].op, CallOf(reqs[r])) = {"set_channel"}
          BY <1>2 DEF NextCalls
        <5> QED
          BY <1>2, <5>1, <5>2, <5>3, GoesOn
      <4> QED
        BY <1>1, <2>2, <4>1, <4>2
    <3>2. Agrees(reqs[r], events[e], posts) /\ Knows(reqs[r], events[e])
      BY <1>2, <1>6, AloneAgrees
    <3>3. Sees(reqs[r], events[e], NoRefs, {}, {}) /\ Sees(req, events[e], NoRefs, {}, {})
      BY <1>2, <3>1, SeesNothing
    <3>4. Shows(posts', e, events[e], NoRefs, {}, {})
      BY <1>4, <3>2, <3>3, AgreesIs, ShowsNone
    <3>5. Knows(req, events[e])
      BY <1>2, <3>1, <3>2 DEF Knows, Made
    <3> HIDE DEF req
    <3> QED
      BY <1>1, <3>1, <3>3, <3>4, <3>5, OwnIs DEF req
  <2> QED
    BY <2>1, <2>2
<1>7. PostsGrow(e)
  <2>1. \A post : Touches(NoPost, post, e)
    BY <1>4 DEF Touches
  <2> QED
    BY <2>1, TouchGrows
<1> HIDE DEF e
<1> QED
  BY <1>1, <1>2, <1>3, <1>5, <1>6, <1>7, AgreeStep DEF e

\* A new message of the event as it is stored.
LEMMA PostedShows ==
  ASSUME NEW r \in Reqs, NEW id, id # NoPost, ~IsPost(id), NEW e, NEW m, Touches(id, NewPost(m), e),
         NEW ev, NEW refs, NEW pins, Shows(posts, e, ev, refs, {}, pins),
         NEW ref \in RefNames, NEW refs2,
         refs[ref] = NoPost, refs2[ref] = id, \A other \in RefNames \ {ref} : refs2[other] = refs[other],
         m = IF ref = "summary" THEN Summary(e, ev) ELSE Announcement(e, ev),
         \A i \in pins : i = NoPost \/ IsPost(i)
  PROVE  Shows(posts', e, ev, refs2, {}, pins)
<1>1. Effect(id, NewPost(m)) /\ NewPost(m).message = m /\ NewPost(m).pinned = FALSE
  BY DEF Touches, NewPost
<1>2. ASSUME NEW i, NEW p, i # NoPost /\ PostShows(i, p, e, ev, refs, {}, pins)
      PROVE  PostShows(i, p, e, ev, refs2, {}, pins)
  <2>1. i \in {refs.announcement, refs.recruit} => i \in {refs2.announcement, refs2.recruit}
    BY <1>2 DEF RefNames
  <2>2. i = refs.summary => i = refs2.summary
    BY <1>2 DEF RefNames
  <2> QED
    BY <1>2, <2>1, <2>2 DEF PostShows
<1>3. PostShows(id, NewPost(m), e, ev, refs2, {}, pins)
  <2>1. id \notin pins
    OBVIOUS
  <2>2. ref = "summary" => m.kind = "summary" /\ refs2.summary = id /\ m = Summary(e, ev)
    BY DEF Summary
  <2>3. ref # "summary" => /\ m.kind = "announcement" /\ id \in {refs2.announcement, refs2.recruit}
                           /\ m = Announcement(e, ev)
    BY DEF Announcement, RefNames
  <2> QED
    BY <1>1, <2>1, <2>2, <2>3 DEF PostShows
<1> QED
  BY <1>1, <1>2, <1>3, ShowsEffect

\* What r knows of the event is what it shows.
LEMMA KnowsMessages ==
  ASSUME NEW req, NEW ev, Knows(req, ev), CallOf(req) \in Made \ {"create_channel", "set_channel"},
         NEW e
  PROVE  Announcement(e, req.ev) = Announcement(e, ev) /\ Summary(e, req.ev) = Summary(e, ev)
BY SameShown DEF Knows

LEMMA PostAnnouncementAgrees ==
  ASSUME TypeInv, RefInv, AgreeInv, NEW r \in Reqs, PostAnnouncement(r)
  PROVE  AgreeInv'
<1> DEFINE ev == reqs[r].ev
           req == reqs'[r]
           e == reqs[r].event
           m == Announcement(e, ev)
<1>1. /\ At(r, "post_announcement") /\ UNCHANGED channels /\ PostMade(r, "announcement", m)
  BY PostAnnouncementTypes
<1>2. /\ e \in DOMAIN events /\ ev \in Event /\ ev.refs = NoRefs
      /\ CallOf(reqs[r]) = "post_announcement" /\ reqs[r].op = "new"
  BY <1>1, CallIs, AtProgress, MadeIs DEF Progress, Made
<1>3. faults' \in {faults, faults + 1} /\ faults \in Nat
  BY DEF PostAnnouncement, Posted, Answered, Failed, TypeInv
<1>4. PICK id :
        /\ Touches(id, NewPost(m), e)
        /\ id # NoPost => id \in Int \X Nat /\ ~IsPost(id)
        /\ \/ Going(r, WithRef(ev, "announcement", id)) /\ id # NoPost
           \/ Aborted(r) /\ faults' = faults + 1
  BY <1>1 DEF PostMade
<1>5. /\ Moved(r) /\ UNCHANGED <<events, crossed>>
      /\ req = Idle \/ req.event = e
  BY <1>4 DEF Going, Advanced, Aborted, Turned, SameRequest
<1>6. ASSUME Alone(r)
      PROVE  Own(r)
  <2> DEFINE new == WithRef(ev, "announcement", id)
  <2>1. Advanced(r, new) /\ id # NoPost /\ id \in Int \X Nat /\ ~IsPost(id)
    BY <1>3, <1>4, <1>6 DEF Alone, Going
  <2>2. /\ req.event = e /\ req.op = "new" /\ req.ev = new /\ req # Idle
        /\ CallOf(req) = "pin_announcement"
    <3>1. NextCalls(reqs[r].op, CallOf(reqs[r])) = {"pin_announcement"}
      BY <1>2 DEF NextCalls
    <3> QED
      BY <1>2, <2>1, <3>1, GoesOn
  <2>3. /\ new.given = ev.given /\ new.open = ev.open /\ new.channel = ev.channel
        /\ new.refs["announcement"] = id
        /\ \A other \in RefNames \ {"announcement"} : new.refs[other] = ev.refs[other]
    <3>1. "announcement" \in RefNames
      BY DEF RefNames
    <3>2. ev \in Event /\ id \in Int \X Nat
      BY <1>2, <2>1
    <3> QED
      BY <3>1, <3>2, WithRefTypes
  <2> HIDE DEF new
  <2>4. Agrees(reqs[r], events[e], posts) /\ Knows(reqs[r], events[e])
    BY <1>2, <1>6, AloneAgrees
  <2>5. Sees(reqs[r], events[e], NoRefs, {}, {}) /\ Sees(req, events[e], new.refs, {}, {})
    BY <1>2, <2>2, SeesNothing
  <2>6. m = Announcement(e, events[e])
    BY <1>2, <2>4, KnowsMessages DEF Made
  <2>7. Shows(posts', e, events[e], new.refs, {}, {})
    <3>1. Shows(posts, e, events[e], NoRefs, {}, {})
      BY <2>4, <2>5, AgreesIs
    <3>2. "announcement" \in RefNames /\ NoRefs["announcement"] = NoPost
      BY DEF RefNames, NoRefs
    <3>3. \A other \in RefNames \ {"announcement"} : new.refs[other] = NoRefs[other]
      BY <1>2, <2>3
    <3> HIDE DEF m
    <3> QED
      BY <1>4, <2>1, <2>3, <2>6, <3>1, <3>2, <3>3, PostedShows
  <2>8. Knows(req, events[e])
    BY <1>2, <2>2, <2>3, <2>4 DEF Knows, Made
  <2> HIDE DEF req
  <2> QED
    BY <1>5, <2>2, <2>5, <2>7, <2>8, OwnIs DEF req
<1>7. PostsGrow(e)
  BY <1>4, TouchGrows
<1> HIDE DEF e
<1> QED
  BY <1>2, <1>3, <1>5, <1>6, <1>7, AgreeStep DEF e

LEMMA PostRecruitAgrees ==
  ASSUME TypeInv, RefInv, AgreeInv, NEW r \in Reqs, PostRecruit(r)
  PROVE  AgreeInv'
<1> DEFINE ev == reqs[r].ev
           req == reqs'[r]
           e == reqs[r].event
           m == Announcement(e, ev)
           pins == {ev.refs.announcement}
<1>1. /\ At(r, "post_recruit") /\ UNCHANGED channels
      /\ \/ Going(r, ev) /\ UNCHANGED <<posts, faults>>
         \/ PostMade(r, "recruit", m)
  BY PostRecruitTypes
<1>2. /\ e \in DOMAIN events /\ ev \in Event /\ ev.refs.recruit = NoPost
      /\ ev.refs.announcement # NoPost
      /\ CallOf(reqs[r]) = "post_recruit" /\ reqs[r].op = "new"
  BY <1>1, CallIs, AtProgress, MadeIs DEF Progress, Made
<1>3. IsPost(ev.refs.announcement)
  <2>1. RefsOK(posts, e, ev.refs)
    BY <1>1, RefKnown
  <2> QED
    BY <1>2, <2>1 DEF RefsOK, RefersTo, IsPost
<1>4. faults' \in {faults, faults + 1} /\ faults \in Nat
  BY DEF PostRecruit, Posted, Answered, Failed, TypeInv
<1>5. PICK id :
        /\ Touches(id, NewPost(m), e)
        /\ id # NoPost => id \in Int \X Nat /\ ~IsPost(id)
        /\ \/ Going(r, ev) /\ UNCHANGED posts /\ id = NoPost
           \/ Going(r, WithRef(ev, "recruit", id)) /\ id # NoPost
           \/ Aborted(r) /\ faults' = faults + 1
  <2>1. CASE Going(r, ev) /\ UNCHANGED posts
    <3>1. Touches(NoPost, NewPost(m), e)
      BY <2>1, SamePosts DEF Touches
    <3> QED
      BY <2>1, <3>1
  <2>2. CASE PostMade(r, "recruit", m)
    BY <2>2 DEF PostMade
  <2> QED
    BY <1>1, <2>1, <2>2
<1>6. Moved(r) /\ UNCHANGED <<events, crossed>> /\ (req = Idle \/ req.event = e)
  BY <1>5 DEF Going, Advanced, Aborted, Turned, SameRequest
<1>7. ASSUME Alone(r)
      PROVE  Own(r)
  <2>1. NextCalls(reqs[r].op, CallOf(reqs[r])) = {"post_summary"}
    BY <1>2 DEF NextCalls
  <2>2. Agrees(reqs[r], events[e], posts) /\ Knows(reqs[r], events[e])
    BY <1>2, <1>7, AloneAgrees
  <2>3. Sees(reqs[r], events[e], ev.refs, {}, pins)
    BY <1>2, SeesPosted
  <2>4. Shows(posts, e, events[e], ev.refs, {}, pins)
    BY <2>2, <2>3, AgreesIs
  <2> DEFINE new == IF id = NoPost THEN ev ELSE WithRef(ev, "recruit", id)
  <2>5. /\ new \in Event /\ Advanced(r, new) /\ new.given = ev.given /\ new.open = ev.open
        /\ new.channel = ev.channel /\ new.refs.announcement = ev.refs.announcement
        /\ Shows(posts', e, events[e], new.refs, {}, pins)
    <3>1. CASE Going(r, ev) /\ UNCHANGED posts /\ id = NoPost
      <4>1. Advanced(r, ev) /\ Shows(posts', e, events[e], ev.refs, {}, pins)
        BY <2>4, <3>1 DEF Going
      <4> QED
        BY <1>2, <3>1, <4>1
    <3>2. CASE Going(r, WithRef(ev, "recruit", id)) /\ id # NoPost
      <4>1. id \in Int \X Nat /\ ~IsPost(id) /\ id # NoPost /\ Advanced(r, new)
        BY <1>5, <3>2 DEF Going
      <4>2. /\ new \in Event /\ new.given = ev.given /\ new.open = ev.open
            /\ new.channel = ev.channel /\ new.refs["recruit"] = id
            /\ \A other \in RefNames \ {"recruit"} : new.refs[other] = ev.refs[other]
        <5>1. new = WithRef(ev, "recruit", id)
          BY <4>1
        <5>2. "recruit" \in RefNames /\ id \in Int \X Nat /\ ev \in Event
          BY <1>2, <4>1 DEF RefNames
        <5> HIDE DEF new, ev
        <5> QED
          BY <5>1, <5>2, WithRefTypes
      <4> HIDE DEF new
      <4>3. m = Announcement(e, events[e])
        BY <1>2, <2>2, KnowsMessages DEF Made
      <4>4. "recruit" \in RefNames /\ ev.refs["recruit"] = NoPost
        BY <1>2 DEF RefNames
      <4>5. \A i \in pins : IsPost(i)
        BY <1>3
      <4> HIDE DEF m, pins
      <4>6. Shows(posts', e, events[e], new.refs, {}, pins)
        BY <1>5, <2>4, <4>1, <4>2, <4>3, <4>4, <4>5, PostedShows
      <4>7. new.refs.announcement = ev.refs.announcement
        BY <4>2 DEF RefNames
      <4> QED
        BY <4>1, <4>2, <4>6, <4>7
    <3> QED
      BY <1>4, <1>5, <1>7, <3>1, <3>2 DEF Alone
  <2> HIDE DEF new
  <2>6. /\ req.event = e /\ req.op = "new" /\ req.ev = new /\ req # Idle
        /\ CallOf(req) = "post_summary"
    BY <1>2, <2>1, <2>5, GoesOn
  <2>7. Sees(req, events[e], new.refs, {}, pins)
    BY <2>5, <2>6, SeesPosted
  <2>8. Knows(req, events[e])
    BY <1>2, <2>2, <2>5, <2>6 DEF Knows, Made
  <2> HIDE DEF req, pins
  <2> QED
    BY <1>6, <2>5, <2>6, <2>7, <2>8, OwnIs DEF req
<1>8. PostsGrow(e)
  BY <1>5, TouchGrows
<1> HIDE DEF e
<1> QED
  BY <1>2, <1>4, <1>6, <1>7, <1>8, AgreeStep DEF e

LEMMA PostSummaryAgrees ==
  ASSUME TypeInv, RefInv, AgreeInv, NEW r \in Reqs, PostSummary(r)
  PROVE  AgreeInv'
<1> DEFINE ev == reqs[r].ev
           req == reqs'[r]
           e == reqs[r].event
           m == Summary(e, ev)
           pins == {ev.refs.announcement}
<1>1. /\ At(r, "post_summary") /\ UNCHANGED channels /\ PostMade(r, "summary", m)
  BY PostSummaryTypes
<1>2. /\ e \in DOMAIN events /\ ev \in Event /\ ev.refs.summary = NoPost
      /\ ev.refs.announcement # NoPost
      /\ CallOf(reqs[r]) = "post_summary" /\ reqs[r].op = "new"
  BY <1>1, CallIs, AtProgress, MadeIs DEF Progress, Made
<1>3. IsPost(ev.refs.announcement)
  <2>1. RefsOK(posts, e, ev.refs)
    BY <1>1, RefKnown
  <2> QED
    BY <1>2, <2>1 DEF RefsOK, RefersTo, IsPost
<1>4. faults' \in {faults, faults + 1} /\ faults \in Nat
  BY DEF PostSummary, Posted, Answered, Failed, TypeInv
<1>5. PICK id :
        /\ Touches(id, NewPost(m), e)
        /\ id # NoPost => id \in Int \X Nat /\ ~IsPost(id)
        /\ \/ Going(r, WithRef(ev, "summary", id)) /\ id # NoPost
           \/ Aborted(r) /\ faults' = faults + 1
  BY <1>1 DEF PostMade
<1>6. Moved(r) /\ UNCHANGED <<events, crossed>> /\ (req = Idle \/ req.event = e)
  BY <1>5 DEF Going, Advanced, Aborted, Turned, SameRequest
<1>7. ASSUME Alone(r)
      PROVE  Own(r)
  <2> DEFINE new == WithRef(ev, "summary", id)
  <2>1. Agrees(reqs[r], events[e], posts) /\ Knows(reqs[r], events[e])
    BY <1>2, <1>7, AloneAgrees
  <2>2. Shows(posts, e, events[e], ev.refs, {}, pins)
    BY <1>2, <2>1, SeesPosted, AgreesIs
  <2>3. id \in Int \X Nat /\ ~IsPost(id) /\ id # NoPost /\ Advanced(r, new)
    BY <1>4, <1>5, <1>7 DEF Alone, Going
  <2>4. /\ new \in Event /\ new.given = ev.given /\ new.open = ev.open
        /\ new.channel = ev.channel /\ new.refs["summary"] = id
        /\ \A other \in RefNames \ {"summary"} : new.refs[other] = ev.refs[other]
    <3>1. "summary" \in RefNames
      BY DEF RefNames
    <3>2. ev \in Event /\ id \in Int \X Nat
      BY <1>2, <2>3
    <3> QED
      BY <3>1, <3>2, WithRefTypes
  <2> HIDE DEF new
  <2>5. new.refs.announcement = ev.refs.announcement
    BY <2>4 DEF RefNames
  <2>6. /\ req.event = e /\ req.op = "new" /\ req.ev = new /\ req # Idle
        /\ CallOf(req) = "pin_summary"
    <3>1. NextCalls(reqs[r].op, CallOf(reqs[r])) = {"pin_summary"}
      BY <1>2 DEF NextCalls
    <3> QED
      BY <1>2, <2>3, <3>1, GoesOn
  <2>7. Sees(req, events[e], new.refs, {}, pins)
    BY <2>5, <2>6, SeesPosted
  <2>8. Knows(req, events[e])
    BY <1>2, <2>1, <2>4, <2>6 DEF Knows, Made
  <2>9. Shows(posts', e, events[e], new.refs, {}, pins)
    <3>1. m = Summary(e, events[e])
      BY <1>2, <2>1, KnowsMessages DEF Made
    <3>2. "summary" \in RefNames /\ ev.refs["summary"] = NoPost /\ \A i \in pins : IsPost(i)
      BY <1>2, <1>3 DEF RefNames
    <3> HIDE DEF m, pins
    <3> QED
      BY <1>5, <2>2, <2>3, <2>4, <3>1, <3>2, PostedShows
  <2> HIDE DEF req, pins
  <2> QED
    BY <1>6, <2>6, <2>7, <2>8, <2>9, OwnIs DEF req
<1>8. PostsGrow(e)
  BY <1>5, TouchGrows
<1> HIDE DEF e
<1> QED
  BY <1>2, <1>4, <1>6, <1>7, <1>8, AgreeStep DEF e

LEMMA OpOfCall ==
  ASSUME TypeInv, NEW r \in Reqs, NEW call, At(r, call)
  PROVE  /\ call = "edit" => reqs[r].op = "edit"
         /\ call \in {"close", "unpin_announcement", "unpin_summary", "post_closing"} =>
              reqs[r].op = "end"
         /\ call \in Redraws => reqs[r].op = "edit" \/ reqs[r].op = "end"
<1>1. call \in CallsOf(reqs[r].op) /\ reqs[r].op \in Ops
  BY AtIs DEF TypeInv
<1> QED
  BY <1>1 DEF CallsOf, Ops, Made, Redraws

LEMMA RefusedAgrees ==
  ASSUME TypeInv, AgreeInv, NEW r \in Reqs, NEW call, call = "edit" \/ call = "close", At(r, call),
         Ended(r), UNCHANGED <<events, posts, crossed, faults>>
  PROVE  AgreeInv'
<1> DEFINE e == reqs[r].event
<1>1. e \in DOMAIN events /\ CallOf(reqs[r]) = call
  BY ChangerIs
<1>2. Moved(r) /\ reqs'[r] = Idle
  BY DEF Ended
<1>3. ASSUME Alone(r)
      PROVE  Own(r)
  <2>1. Agrees(reqs[r], events[e], posts)
    BY <1>1, <1>3, AloneAgrees
  <2>2. Shows(posts, e, events[e], events[e].refs, {}, Pins(events[e]))
    BY <1>1, <2>1, SeesStored, AgreesIs
  <2> QED
    BY <1>2, <2>2 DEF Own, AtRest
<1>4. PostsGrow(e)
  BY SameGrows
<1> HIDE DEF e
<1> QED
  BY <1>1, <1>2, <1>3, <1>4, AgreeStep DEF e

LEMMA ChangedAgrees ==
  ASSUME TypeInv, AgreeInv, FreshInv, NEW r \in Reqs,
         NEW call, call = "edit" \/ call = "close", At(r, call), reqs[r].ev.open,
         NEW given \in Given, NEW open \in BOOLEAN, open <=> call = "edit",
         NEW doc, doc = WithGiven(events[reqs[r].event], given, open), Wrote(reqs[r].event, doc),
         NEW ev, ev = WithGiven(reqs[r].ev, given, open), Advanced(r, ev),
         UNCHANGED <<posts, crossed, faults>>
  PROVE  AgreeInv'
<1> DEFINE e == reqs[r].event
           old == events[e]
           req == reqs'[r]
           pins == {doc.refs.announcement, doc.refs.summary}
           stale == {doc.refs.announcement, doc.refs.recruit, doc.refs.summary}
<1>1. e \in DOMAIN events /\ CallOf(reqs[r]) = call /\ old \in Event
  BY ChangerIs
<1>2. doc.refs = old.refs /\ doc.open = open
  BY <1>1, WithGivenTypes
<1>3. events'[e] = doc
  BY <1>1 DEF Wrote
<1>4. reqs[r].op = IF call = "edit" THEN "edit" ELSE "end"
  BY OpOfCall
<1>5. /\ Moved(r) /\ req.event = e /\ req.op = reqs[r].op /\ req.ev = ev /\ req # Idle
      /\ CallOf(req) = "redraw_announcement"
  <2>1. NextCalls(reqs[r].op, CallOf(reqs[r])) = {"redraw_announcement"}
    BY <1>1 DEF NextCalls
  <2> QED
    BY <2>1, GoesOn
<1>6. ASSUME Alone(r)
      PROVE  Own(r)
  <2>1. Agrees(reqs[r], old, posts) /\ reqs[r].ev = old
    BY <1>1, <1>6, AloneAgrees DEF FreshInv, Fresh, Alone
  <2>2. Pins(old) = pins /\ ev = doc
    BY <1>2, <2>1 DEF Pins
  <2>3. Shows(posts, e, old, old.refs, {}, Pins(old))
    BY <1>1, <2>1, SeesStored, AgreesIs
  <2>4. Sees(req, doc, doc.refs, stale, pins)
    <3>1. (IF req.op = "end" THEN {doc.refs.announcement, doc.refs.summary} ELSE Pins(doc)) = pins
      BY <1>2, <1>4, <1>5 DEF Pins
    <3>2. CallOf(req) = "redraw_announcement"
      BY <1>5
    <3> HIDE DEF req, pins
    <3> QED
      BY <3>1, <3>2, SeesStale
  <2> HIDE DEF old, pins
  <2>5. Shows(posts', e, doc, doc.refs, stale, pins)
    <3>1. \A i, p : PostShows(i, p, e, old, old.refs, {}, pins) => PostShows(i, p, e, doc, doc.refs, stale, pins)
      BY <1>2 DEF PostShows
    <3>2. \A post : Effect(NoPost, post)
      BY SamePosts
    <3> HIDE DEF stale
    <3> QED
      BY <2>2, <2>3, <3>1, <3>2, ShowsEffect
  <2>6. Knows(req, doc)
    BY <1>2, <1>4, <1>5, <2>2 DEF Knows, Made
  <2> HIDE DEF req, stale
  <2> QED
    BY <1>3, <1>5, <2>4, <2>5, <2>6, OwnIs DEF req
<1>7. PostsGrow(e)
  BY SameGrows
<1> HIDE DEF e
<1> QED
  BY <1>1, <1>5, <1>6, <1>7, AgreeStep DEF e, Wrote

LEMMA EditEventAgrees ==
  ASSUME TypeInv, AgreeInv, FreshInv, NEW r \in Reqs, EditEvent(r) \/ CloseEvent(r)
  PROVE  AgreeInv'
<1> DEFINE old == reqs[r].ev
           given == Applied(old.given, reqs[r].change)
<1>1. CASE EditEvent(r)
  <2>1. /\ At(r, "edit") /\ UNCHANGED <<channels, posts, crossed, faults>>
        /\ \/ Ended(r) /\ UNCHANGED events
           \/ /\ Wrote(reqs[r].event, WithGiven(events[reqs[r].event], given, old.open))
              /\ Advanced(r, WithGiven(old, given, old.open)) /\ old.open
    BY <1>1, EditEventTypes
  <2>2. old \in Event /\ reqs[r].change \in Change
    BY <2>1, ChangerIs
  <2>3. given \in Given /\ old.open \in BOOLEAN
    BY <2>2, AppliedTypes DEF Event
  <2>4. CASE Ended(r) /\ UNCHANGED events
    BY <2>1, <2>4, RefusedAgrees
  <2>5. CASE ~(Ended(r) /\ UNCHANGED events)
    <3> HIDE DEF given
    <3> DEFINE open == old.open
    <3>1. /\ Wrote(reqs[r].event, WithGiven(events[reqs[r].event], given, open))
          /\ Advanced(r, WithGiven(reqs[r].ev, given, open)) /\ reqs[r].ev.open
          /\ open \in BOOLEAN /\ (open <=> "edit" = "edit")
      BY <2>1, <2>3, <2>5
    <3> HIDE DEF open
    <3> QED
      BY <2>1, <2>3, <3>1, ChangedAgrees
  <2> QED
    BY <2>4, <2>5
<1>2. CASE CloseEvent(r)
  <2>1. /\ At(r, "close") /\ UNCHANGED <<channels, posts, crossed, faults>>
        /\ \/ Ended(r) /\ UNCHANGED events
           \/ /\ Wrote(reqs[r].event, WithGiven(events[reqs[r].event], old.given, FALSE))
              /\ Advanced(r, WithGiven(old, old.given, FALSE)) /\ old.open
    BY <1>2, CloseEventTypes
  <2>2. old.given \in Given
    BY <2>1, ChangerIs DEF Event
  <2>3. CASE Ended(r) /\ UNCHANGED events
    BY <2>1, <2>3, RefusedAgrees
  <2>4. CASE ~(Ended(r) /\ UNCHANGED events)
    <3> DEFINE same == old.given
    <3>1. /\ Wrote(reqs[r].event, WithGiven(events[reqs[r].event], same, FALSE))
          /\ Advanced(r, WithGiven(reqs[r].ev, same, FALSE)) /\ reqs[r].ev.open
          /\ same \in Given /\ FALSE \in BOOLEAN /\ (FALSE <=> "close" = "edit")
      BY <2>1, <2>2, <2>4
    <3> HIDE DEF same
    <3> QED
      BY <2>1, <3>1, ChangedAgrees
  <2> QED
    BY <2>3, <2>4
<1> QED
  BY <1>1, <1>2

\* The steps that go on whether their call fails or not.
LEMMA TolerantFaults ==
  ASSUME NEW r \in Reqs, PinStep(r) \/ RedrawStep(r) \/ PostClosing(r)
  PROVE  faults' = faults \/ faults' = faults + 1
BY DEF PinStep, RedrawStep, PostClosing, PinAnnouncement, PinSummary, UnpinAnnouncement,
       UnpinSummary, RedrawAnnouncement, RedrawRecruit, RedrawSummary, Tolerant, Answered, Failed

LEMMA GoingAgrees ==
  ASSUME TypeInv, AgreeInv, NEW r \in Reqs, reqs[r].event \in DOMAIN events,
         NEW ev, Going(r, ev), faults' = faults \/ faults' = faults + 1,
         PostsGrow(reqs[r].event), Alone(r) => Own(r)
  PROVE  AgreeInv'
<1>1. /\ Moved(r) /\ UNCHANGED <<events, crossed>>
      /\ reqs'[r] = Idle \/ reqs'[r].event = reqs[r].event
  BY DEF Going, Advanced, SameRequest
<1> QED
  BY <1>1, AgreeStep

LEMMA WrittenAlone ==
  ASSUME NEW r \in Reqs, Alone(r), NEW target, NEW post, NEW e, Written(target, post, e)
  PROVE  Effect(target, post)
BY DEF Alone, Written, Touches

\* The message r is about to change is one of its event.
LEMMA TargetShows ==
  ASSUME TypeInv, RefInv, NEW r \in Reqs, NEW call \in Tolerated, At(r, call),
         NEW name \in RefNames, ~Missing(r, name),
         NEW ev, NEW refs, NEW stale, NEW pins, Shows(posts, reqs[r].event, ev, refs, stale, pins)
  PROVE  LET id == Ref(r, name) IN
         /\ PostShows(id, PostOf(id), reqs[r].event, ev, refs, stale, pins)
         /\ PostOf(id) \in Post
<1> DEFINE id == Ref(r, name)
<1>1. id \in Int \X Nat /\ IsPost(id) /\ PostOf(id).message.event = reqs[r].event
  BY RefIs
<1> HIDE DEF id
<1>2. PICK c, n : id = <<c, n>>
  BY <1>1
<1>3. c \in DOMAIN posts /\ n \in DOMAIN posts[c] /\ PostOf(id) = posts[c][n]
  BY <1>1, <1>2 DEF IsPost, PostOf
<1>4. PostShows(id, PostOf(id), reqs[r].event, ev, refs, stale, pins)
  BY <1>1, <1>2, <1>3 DEF Shows
<1>5. PostOf(id) \in Post
  BY <1>3 DEF TypeInv, ProviderOK
<1> QED
  BY <1>4, <1>5 DEF id

LEMMA PinShows ==
  ASSUME TypeInv, RefInv, NEW r \in Reqs, NEW call \in Tolerated, At(r, call), Alone(r),
         NEW name \in RefNames, NEW post, Written(Ref(r, name), post, reqs[r].event),
         NEW ev, NEW refs, NEW pins, Shows(posts, reqs[r].event, ev, refs, {}, pins),
         NEW pins2, \A i : i # NoPost /\ i # Ref(r, name) => (i \in pins <=> i \in pins2),
         ~Missing(r, name) => /\ post.message = PostOf(Ref(r, name)).message
                              /\ post.pinned <=> Ref(r, name) \in pins2
  PROVE  Shows(posts', reqs[r].event, ev, refs, {}, pins2)
<1> DEFINE id == Ref(r, name)
           e == reqs[r].event
<1>1. Effect(id, post)
  BY WrittenAlone
<1>2. ASSUME NEW i, NEW p, i # NoPost /\ i # id /\ PostShows(i, p, e, ev, refs, {}, pins)
      PROVE  PostShows(i, p, e, ev, refs, {}, pins2)
  BY <1>2 DEF PostShows
<1>3. ASSUME id # NoPost
      PROVE  PostShows(id, post, e, ev, refs, {}, pins2)
  <2>1. ~Missing(r, name)
    BY <1>3 DEF Missing
  <2>2. PostShows(id, PostOf(id), e, ev, refs, {}, pins)
    BY <2>1, TargetShows
  <2> QED
    BY <2>1, <2>2 DEF PostShows
<1> HIDE DEF id, e
<1>4. Shows(posts, e, ev, refs, {}, pins)
  BY DEF e
<1> QED
  BY <1>1, <1>2, <1>3, <1>4, ShowsEffect DEF e

LEMMA RedrawShows ==
  ASSUME TypeInv, RefInv, NEW r \in Reqs, NEW call \in Tolerated, At(r, call), Alone(r),
         NEW name \in RefNames, NEW post, Written(Ref(r, name), post, reqs[r].event),
         NEW ev, NEW refs, NEW stale, NEW pins, Shows(posts, reqs[r].event, ev, refs, stale, pins),
         NEW stale2, \A i : i # NoPost /\ i # Ref(r, name) /\ i \in stale => i \in stale2,
         ~Missing(r, name) =>
           /\ post.pinned = PostOf(Ref(r, name)).pinned
           /\ name = "summary" => post.message = Summary(reqs[r].event, ev)
           /\ name # "summary" => post.message = Announcement(reqs[r].event, ev)
  PROVE  Shows(posts', reqs[r].event, ev, refs, stale2, pins)
<1> DEFINE id == Ref(r, name)
           e == reqs[r].event
<1>1. Effect(id, post)
  BY WrittenAlone
<1>2. ASSUME NEW i, NEW p, i # NoPost /\ i # id /\ PostShows(i, p, e, ev, refs, stale, pins)
      PROVE  PostShows(i, p, e, ev, refs, stale2, pins)
  BY <1>2 DEF PostShows
<1>3. ASSUME id # NoPost
      PROVE  PostShows(id, post, e, ev, refs, stale2, pins)
  <2>1. ~Missing(r, name)
    BY <1>3 DEF Missing
  <2>2. PostShows(id, PostOf(id), e, ev, refs, stale, pins)
    BY <2>1, TargetShows
  <2>3. PostOf(id).message.kind = IF name = "summary" THEN "summary" ELSE "announcement"
    BY <2>1, RefIs
  <2>4. post.message.kind = PostOf(id).message.kind
    BY <2>1, <2>3 DEF Summary, Announcement
  <2> QED
    BY <2>1, <2>2, <2>3, <2>4 DEF PostShows
<1> HIDE DEF id, e
<1>4. Shows(posts, e, ev, refs, stale, pins)
  BY DEF e
<1> QED
  BY <1>1, <1>2, <1>3, <1>4, ShowsEffect DEF e

LEMMA PostChanged ==
  ASSUME NEW post \in Post
  PROVE  /\ \A p \in BOOLEAN : /\ [post EXCEPT !.pinned = p].message = post.message
                               /\ [post EXCEPT !.pinned = p].pinned = p
         /\ \A m : /\ [post EXCEPT !.message = m].message = m
                   /\ [post EXCEPT !.message = m].pinned = post.pinned
BY DEF Post

LEMMA Repinned ==
  ASSUME TypeInv, RefInv, NEW r \in Reqs, NEW call \in Tolerated, At(r, call),
         NEW name \in RefNames, ~Missing(r, name)
  PROVE  LET old == PostOf(Ref(r, name)) IN
         /\ [old EXCEPT !.pinned = TRUE].message = old.message
         /\ [old EXCEPT !.pinned = TRUE].pinned = TRUE
         /\ [old EXCEPT !.pinned = FALSE].message = old.message
         /\ [old EXCEPT !.pinned = FALSE].pinned = FALSE
         /\ \A m : /\ [old EXCEPT !.message = m].message = m
                   /\ [old EXCEPT !.message = m].pinned = old.pinned
<1>1. PostOf(Ref(r, name)) \in Post
  BY RefIs, PostOfIs DEF TypeInv
<1> QED
  BY <1>1, PostChanged

\* What is known of the event stays known.
LEMMA KnowsNext ==
  ASSUME NEW old, NEW ev, Knows(old, ev), NEW req, req.op = old.op, req.ev = old.ev,
         \/ /\ old.op = "new"
            /\ CallOf(old) \in {"pin_announcement", "pin_summary"}
            /\ CallOf(req) \in {"post_recruit", "set_messages"}
         \/ /\ old.op = "edit" \/ old.op = "end"
            /\ CallOf(old) \in Tolerated /\ CallOf(old) \notin {"pin_announcement", "pin_summary"}
            /\ CallOf(req) \in Tolerated \cup {"enqueue_archive"}
            /\ CallOf(req) \notin {"pin_announcement", "pin_summary"}
  PROVE  Knows(req, ev)
<1>1. CASE /\ old.op = "new"
           /\ CallOf(old) \in {"pin_announcement", "pin_summary"}
           /\ CallOf(req) \in {"post_recruit", "set_messages"}
  BY <1>1 DEF Knows, Made
<1>2. CASE /\ old.op = "edit" \/ old.op = "end"
           /\ CallOf(old) \in Tolerated /\ CallOf(old) \notin {"pin_announcement", "pin_summary"}
           /\ CallOf(req) \in Tolerated \cup {"enqueue_archive"}
           /\ CallOf(req) \notin {"pin_announcement", "pin_summary"}
  BY <1>2 DEF Knows, Made, Tolerated, Redraws
<1> QED
  BY <1>1, <1>2

\* r goes on from a call that another one always follows.
LEMMA GoesOnTo ==
  ASSUME TypeInv, NEW r \in Reqs, NEW call, At(r, call),
         call \notin {"insert", "edit", "close", "notify"},
         Going(r, reqs[r].ev), NEW next, next # "none", NextCalls(reqs[r].op, call) = {next}
  PROVE  /\ reqs[r].event \in DOMAIN events /\ CallOf(reqs[r]) = call
         /\ reqs'[r] # Idle /\ reqs'[r].event = reqs[r].event /\ reqs'[r].op = reqs[r].op
         /\ reqs'[r].ev = reqs[r].ev /\ CallOf(reqs'[r]) = next
         /\ UNCHANGED events
<1>1. reqs[r].event \in DOMAIN events /\ CallOf(reqs[r]) = call
  BY CallIs
<1>2. Advanced(r, reqs[r].ev) /\ UNCHANGED events
  BY DEF Going
<1> QED
  BY <1>1, <1>2, GoesOn

LEMMA PinAnnouncementAgrees ==
  ASSUME TypeInv, RefInv, AgreeInv, NEW r \in Reqs, PinStep(r),
         PinWrites(r, "pin_announcement", "announcement", TRUE)
  PROVE  AgreeInv'
<1> DEFINE e == reqs[r].event
           ev == events[e]
           refs == reqs[r].ev.refs
           id == Ref(r, "announcement")
           post == [PostOf(id) EXCEPT !.pinned = TRUE]
           req == reqs'[r]
<1>1. /\ At(r, "pin_announcement") /\ Going(r, reqs[r].ev) /\ Written(id, post, e)
      /\ "pin_announcement" \in Tolerated /\ "announcement" \in RefNames
      /\ faults' = faults \/ faults' = faults + 1
  BY TolerantFaults DEF PinWrites, Tolerated, RefNames
<1>2. /\ e \in DOMAIN events /\ CallOf(reqs[r]) = "pin_announcement" /\ req # Idle
      /\ req.event = e /\ req.op = reqs[r].op /\ req.ev = reqs[r].ev
      /\ CallOf(req) = "post_recruit" /\ UNCHANGED events
  <2>1. NextCalls(reqs[r].op, "pin_announcement") = {"post_recruit"}
    BY DEF NextCalls
  <2> QED
    BY <1>1, <2>1, GoesOnTo
<1>3. reqs[r].op = "new"
  BY <1>1, MadeIs DEF Made
<1>4. ASSUME Alone(r)
      PROVE  Own(r)
  <2>1. Agrees(reqs[r], ev, posts) /\ Knows(reqs[r], ev)
    BY <1>2, <1>4, AloneAgrees
  <2>2. Sees(reqs[r], ev, refs, {}, {})
    BY <1>2, SeesNothing
  <2>3. Sees(req, ev, refs, {}, {id})
    BY <1>2, SeesPosted DEF Ref
  <2>4. Shows(posts, e, ev, refs, {}, {})
    BY <2>1, <2>2, AgreesIs
  <2>5. Knows(req, ev)
    BY <1>2, <1>3, <2>1, KnowsNext
  <2>6. ~Missing(r, "announcement") => post.message = PostOf(id).message /\ (post.pinned <=> id \in {id})
    BY <1>1, Repinned
  <2> HIDE DEF ev, post, refs, req
  <2>7. Shows(posts', e, ev, refs, {}, {id})
    BY <1>1, <1>4, <2>4, <2>6, PinShows
  <2> QED
    BY <1>2, <2>3, <2>5, <2>7, OwnIs DEF ev, req
<1>5. PostsGrow(e)
  BY <1>1, WrittenGrows
<1> QED
  BY <1>1, <1>2, <1>4, <1>5, GoingAgrees

LEMMA PinSummaryAgrees ==
  ASSUME TypeInv, RefInv, AgreeInv, NEW r \in Reqs, PinStep(r),
         PinWrites(r, "pin_summary", "summary", TRUE)
  PROVE  AgreeInv'
<1> DEFINE e == reqs[r].event
           ev == events[e]
           refs == reqs[r].ev.refs
           id == Ref(r, "summary")
           post == [PostOf(id) EXCEPT !.pinned = TRUE]
           pins == {refs.announcement}
           pins2 == {refs.announcement, id}
           req == reqs'[r]
<1>1. /\ At(r, "pin_summary") /\ Going(r, reqs[r].ev) /\ Written(id, post, e)
      /\ "pin_summary" \in Tolerated /\ "summary" \in RefNames
      /\ faults' = faults \/ faults' = faults + 1
  BY TolerantFaults DEF PinWrites, Tolerated, RefNames
<1>2. /\ e \in DOMAIN events /\ CallOf(reqs[r]) = "pin_summary" /\ req # Idle
      /\ req.event = e /\ req.op = reqs[r].op /\ req.ev = reqs[r].ev
      /\ CallOf(req) = "set_messages" /\ UNCHANGED events
  <2>1. NextCalls(reqs[r].op, "pin_summary") = {"set_messages"}
    BY DEF NextCalls
  <2> QED
    BY <1>1, <2>1, GoesOnTo
<1>3. reqs[r].op = "new"
  BY <1>1, MadeIs DEF Made
<1>4. ASSUME Alone(r)
      PROVE  Own(r)
  <2>1. Agrees(reqs[r], ev, posts) /\ Knows(reqs[r], ev)
    BY <1>2, <1>4, AloneAgrees
  <2>2. Sees(reqs[r], ev, refs, {}, pins)
    BY <1>2, SeesPosted
  <2>3. Sees(req, ev, refs, {}, pins2)
    BY <1>2, SeesPosted DEF Ref
  <2>4. Shows(posts, e, ev, refs, {}, pins)
    BY <2>1, <2>2, AgreesIs
  <2>5. Knows(req, ev)
    BY <1>2, <1>3, <2>1, KnowsNext
  <2>6. ~Missing(r, "summary") => post.message = PostOf(id).message /\ (post.pinned <=> id \in pins2)
    BY <1>1, Repinned
  <2>7. \A i : i # NoPost /\ i # id => (i \in pins <=> i \in pins2)
    OBVIOUS
  <2> HIDE DEF ev, post, refs, req, pins, pins2
  <2>8. Shows(posts', e, ev, refs, {}, pins2)
    BY <1>1, <1>4, <2>4, <2>6, <2>7, PinShows
  <2> QED
    BY <1>2, <2>3, <2>5, <2>8, OwnIs DEF ev, req
<1>5. PostsGrow(e)
  BY <1>1, WrittenGrows
<1> QED
  BY <1>1, <1>2, <1>4, <1>5, GoingAgrees

\* The announcement and the summary are two messages.
LEMMA RefsDiffer ==
  ASSUME TypeInv, RefInv, NEW r \in Reqs, NEW call \in Tolerated, At(r, call)
  PROVE  Ref(r, "announcement") # NoPost => Ref(r, "announcement") # Ref(r, "summary")
<1>1. CASE Missing(r, "announcement") \/ Missing(r, "summary")
  BY <1>1 DEF Missing
<1>2. CASE ~Missing(r, "announcement") /\ ~Missing(r, "summary")
  <2>1. PostOf(Ref(r, "announcement")).message.kind = "announcement"
    BY <1>2, RefIs DEF RefNames
  <2>2. PostOf(Ref(r, "summary")).message.kind = "summary"
    BY <1>2, RefIs DEF RefNames
  <2> QED
    BY <2>1, <2>2
<1> QED
  BY <1>1, <1>2

\* A message of an event that is being closed, of which everything is known.
LEMMA EndKnows ==
  ASSUME TypeInv, AgreeInv, NEW r \in Reqs, NEW call, At(r, call), Alone(r),
         call \in {"unpin_announcement", "unpin_summary", "post_closing"}
  PROVE  /\ reqs[r].op = "end" /\ Knows(reqs[r], events[reqs[r].event])
         /\ reqs[r].ev = events[reqs[r].event] /\ ~events[reqs[r].event].open
         /\ Agrees(reqs[r], events[reqs[r].event], posts)
<1>1. reqs[r].op = "end" /\ reqs[r].event \in DOMAIN events /\ CallOf(reqs[r]) = call
  BY OpOfCall, CallIs
<1>2. Knows(reqs[r], events[reqs[r].event]) /\ Agrees(reqs[r], events[reqs[r].event], posts)
  BY <1>1, AloneAgrees
<1> QED
  BY <1>1, <1>2 DEF Knows

LEMMA UnpinAnnouncementAgrees ==
  ASSUME TypeInv, RefInv, AgreeInv, NEW r \in Reqs, PinStep(r),
         PinWrites(r, "unpin_announcement", "announcement", FALSE)
  PROVE  AgreeInv'
<1> DEFINE e == reqs[r].event
           ev == events[e]
           refs == ev.refs
           id == Ref(r, "announcement")
           post == [PostOf(id) EXCEPT !.pinned = FALSE]
           pins == {refs.announcement, refs.summary}
           pins2 == {refs.summary}
           req == reqs'[r]
<1>1. /\ At(r, "unpin_announcement") /\ Going(r, reqs[r].ev) /\ Written(id, post, e)
      /\ "unpin_announcement" \in Tolerated /\ "announcement" \in RefNames
      /\ faults' = faults \/ faults' = faults + 1
  BY TolerantFaults DEF PinWrites, Tolerated, RefNames
<1>2. /\ e \in DOMAIN events /\ CallOf(reqs[r]) = "unpin_announcement" /\ req # Idle
      /\ req.event = e /\ req.op = reqs[r].op /\ req.ev = reqs[r].ev
      /\ CallOf(req) = "unpin_summary" /\ UNCHANGED events
  <2>1. NextCalls(reqs[r].op, "unpin_announcement") = {"unpin_summary"}
    BY DEF NextCalls
  <2> QED
    BY <1>1, <2>1, GoesOnTo
<1>3. ASSUME Alone(r)
      PROVE  Own(r)
  <2>1. /\ Agrees(reqs[r], ev, posts) /\ Knows(reqs[r], ev) /\ reqs[r].op = "end"
        /\ reqs[r].ev = ev
    BY <1>1, <1>3, EndKnows
  <2>2. Sees(reqs[r], ev, refs, {}, pins)
    BY <1>2, <2>1, SeesStale
  <2>3. Sees(req, ev, refs, {}, pins2)
    BY <1>2, SeesStale
  <2>4. Shows(posts, e, ev, refs, {}, pins)
    BY <2>1, <2>2, AgreesIs
  <2>5. Knows(req, ev)
    BY <1>1, <1>2, <2>1, KnowsNext DEF Tolerated
  <2>6. id = refs.announcement /\ Ref(r, "summary") = refs.summary
    BY <2>1 DEF Ref
  <2>7. ~Missing(r, "announcement") => id \notin pins2
    BY <1>1, <2>6, RefsDiffer DEF Missing
  <2>8. ~Missing(r, "announcement") => post.message = PostOf(id).message /\ (post.pinned <=> id \in pins2)
    BY <1>1, <2>7, Repinned
  <2>9. \A i : i # NoPost /\ i # id => (i \in pins <=> i \in pins2)
    BY <2>6
  <2> HIDE DEF ev, post, refs, req, pins, pins2
  <2>10. Shows(posts', e, ev, refs, {}, pins2)
    BY <1>1, <1>3, <2>4, <2>8, <2>9, PinShows
  <2> QED
    BY <1>2, <2>3, <2>5, <2>10, OwnIs DEF ev, req
<1>4. PostsGrow(e)
  BY <1>1, WrittenGrows
<1> QED
  BY <1>1, <1>2, <1>3, <1>4, GoingAgrees

LEMMA UnpinSummaryAgrees ==
  ASSUME TypeInv, RefInv, AgreeInv, NEW r \in Reqs, PinStep(r),
         PinWrites(r, "unpin_summary", "summary", FALSE)
  PROVE  AgreeInv'
<1> DEFINE e == reqs[r].event
           ev == events[e]
           refs == ev.refs
           id == Ref(r, "summary")
           post == [PostOf(id) EXCEPT !.pinned = FALSE]
           pins == {refs.summary}
           req == reqs'[r]
<1>1. /\ At(r, "unpin_summary") /\ Going(r, reqs[r].ev) /\ Written(id, post, e)
      /\ "unpin_summary" \in Tolerated /\ "summary" \in RefNames
      /\ faults' = faults \/ faults' = faults + 1
  BY TolerantFaults DEF PinWrites, Tolerated, RefNames
<1>2. /\ e \in DOMAIN events /\ CallOf(reqs[r]) = "unpin_summary" /\ req # Idle
      /\ req.event = e /\ req.op = reqs[r].op /\ req.ev = reqs[r].ev
      /\ CallOf(req) = "post_closing" /\ UNCHANGED events
  <2>1. NextCalls(reqs[r].op, "unpin_summary") = {"post_closing"}
    BY DEF NextCalls
  <2> QED
    BY <1>1, <2>1, GoesOnTo
<1>3. ASSUME Alone(r)
      PROVE  Own(r)
  <2>1. /\ Agrees(reqs[r], ev, posts) /\ Knows(reqs[r], ev) /\ reqs[r].op = "end"
        /\ reqs[r].ev = ev /\ ~ev.open
    BY <1>1, <1>3, EndKnows
  <2>2. Sees(reqs[r], ev, refs, {}, pins)
    BY <1>2, SeesStale
  <2>3. Sees(req, ev, refs, {}, {})
    <3>1. Sees(req, ev, refs, {}, Pins(ev))
      BY <1>2, SeesStored
    <3>2. Pins(ev) = {}
      BY <2>1 DEF Pins
    <3> QED
      BY <3>1, <3>2
  <2>4. Shows(posts, e, ev, refs, {}, pins)
    BY <2>1, <2>2, AgreesIs
  <2>5. Knows(req, ev)
    BY <1>1, <1>2, <2>1, KnowsNext DEF Tolerated
  <2>6. ~Missing(r, "summary") => post.message = PostOf(id).message /\ (post.pinned <=> id \in {})
    BY <1>1, Repinned
  <2>7. \A i : i # NoPost /\ i # id => (i \in pins <=> i \in {})
    BY <2>1 DEF Ref
  <2> HIDE DEF ev, post, refs, req, pins
  <2>8. Shows(posts', e, ev, refs, {}, {})
    BY <1>1, <1>3, <2>4, <2>6, <2>7, PinShows
  <2> QED
    BY <1>2, <2>3, <2>5, <2>8, OwnIs DEF ev, req
<1>4. PostsGrow(e)
  BY <1>1, WrittenGrows
<1> QED
  BY <1>1, <1>2, <1>3, <1>4, GoingAgrees

\* Before the last of the messages has been redrawn.
LEMMA RedrawKnows ==
  ASSUME TypeInv, AgreeInv, NEW r \in Reqs, NEW call, At(r, call), Alone(r), call \in Redraws
  PROVE  /\ reqs[r].op = "edit" \/ reqs[r].op = "end"
         /\ Knows(reqs[r], events[reqs[r].event])
         /\ reqs[r].ev = events[reqs[r].event]
         /\ Agrees(reqs[r], events[reqs[r].event], posts)
<1>1. /\ reqs[r].op = "edit" \/ reqs[r].op = "end"
      /\ reqs[r].event \in DOMAIN events /\ CallOf(reqs[r]) = call
  BY OpOfCall, CallIs DEF Redraws
<1>2. Knows(reqs[r], events[reqs[r].event]) /\ Agrees(reqs[r], events[reqs[r].event], posts)
  BY <1>1, AloneAgrees
<1> QED
  BY <1>1, <1>2 DEF Knows, Redraws

\* The posts that stay pinned while messages are redrawn.
Staying(req, ev) ==
  IF req.op = "end" THEN {ev.refs.announcement, ev.refs.summary} ELSE Pins(ev)

LEMMA SeesStaying ==
  ASSUME NEW req, NEW ev
  PROVE  /\ CallOf(req) = "redraw_announcement" =>
              Sees(req, ev, ev.refs, {ev.refs.announcement, ev.refs.recruit, ev.refs.summary},
                   Staying(req, ev))
         /\ CallOf(req) = "redraw_recruit" =>
              Sees(req, ev, ev.refs, {ev.refs.recruit, ev.refs.summary}, Staying(req, ev))
         /\ CallOf(req) = "redraw_summary" =>
              Sees(req, ev, ev.refs, {ev.refs.summary}, Staying(req, ev))
         /\ CallOf(req) = "unpin_announcement" =>
              Sees(req, ev, ev.refs, {}, Staying(req, ev))
BY SeesStale DEF Staying

\* A redrawing, after which stale2 are those that have yet to be redrawn.
LEMMA RedrawOn ==
  ASSUME TypeInv, RefInv, AgreeInv, NEW r \in Reqs, NEW call \in Redraws, At(r, call),
         Going(r, reqs[r].ev), faults' = faults \/ faults' = faults + 1,
         NEW name \in RefNames, NEW post, Written(Ref(r, name), post, reqs[r].event),
         ~Missing(r, name) =>
           /\ post.pinned = PostOf(Ref(r, name)).pinned
           /\ name = "summary" => post.message = Summary(reqs[r].event, reqs[r].ev)
           /\ name # "summary" => post.message = Announcement(reqs[r].event, reqs[r].ev),
         NEW stale, NEW stale2,
         Sees(reqs[r], events[reqs[r].event], events[reqs[r].event].refs, stale,
              Staying(reqs[r], events[reqs[r].event])),
         \A i : i \in stale /\ i # events[reqs[r].event].refs[name] => i \in stale2,
         reqs'[r] = Idle => stale2 = {} /\ reqs[r].op = "edit",
         reqs'[r] # Idle =>
           /\ CallOf(reqs'[r]) \in Redraws \cup {"unpin_announcement"}
           /\ Sees(reqs'[r], events[reqs[r].event], events[reqs[r].event].refs, stale2,
                   Staying(reqs'[r], events[reqs[r].event]))
  PROVE  AgreeInv'
<1> DEFINE e == reqs[r].event
           ev == events[e]
           id == Ref(r, name)
           pins == Staying(reqs[r], ev)
           req == reqs'[r]
<1>1. /\ e \in DOMAIN events /\ CallOf(reqs[r]) = call /\ UNCHANGED events
      /\ req # Idle => req.event = e /\ req.op = reqs[r].op /\ req.ev = reqs[r].ev
  BY CallIs DEF Going, Advanced, SameRequest, Redraws
<1>2. call \in Tolerated
  BY DEF Tolerated
<1>3. ASSUME Alone(r)
      PROVE  Own(r)
  <2>1. /\ Agrees(reqs[r], ev, posts) /\ Knows(reqs[r], ev) /\ reqs[r].ev = ev
        /\ reqs[r].op = "edit" \/ reqs[r].op = "end"
    BY <1>3, RedrawKnows
  <2>2. Shows(posts, e, ev, ev.refs, stale, pins)
    BY <2>1, AgreesIs
  <2>3. req # Idle => Knows(req, ev)
    BY <1>1, <1>2, <2>1, KnowsNext DEF Tolerated, Redraws
  <2>4. /\ req = Idle => stale2 = {} /\ pins = Pins(ev)
        /\ req # Idle => Sees(req, ev, ev.refs, stale2, pins)
    BY <1>1 DEF Staying
  <2>5. \A i : i # NoPost /\ i # id /\ i \in stale => i \in stale2
    BY <2>1 DEF Ref
  <2>6. ~Missing(r, name) =>
          /\ post.pinned = PostOf(id).pinned
          /\ name = "summary" => post.message = Summary(e, ev)
          /\ name # "summary" => post.message = Announcement(e, ev)
    BY <2>1
  <2> HIDE DEF ev, req, pins
  <2>7. Shows(posts', e, ev, ev.refs, stale2, pins)
    BY <1>2, <1>3, <2>2, <2>5, <2>6, RedrawShows
  <2> QED
    BY <1>1, <2>3, <2>4, <2>7, OwnIs DEF ev, req
<1>4. PostsGrow(e)
  BY WrittenGrows
<1> QED
  BY <1>1, <1>3, <1>4, GoingAgrees

LEMMA RedrawAnnouncementAgrees ==
  ASSUME TypeInv, RefInv, AgreeInv, NEW r \in Reqs, RedrawStep(r),
         RedrawWrites(r, "redraw_announcement", "announcement",
                      Announcement(reqs[r].event, reqs[r].ev))
  PROVE  AgreeInv'
<1> DEFINE ev == events[reqs[r].event]
           id == Ref(r, "announcement")
           m == Announcement(reqs[r].event, reqs[r].ev)
           post == [PostOf(id) EXCEPT !.message = m]
           stale == {ev.refs.announcement, ev.refs.recruit, ev.refs.summary}
           stale2 == {ev.refs.recruit, ev.refs.summary}
           req == reqs'[r]
<1>1. /\ At(r, "redraw_announcement") /\ Going(r, reqs[r].ev)
      /\ Written(id, post, reqs[r].event)
      /\ "redraw_announcement" \in Redraws /\ "redraw_announcement" \in Tolerated
      /\ "announcement" \in RefNames
      /\ faults' = faults \/ faults' = faults + 1
  BY TolerantFaults DEF RedrawWrites, Redraws, Tolerated, RefNames
<1>2. /\ CallOf(reqs[r]) = "redraw_announcement" /\ req # Idle
      /\ CallOf(req) = "redraw_recruit"
  <2>1. NextCalls(reqs[r].op, "redraw_announcement") = {"redraw_recruit"}
    BY DEF NextCalls
  <2> QED
    BY <1>1, <2>1, GoesOnTo
<1>3. ~Missing(r, "announcement") => post.message = m /\ post.pinned = PostOf(id).pinned
  BY <1>1, Repinned
<1>4. /\ Sees(reqs[r], ev, ev.refs, stale, Staying(reqs[r], ev))
      /\ Sees(req, ev, ev.refs, stale2, Staying(req, ev))
      /\ \A i : i \in stale /\ i # ev.refs["announcement"] => i \in stale2
  BY <1>2, SeesStaying
<1> HIDE DEF m, post, stale, stale2
<1> QED
  BY <1>1, <1>2, <1>3, <1>4, RedrawOn DEF m, Redraws

LEMMA RedrawRecruitAgrees ==
  ASSUME TypeInv, RefInv, AgreeInv, NEW r \in Reqs, RedrawStep(r),
         RedrawWrites(r, "redraw_recruit", "recruit", Announcement(reqs[r].event, reqs[r].ev))
  PROVE  AgreeInv'
<1> DEFINE ev == events[reqs[r].event]
           id == Ref(r, "recruit")
           m == Announcement(reqs[r].event, reqs[r].ev)
           post == [PostOf(id) EXCEPT !.message = m]
           stale == {ev.refs.recruit, ev.refs.summary}
           stale2 == {ev.refs.summary}
           req == reqs'[r]
<1>1. /\ At(r, "redraw_recruit") /\ Going(r, reqs[r].ev) /\ Written(id, post, reqs[r].event)
      /\ "redraw_recruit" \in Redraws /\ "redraw_recruit" \in Tolerated /\ "recruit" \in RefNames
      /\ faults' = faults \/ faults' = faults + 1
  BY TolerantFaults DEF RedrawWrites, Redraws, Tolerated, RefNames
<1>2. /\ CallOf(reqs[r]) = "redraw_recruit" /\ req # Idle /\ CallOf(req) = "redraw_summary"
  <2>1. NextCalls(reqs[r].op, "redraw_recruit") = {"redraw_summary"}
    BY DEF NextCalls
  <2> QED
    BY <1>1, <2>1, GoesOnTo
<1>3. ~Missing(r, "recruit") => post.message = m /\ post.pinned = PostOf(id).pinned
  BY <1>1, Repinned
<1>4. /\ Sees(reqs[r], ev, ev.refs, stale, Staying(reqs[r], ev))
      /\ Sees(req, ev, ev.refs, stale2, Staying(req, ev))
      /\ \A i : i \in stale /\ i # ev.refs["recruit"] => i \in stale2
  BY <1>2, SeesStaying
<1> HIDE DEF m, post, stale, stale2
<1> QED
  BY <1>1, <1>2, <1>3, <1>4, RedrawOn DEF m, Redraws

LEMMA RedrawSummaryAgrees ==
  ASSUME TypeInv, RefInv, AgreeInv, NEW r \in Reqs, RedrawStep(r),
         RedrawWrites(r, "redraw_summary", "summary", Summary(reqs[r].event, reqs[r].ev))
  PROVE  AgreeInv'
<1> DEFINE ev == events[reqs[r].event]
           id == Ref(r, "summary")
           m == Summary(reqs[r].event, reqs[r].ev)
           post == [PostOf(id) EXCEPT !.message = m]
           stale == {ev.refs.summary}
           req == reqs'[r]
<1>1. /\ At(r, "redraw_summary") /\ Going(r, reqs[r].ev) /\ Written(id, post, reqs[r].event)
      /\ "redraw_summary" \in Redraws /\ "redraw_summary" \in Tolerated /\ "summary" \in RefNames
      /\ faults' = faults \/ faults' = faults + 1
  BY TolerantFaults DEF RedrawWrites, Redraws, Tolerated, RefNames
<1>2. CallOf(reqs[r]) = "redraw_summary" /\ (reqs[r].op = "edit" \/ reqs[r].op = "end")
  BY <1>1, CallIs, OpOfCall DEF Redraws
<1>3. /\ req = Idle => reqs[r].op = "edit"
      /\ req # Idle => CallOf(req) = "unpin_announcement"
  <2>1. /\ CallOf(req) \in NextCalls(reqs[r].op, "redraw_summary")
        /\ req = Idle \/ CallOf(req) # "none"
    BY <1>1, <1>2 DEF Going, Advanced
  <2>2. NextCalls(reqs[r].op, "redraw_summary")
          = IF reqs[r].op = "edit" THEN {"none"} ELSE {"unpin_announcement"}
    BY DEF NextCalls
  <2>3. CallOf(Idle) = "none"
    BY IdleMakesNone DEF CallOf
  <2> QED
    BY <1>2, <2>1, <2>2, <2>3
<1>4. ~Missing(r, "summary") => post.message = m /\ post.pinned = PostOf(id).pinned
  BY <1>1, Repinned
<1>5. /\ Sees(reqs[r], ev, ev.refs, stale, Staying(reqs[r], ev))
      /\ req # Idle => Sees(req, ev, ev.refs, {}, Staying(req, ev))
      /\ \A i : i \in stale /\ i # ev.refs["summary"] => i \in {}
  BY <1>2, <1>3, SeesStaying
<1> HIDE DEF m, post, stale
<1> QED
  BY <1>1, <1>3, <1>4, <1>5, RedrawOn DEF m

LEMMA PostClosingAgrees ==
  ASSUME TypeInv, RefInv, AgreeInv, NEW r \in Reqs, PostClosing(r)
  PROVE  AgreeInv'
<1> DEFINE e == reqs[r].event
           ev == events[e]
           m == ClosingMessage(e)
           req == reqs'[r]
<1>1. /\ At(r, "post_closing") /\ Going(r, reqs[r].ev)
      /\ faults' = faults \/ faults' = faults + 1
  BY PostClosingTypes, TolerantFaults
<1>2. PICK id : Touches(id, NewPost(m), e)
  BY PostClosingTypes
<1>3. /\ e \in DOMAIN events /\ CallOf(reqs[r]) = "post_closing" /\ req # Idle
      /\ req.event = e /\ req.op = reqs[r].op /\ req.ev = reqs[r].ev
      /\ CallOf(req) = "enqueue_archive" /\ UNCHANGED events
  <2>1. NextCalls(reqs[r].op, "post_closing") = {"enqueue_archive"}
    BY DEF NextCalls
  <2> QED
    BY <1>1, <2>1, GoesOnTo
<1>4. ASSUME Alone(r)
      PROVE  Own(r)
  <2>1. /\ Agrees(reqs[r], ev, posts) /\ Knows(reqs[r], ev) /\ reqs[r].op = "end"
        /\ reqs[r].ev = ev /\ ~ev.open
    BY <1>1, <1>4, EndKnows
  <2>2. Pins(ev) = {}
    BY <2>1 DEF Pins
  <2>3. Sees(reqs[r], ev, ev.refs, {}, {}) /\ Sees(req, ev, ev.refs, {}, {})
    <3>1. Sees(reqs[r], ev, ev.refs, {}, Pins(ev)) /\ Sees(req, ev, ev.refs, {}, Pins(ev))
      BY <1>3, SeesStored
    <3> QED
      BY <2>2, <3>1
  <2>4. Shows(posts, e, ev, ev.refs, {}, {})
    BY <2>1, <2>3, AgreesIs
  <2>5. Knows(req, ev)
    BY <1>3, <2>1, KnowsNext DEF Tolerated
  <2>6. PostShows(id, NewPost(m), e, ev, ev.refs, {}, {}) /\ Effect(id, NewPost(m))
    BY <1>2 DEF PostShows, NewPost, ClosingMessage, Touches
  <2> HIDE DEF ev, m, req
  <2>7. Shows(posts', e, ev, ev.refs, {}, {})
    BY <2>4, <2>6, ShowsEffect
  <2> QED
    BY <1>3, <2>3, <2>5, <2>7, OwnIs DEF ev, req
<1>5. PostsGrow(e)
  BY <1>2, TouchGrows
<1> QED
  BY <1>1, <1>3, <1>4, <1>5, GoingAgrees

LEMMA StepAgrees ==
  ASSUME TypeInv, RefInv, AgreeInv, FreshInv, NEW r \in Reqs, Step(r)
  PROVE  AgreeInv'
<1>1. CASE PinStep(r)
  BY <1>1, PinStepTypes, PinAnnouncementAgrees, PinSummaryAgrees, UnpinAnnouncementAgrees,
     UnpinSummaryAgrees
<1>2. CASE RedrawStep(r)
  BY <1>2, RedrawStepTypes, RedrawAnnouncementAgrees, RedrawRecruitAgrees, RedrawSummaryAgrees
<1>3. CASE InsertEvent(r) \/ CreateChannel(r) \/ SetChannel(r) \/ SetMessages(r) \/ Plan(r)
  BY <1>3, InsertEventAgrees, CreateChannelAgrees, SetChannelAgrees, SetMessagesAgrees, PlanAgrees
<1>4. CASE PostAnnouncement(r) \/ PostRecruit(r) \/ PostSummary(r) \/ PostClosing(r)
  BY <1>4, PostAnnouncementAgrees, PostRecruitAgrees, PostSummaryAgrees, PostClosingAgrees
<1>5. CASE CancelCreation(r) \/ Notify(r) \/ EditEvent(r) \/ CloseEvent(r)
  BY <1>5, CancelCreationAgrees, NotifyAgrees, EditEventAgrees
<1>6. CASE EnqueueArchive(r) \/ Archive(r) \/ SetArchived(r)
  BY <1>6, EnqueueArchiveAgrees, ArchiveAgrees, SetArchivedAgrees
<1> QED
  BY <1>1, <1>2, <1>3, <1>4, <1>5, <1>6 DEF Step, PinStep, RedrawStep

LEMMA NextAgrees ==
  ASSUME TypeInv, RefInv, AgreeInv, FreshInv, [Next]_vars
  PROVE  AgreeInv'
<1>1. ASSUME NEW u \in Users, Opening(u)
      PROVE  AgreeInv'
  BY <1>1, OpeningTypes, UnmovedAgrees
<1>2. ASSUME NEW r \in Reqs, NEW u \in Users, Commands(r, u) \/ Submissions(r, u)
      PROVE  AgreeInv'
  BY <1>2, CommandsStart, StartAgrees
<1>3. ASSUME NEW r \in Reqs, Step(r)
      PROVE  AgreeInv'
  BY <1>3, StepAgrees
<1>4. ASSUME NEW r \in Reqs, NEW e \in archives, StartArchiving(r, e)
      PROVE  AgreeInv'
  BY <1>4, StartArchivingTypes, StartAgrees
<1>5. ASSUME NEW room \in Rooms \cup {None}, RecruitCommand(room)
      PROVE  AgreeInv'
  BY <1>5, RecruitTypes, UnmovedAgrees
<1>6. CASE Tick
  BY <1>6, TickTypes, UnmovedAgrees
<1>7. CASE UNCHANGED vars
  <2>1. UNCHANGED <<events, posts, crossed, reqs, faults>>
    BY <1>7 DEF vars, providerVars
  <2> QED
    BY <2>1 DEF AgreeInv, Busy
<1> QED
  BY <1>1, <1>2, <1>3, <1>4, <1>5, <1>6, <1>7 DEF Next

LEMMA AgreeFollows == TypeInv /\ AgreeInv => MessagesAgree
<1> SUFFICES ASSUME TypeInv, AgreeInv, NEW e \in DOMAIN events \ crossed, faults = 0, ~Busy(e),
                    NEW c \in DOMAIN posts, NEW n \in DOMAIN posts[c],
                    PostOf(<<c, n>>).message.event = e
             PROVE  LET ev == events[e]
                        post == PostOf(<<c, n>>)
                    IN  /\ post.message.kind = "announcement" => post.message = Announcement(e, ev)
                        /\ post.message.kind = "summary" => post.message = Summary(e, ev)
                        /\ post.pinned <=> ev.open /\ <<c, n>> \in {ev.refs.announcement, ev.refs.summary}
  BY DEF MessagesAgree
<1>1. PostOf(<<c, n>>) = posts[c][n]
  BY DEF PostOf
<1>2. Shows(posts, e, events[e], events[e].refs, {}, Pins(events[e]))
  BY DEF AgreeInv, AtRest
<1>3. PostShows(<<c, n>>, posts[c][n], e, events[e], events[e].refs, {}, Pins(events[e]))
  BY <1>1, <1>2 DEF Shows
<1> QED
  BY <1>1, <1>3 DEF PostShows, Pins

-----------------------------------------------------------------------------
(* The events nobody else is about are as a request has read them.         *)

LEMMA AdvancedFresh ==
  ASSUME TypeInv, NEW r \in Reqs, NEW call, At(r, call), call # "cancel", NEW ev, Advanced(r, ev)
  PROVE  Fresh(reqs'[r], events')
<1>1. call = CallOf(reqs[r]) /\ call \in CallsOf(reqs[r].op) /\ reqs[r].op \in Ops
  BY AtIs DEF TypeInv
<1>2. CallOf(reqs'[r]) \in NextCalls(reqs[r].op, call)
  BY <1>1 DEF Advanced
<1>3. CallOf(reqs'[r]) \notin {"edit", "close", "notify"}
  BY <1>1, <1>2, NextIs
<1> QED
  BY <1>3 DEF Fresh

LEMMA EndedFresh ==
  ASSUME NEW r \in Reqs, Ended(r)
  PROVE  Fresh(reqs'[r], events')
BY IdleIs DEF Ended, Fresh

\* What a step leaves of the other events, and what it makes r know.
Leaves(r) ==
  /\ crossed' = crossed
  /\ \A d \in DOMAIN events : d # reqs[r].event => events'[d] = events[d]
  /\ Fresh(reqs'[r], events')

LEMMA InsertEventLeaves ==
  ASSUME TypeInv, NEW r \in Reqs, InsertEvent(r)
  PROVE  Leaves(r)
<1>1. /\ At(r, "insert") /\ crossed' = crossed
      /\ \/ Inserted(r)
         \/ UNCHANGED events /\ (Ended(r) \/ Turned(r, "notify", TRUE))
  BY InsertEventTypes
<1>2. reqs[r].event = None
  BY <1>1, AtIs DEF TypeInv, RequestOK, AboutEvent
<1>3. CASE Inserted(r)
  BY <1>1, <1>3 DEF Inserted, Leaves, Fresh
<1>4. CASE UNCHANGED events /\ Ended(r)
  BY <1>1, <1>4, EndedFresh DEF Leaves
<1>5. CASE UNCHANGED events /\ Turned(r, "notify", TRUE)
  BY <1>1, <1>2, <1>5 DEF Turned, SameRequest, Leaves, Fresh, NotMade
<1> QED
  BY <1>1, <1>3, <1>4, <1>5

LEMMA PlanLeaves ==
  ASSUME TypeInv, NEW r \in Reqs, Plan(r)
  PROVE  Leaves(r)
<1>1. /\ UNCHANGED <<events, crossed>>
      /\ \/ Ended(r)
         \/ Turned(r, "notify", TRUE) /\ reqs[r].ev.given.policy = "daily"
         \/ Turned(r, "notify", FALSE)
  BY PlanTypes
<1>2. CASE Ended(r)
  BY <1>1, <1>2, EndedFresh DEF Leaves
<1>3. CASE ~Ended(r)
  BY <1>1, <1>3 DEF Turned, SameRequest, Leaves, Fresh, NotMade
<1> QED
  BY <1>2, <1>3

\* The failed creation has canceled its event.
LEMMA CancelCreationLeaves ==
  ASSUME TypeInv, NEW r \in Reqs, CancelCreation(r)
  PROVE  Leaves(r)
<1> DEFINE e == reqs[r].event
           ev == reqs[r].ev
           doc == WithGiven(events[e], ev.given, FALSE)
           req == reqs'[r]
<1>1. At(r, "cancel") /\ Advanced(r, ev) /\ Wrote(e, doc) /\ crossed' = crossed
  BY CancelCreationTypes
<1>2. e \in DOMAIN events /\ ev.given \in Given /\ events[e] \in Event
  BY <1>1, CallIs, DocIs DEF Event
<1>3. ~doc.open
  BY <1>2, WithGivenTypes
<1> HIDE DEF doc
<1>4. ~events'[e].open
  BY <1>1, <1>2, <1>3 DEF Wrote
<1>5. CallOf(req) \in {"notify", "none"}
  <2>1. CallOf(reqs[r]) = "cancel"
    BY <1>1, AtIs DEF TypeInv
  <2> QED
    BY <1>1, <2>1 DEF Advanced, NextCalls
<1>6. CallOf(req) = "notify" => req.event = e
  BY <1>1, IdleIs DEF Advanced, SameRequest
<1>7. Fresh(req, events')
  BY <1>4, <1>5, <1>6 DEF Fresh, NotMade
<1> QED
  BY <1>1, <1>7 DEF Leaves, Wrote

LEMMA StepLeaves ==
  ASSUME TypeInv, RefInv, NEW r \in Reqs, Step(r)
  PROVE  Leaves(r)
<1>1. CASE InsertEvent(r) \/ Plan(r) \/ CancelCreation(r)
  BY <1>1, InsertEventLeaves, PlanLeaves, CancelCreationLeaves
<1>2. CASE CreateChannel(r)
  <2>1. /\ At(r, "create_channel") /\ UNCHANGED <<events, crossed>>
        /\ \/ CallOf(reqs'[r]) \in {"create_channel", "cancel"}
           \/ \E ev : Advanced(r, ev)
    BY <1>2, CreateChannelTypes DEF Retried, Aborted, Turned, Going
  <2> QED
    BY <2>1, AdvancedFresh DEF Leaves, Fresh
<1>3. CASE SetChannel(r) \/ SetMessages(r) \/ SetArchived(r)
  <2>1. PICK call \in {"set_channel", "set_messages", "set_archived"} :
          At(r, call) /\ Advanced(r, reqs[r].ev) /\ crossed' = crossed
    BY <1>3, SetChannelTypes, SetMessagesTypes, SetArchivedTypes
  <2>2. \E doc : Wrote(reqs[r].event, doc)
    BY <1>3, SetChannelTypes, SetMessagesTypes, SetArchivedTypes
  <2> QED
    BY <2>1, <2>2, AdvancedFresh DEF Leaves, Wrote
<1>4. CASE PostAnnouncement(r) \/ PostRecruit(r) \/ PostSummary(r)
  <2>1. PICK call \in {"post_announcement", "post_recruit", "post_summary"} :
          /\ At(r, call) /\ UNCHANGED <<events, crossed>>
          /\ (CallOf(reqs'[r]) = "cancel") \/ (\E ev : Advanced(r, ev))
    BY <1>4, PostAnnouncementTypes, PostRecruitTypes, PostSummaryTypes
       DEF PostMade, Aborted, Turned, Going
  <2> QED
    BY <2>1, AdvancedFresh DEF Leaves, Fresh
<1>5. CASE EditEvent(r) \/ CloseEvent(r)
  <2>1. PICK call \in {"edit", "close"} :
          /\ At(r, call) /\ crossed' = crossed
          /\ Ended(r) \/ \E ev : Advanced(r, ev)
    BY <1>5, EditEventTypes, CloseEventTypes
  <2>2. UNCHANGED events \/ \E doc : Wrote(reqs[r].event, doc)
    BY <1>5, EditEventTypes, CloseEventTypes
  <2> QED
    BY <2>1, <2>2, AdvancedFresh, EndedFresh DEF Leaves, Wrote
<1>6. CASE PinStep(r) \/ RedrawStep(r) \/ PostClosing(r)
  <2>1. PICK call \in Tolerated : At(r, call) /\ Going(r, reqs[r].ev)
    BY <1>6, PinStepTypes, RedrawStepTypes, PostClosingTypes
       DEF PinWrites, RedrawWrites, Tolerated, Redraws
  <2> QED
    BY <2>1, AdvancedFresh DEF Leaves, Going, Tolerated, Redraws
<1>7. CASE EnqueueArchive(r) \/ Archive(r) \/ Notify(r)
  <2>1. PICK call \in {"enqueue_archive", "archive", "notify"} :
          /\ At(r, call) /\ UNCHANGED <<events, crossed>>
          /\ Ended(r) \/ Advanced(r, reqs[r].ev)
    BY <1>7, EnqueueArchiveTypes, ArchiveTypes, NotifyTypes
  <2> QED
    BY <2>1, AdvancedFresh, EndedFresh DEF Leaves
<1> QED
  BY <1>1, <1>2, <1>3, <1>4, <1>5, <1>6, <1>7 DEF Step, PinStep, RedrawStep

\* What the other requests know stays true, for no two are about one event.
LEMMA StepFresh ==
  ASSUME TypeInv, RefInv, AgreeInv, FreshInv, NEW r \in Reqs, Step(r)
  PROVE  FreshInv'
<1>1. Leaves(r) /\ Moved(r)
  BY StepLeaves, StepMoves
<1> SUFFICES ASSUME NEW q \in Reqs, reqs'[q].event \notin crossed'
             PROVE  Fresh(reqs'[q], events')
  BY DEF FreshInv
<1>2. CASE q = r
  BY <1>1, <1>2 DEF Leaves
<1>3. CASE q # r
  <2>1. reqs'[q] = reqs[q] /\ reqs[q].event \notin crossed
    BY <1>1, <1>3 DEF Leaves, Moved, TypeInv, RequestsOK
  <2>2. Fresh(reqs[q], events) /\ RequestOK(reqs[q], DOMAIN events)
    BY <2>1 DEF FreshInv, TypeInv, RequestsOK
  <2>3. CASE reqs[q].event = None
    <3>1. CallOf(reqs[q]) \notin {"edit", "close"}
      BY <2>2, <2>3, EventsAre, CallOfIs DEF RequestOK, AboutEvent, TypeInv, RequestsOK
    <3> QED
      BY <2>1, <2>3, <3>1 DEF Fresh, NotMade
  <2>4. CASE reqs[q].event # None
    <3>1. reqs[q].event \in DOMAIN events
      BY <2>2, <2>4 DEF RequestOK, AboutEvent
    <3>2. reqs[q].event # reqs[r].event
      BY <1>3, <2>1, <2>4 DEF AgreeInv
    <3>3. events'[reqs[q].event] = events[reqs[q].event]
      BY <1>1, <3>1, <3>2 DEF Leaves
    <3> QED
      BY <2>1, <2>2, <3>3 DEF Fresh, NotMade
  <2> QED
    BY <2>3, <2>4
<1> QED
  BY <1>2, <1>3

LEMMA StartFresh ==
  ASSUME TypeInv, FreshInv, NEW r \in Reqs, Starts(r)
  PROVE  FreshInv'
<1> SUFFICES ASSUME NEW q \in Reqs, reqs'[q].event \notin crossed'
             PROVE  Fresh(reqs'[q], events')
  BY DEF FreshInv
<1>1. CASE q = r
  BY <1>1 DEF Starts, Fresh
<1>2. CASE q # r
  <2>1. reqs'[q] = reqs[q] /\ reqs[q].event \notin crossed /\ UNCHANGED events
    BY <1>2 DEF Starts, Moved, TypeInv, RequestsOK
  <2> QED
    BY <2>1 DEF FreshInv
<1> QED
  BY <1>1, <1>2

LEMMA NextFresh ==
  ASSUME TypeInv, RefInv, AgreeInv, FreshInv, [Next]_vars
  PROVE  FreshInv'
<1>1. ASSUME Unmoved \/ UNCHANGED vars
      PROVE  FreshInv'
  BY <1>1 DEF FreshInv, Unmoved, vars
<1>2. ASSUME NEW u \in Users, Opening(u)
      PROVE  FreshInv'
  BY <1>1, <1>2, OpeningTypes
<1>3. ASSUME NEW r \in Reqs, NEW u \in Users, Commands(r, u) \/ Submissions(r, u)
      PROVE  FreshInv'
  BY <1>3, CommandsStart, StartFresh
<1>4. ASSUME NEW r \in Reqs, Step(r)
      PROVE  FreshInv'
  BY <1>4, StepFresh
<1>5. ASSUME NEW r \in Reqs, NEW e \in archives, StartArchiving(r, e)
      PROVE  FreshInv'
  BY <1>5, StartArchivingTypes, StartFresh
<1>6. ASSUME NEW room \in Rooms \cup {None}, RecruitCommand(room)
      PROVE  FreshInv'
  BY <1>1, <1>6, RecruitTypes
<1>7. CASE Tick
  BY <1>1, <1>7, TickTypes
<1> QED
  BY <1>1, <1>2, <1>3, <1>4, <1>5, <1>6, <1>7 DEF Next

LEMMA AllKnown == Spec => [](TypeInv /\ RefInv /\ AgreeInv /\ FreshInv)
<1>1. Init => AgreeInv /\ FreshInv
  BY IdleIs DEF Init, AgreeInv, FreshInv, Fresh, None
<1>2. TypeInv /\ RefInv /\ AgreeInv /\ FreshInv /\ [Next]_vars => AgreeInv' /\ FreshInv'
  BY NextAgrees, NextFresh
<1> QED
  BY <1>1, <1>2, Known, PTL DEF Spec

\* When nothing is under way about an event, nothing has failed and no two
\* requests were about it at a time, its announcements and its summary show it
\* as it is stored, and the announcement and the summary alone are pinned, as
\* long as it is open (postAnnouncements, refreshMessages and closeMessages in
\* usecase/event.go).
THEOREM MessagesShow == Spec => []MessagesAgree
BY AllKnown, AgreeFollows, PTL

\* The user who sent a form is told the truth in the end: of a creation that
\* succeeded, whatever others have made of the event meanwhile, and of one that
\* failed, if nobody else was about its event (submitNewEvent in
\* bot/dispatch.go, EventService.Create).
THEOREM ToldTheTruth == Spec => AnswersTrue
<1> DEFINE Told1(r) ==
      LET e == reqs[r].event IN
      At(r, "notify") /\ reqs'[r] # reqs[r] =>
        IF reqs[r].failed
        THEN e # None /\ e \notin crossed /\ events[e].open =>
               reqs[r].ev.given.policy = "daily"
        ELSE /\ events[e].channel # None
             /\ events[e].refs.announcement # NoPost /\ events[e].refs.summary # NoPost
<1>1. ASSUME TypeInv, RefInv, FreshInv
      PROVE  \A r \in Reqs : Told1(r)
  <2> SUFFICES ASSUME NEW r \in Reqs, At(r, "notify")
               PROVE  Told1(r)
    OBVIOUS
  <2>1. CallOf(reqs[r]) = "notify" /\ (~reqs[r].failed => Complete(reqs[r].event, events))
    BY <1>1, AtProgress DEF Progress
  <2>2. reqs[r].event \notin crossed => Fresh(reqs[r], events)
    BY <1>1 DEF FreshInv
  <2> QED
    BY <2>1, <2>2 DEF Fresh, NotMade, Complete
<1>2. TypeInv /\ RefInv /\ FreshInv /\ [Next]_vars => [\A r \in Reqs : Told1(r)]_vars
  BY <1>1
<1> QED
  BY <1>2, AllKnown, PTL DEF Spec, AnswersTrue

LEMMA KeepsStep ==
  ASSUME TypeInv, RefInv, FreshInv, [Next]_vars, NEW r \in Reqs,
         At(r, "edit"), reqs'[r].todo = Redraw, reqs[r].shown # << >>,
         reqs[r].shown.ends <= reqs[r].shown.starts + DayLen
  PROVE  LET before == events[reqs[r].event].given
             after == events'[reqs[r].event].given
         IN  /\ after = [reqs[r].shown EXCEPT !.policy = after.policy]
             /\ reqs[r].event \notin crossed => after.policy = before.policy
<1> DEFINE shown == reqs[r].shown
           change == reqs[r].change
           e == reqs[r].event
           old == reqs[r].ev
           given == Applied(old.given, change)
           doc == WithGiven(events[e], given, old.open)
<1>1. /\ reqs[r] \in Request /\ RequestOK(reqs[r], DOMAIN events) /\ CallOf(reqs[r]) = "edit"
      /\ e \in DOMAIN events /\ events[e] \in Event /\ old \in Event
  BY ChangerIs
<1>2. EditEvent(r)
  <2>1. reqs'[r] # reqs[r]
    BY DEF At, Redraw
  <2>2. Step(r)
    BY <2>1, MoverIs
  <2> QED
    BY <2>2, StepIs, AtOne DEF Step
<1>3. Wrote(e, doc)
  <2>1. Redraw # << >>
    BY DEF Redraw
  <2>2. ~Ended(r)
    BY <2>1, IdleMakesNone DEF Ended
  <2> QED
    BY <1>2, <2>2, EditEventTypes
<1>4. old.given \in Given /\ change \in Change /\ given \in Given /\ old.open \in BOOLEAN
  BY <1>1, AppliedTypes DEF Event, Request
<1>5. events'[e].given = given
  <2> HIDE DEF given
  <2>1. doc.given = given
    BY <1>1, <1>4, WithGivenTypes
  <2> QED
    BY <1>1, <1>3, <2>1 DEF Wrote
<1>6. /\ shown.title # "" /\ change.title = shown.title /\ change.starts = shown.starts
      /\ change.policy = "" /\ change.ends = shown.ends
      /\ change.clear <=> shown.ends = Never
  BY <1>1 DEF RequestOK, SentAsShown
<1>7. shown \in Given /\ shown.starts # Never
  <2>1. shown \in Given
    BY <1>1 DEF Request
  <2> QED
    BY <2>1, NeverIs DEF Given
<1>8. /\ given.title = shown.title /\ given.starts = shown.starts
      /\ given.policy = old.given.policy
  BY <1>6, <1>7 DEF Applied
<1>9. given.ends = shown.ends
  <2>1. CASE shown.ends = Never
    BY <1>6, <2>1 DEF Applied
  <2>2. CASE shown.ends # Never
    BY <1>6, <2>2 DEF Applied
  <2> QED
    BY <2>1, <2>2
<1> HIDE DEF given
<1>10. e \notin crossed => old = events[e]
  BY <1>1 DEF FreshInv, Fresh
<1> QED
  BY <1>4, <1>5, <1>7, <1>8, <1>9, <1>10 DEF Given

\* An edit form that is sent as it was shown brings back the title, start and
\* end it showed, whatever others have made of them since, and leaves the
\* reminders as they are now if nobody else was about the event (EditEventForm,
\* ParseEventForm and EventFormInput.Update in bot/form.go, dispatch.go).
THEOREM FormKeeps == Spec => UnchangedFormKeeps
<1>1. TypeInv /\ RefInv /\ FreshInv /\ [Next]_vars =>
        [\A r \in Reqs :
           LET shown == reqs[r].shown
               before == events[reqs[r].event].given
               after == events'[reqs[r].event].given
           IN
           /\ At(r, "edit") /\ reqs'[r].todo = Redraw /\ shown # << >>
           /\ shown.ends <= shown.starts + DayLen
           => /\ after = [shown EXCEPT !.policy = after.policy]
              /\ reqs[r].event \notin crossed => after.policy = before.policy]_vars
  BY KeepsStep
<1> QED
  BY <1>1, AllKnown, PTL DEF Spec, UnchangedFormKeeps

=============================================================================
