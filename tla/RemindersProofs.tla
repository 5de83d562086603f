-------------------------- MODULE RemindersProofs --------------------------
(***************************************************************************)
(* Theorems about the reminders of an event, for every policy and date,    *)
(* every number of jobs and channels, and any failures: what a policy      *)
(* plans; the types; and, of requests that come one after another and take *)
(* no time to plan, that the plan is the promised one and that no reminder *)
(* is posted twice.                                                        *)
(***************************************************************************)
EXTENDS Reminders, FiniteSetTheorems, WellFoundedInduction, TLAPS

-----------------------------------------------------------------------------
(* Numbers.                                                                *)

LEMMA MulMod ==
  ASSUME NEW i \in Nat, NEW e \in Nat \ {0}
  PROVE  (i * e) % e = 0
  OBVIOUS

LEMMA DivMod ==
  ASSUME NEW a \in Nat, NEW e \in Nat \ {0}
  PROVE  a \div e \in Nat /\ a = ((a \div e) * e) + (a % e) /\ a % e \in 0..(e - 1)
  OBVIOUS

LEMMA MulMono ==
  ASSUME NEW i \in Nat, NEW j \in Nat, NEW e \in Nat \ {0}, i * e < j * e
  PROVE  i < j
  OBVIOUS

LEMMA MulGrows ==
  ASSUME NEW j \in Nat, NEW e \in Nat \ {0}
  PROVE  j * e \in Nat /\ j * e >= j
  OBVIOUS

LEMMA ModOfSum ==
  ASSUME NEW q \in Nat, NEW r \in Nat, NEW e \in Nat \ {0}, r < e
  PROVE  (q * e + r) % e = r
  OBVIOUS

LEMMA SameMod ==
  ASSUME NEW a \in Nat, NEW b \in Nat, NEW e \in Nat \ {0},
         a % e = b % e, a <= b, b < a + e
  PROVE  a = b
<1> DEFINE q == a \div e
<1> DEFINE r == b \div e
<1> DEFINE m == a % e
<1>1. q \in Nat /\ r \in Nat /\ m \in Nat /\ a = (q * e) + m /\ b = (r * e) + m
  <2>1. a \div e \in Nat /\ a = ((a \div e) * e) + (a % e) /\ a % e \in 0..(e - 1)
    BY DivMod
  <2>2. b \div e \in Nat /\ b = ((b \div e) * e) + (b % e) /\ b % e \in 0..(e - 1)
    BY DivMod
  <2>3. m = b % e
    OBVIOUS
  <2> QED
    BY <2>1, <2>2, <2>3
<1> HIDE DEF q, r, m
<1>2. q * e <= r * e /\ r * e < (q * e) + e
  BY <1>1, SMT
<1>3. q <= r /\ r < q + 1
  BY <1>1, <1>2, SMT
<1> QED
  BY <1>1, <1>3

\* A set of numbers has a least one.
LEMMA Least ==
  ASSUME NEW S \in SUBSET Nat, S # {}
  PROVE  Min(S) \in S /\ \A k \in S : Min(S) <= k
<1>1. PICK x \in S : \A y \in S : ~ (<<y, x>> \in OpToRel(<, Nat))
  BY NatLessThanWellFounded, WFMin
<1>2. ASSUME NEW y \in S PROVE x <= y
  <2>1. ~ (<<y, x>> \in {ss \in Nat \X Nat : ss[1] < ss[2]})
    BY <1>1 DEF OpToRel
  <2>2. <<y, x>> \in Nat \X Nat /\ <<y, x>>[1] = y /\ <<y, x>>[2] = x
    OBVIOUS
  <2> QED
    BY <2>1, <2>2
<1> QED
  BY <1>2 DEF Min

-----------------------------------------------------------------------------
(* Times in their order.                                                   *)

Earlier(T, t) == {u \in T : u < t}

LEMMA EarlierFewer ==
  ASSUME NEW T \in SUBSET Nat, IsFiniteSet(T)
  PROVE  /\ \A t \in T : Cardinality(Earlier(T, t)) \in 0..(Cardinality(T) - 1)
         /\ \A t, u \in T : t < u => Cardinality(Earlier(T, t)) < Cardinality(Earlier(T, u))
<1>1. ASSUME NEW S \in SUBSET T, NEW t \in T, t \notin S, NEW U \in SUBSET T, S \cup {t} \subseteq U
      PROVE  /\ Cardinality(S) \in Nat /\ Cardinality(U) \in Nat
             /\ Cardinality(S) < Cardinality(U)
  <2>1. IsFiniteSet(S) /\ IsFiniteSet(U) /\ IsFiniteSet(S \cup {t})
    BY <1>1, FS_Subset, FS_AddElement
  <2>2. Cardinality(S \cup {t}) = Cardinality(S) + 1
    BY <1>1, <2>1, FS_AddElement
  <2>3. Cardinality(S \cup {t}) <= Cardinality(U)
    BY <1>1, <2>1, FS_Subset
  <2> QED
    BY <2>1, <2>2, <2>3, FS_CardinalityType
<1>2. ASSUME NEW t \in T PROVE Cardinality(Earlier(T, t)) \in 0..(Cardinality(T) - 1)
  <2>1. Earlier(T, t) \in SUBSET T /\ t \notin Earlier(T, t) /\ T \in SUBSET T
        /\ Earlier(T, t) \cup {t} \subseteq T
    BY DEF Earlier
  <2> QED
    BY <2>1, <1>1
<1>3. ASSUME NEW t \in T, NEW u \in T, t < u
      PROVE  Cardinality(Earlier(T, t)) < Cardinality(Earlier(T, u))
  <2>1. /\ Earlier(T, t) \in SUBSET T /\ t \notin Earlier(T, t)
        /\ Earlier(T, u) \in SUBSET T /\ t \in Earlier(T, u)
    BY <1>3 DEF Earlier
  <2>2. \A v \in T : v < t => v < u
    BY <1>3
  <2>3. Earlier(T, t) \cup {t} \subseteq Earlier(T, u)
    BY <2>1, <2>2 DEF Earlier
  <2> QED
    BY <2>1, <2>3, <1>1
<1> QED
  BY <1>2, <1>3

LEMMA EachPlace ==
  ASSUME NEW T \in SUBSET Nat, IsFiniteSet(T), NEW k \in 1..Cardinality(T)
  PROVE  \E t \in T : Cardinality(Earlier(T, t)) = k - 1
<1> DEFINE n == Cardinality(T)
<1> DEFINE f == [t \in T |-> Cardinality(Earlier(T, t))]
<1>1. n \in Nat
  BY FS_CardinalityType
<1>2. IsFiniteSet(0..(n - 1)) /\ Cardinality(0..(n - 1)) = n
  <2> HIDE DEF n
  <2>1. 0 \in Int /\ n - 1 \in Int /\ (0 > n - 1 <=> n = 0)
    BY <1>1
  <2>2. /\ IsFiniteSet(0..(n - 1))
        /\ Cardinality(0..(n - 1)) = IF 0 > n - 1 THEN 0 ELSE (n - 1) - 0 + 1
    BY <2>1, FS_Interval
  <2> QED
    BY <1>1, <2>1, <2>2
<1>3. f \in Injection(T, 0..(n - 1))
  <2>1. f \in [T -> 0..(n - 1)]
    BY EarlierFewer
  <2>2. ASSUME NEW t \in T, NEW u \in T, f[t] = f[u] PROVE t = u
    <3>1. t \in Nat /\ u \in Nat /\ f[t] \in 0..(n - 1)
      BY <2>1
    <3>2. ~ (t < u) /\ ~ (u < t)
      BY <2>2, <3>1, <1>1, EarlierFewer
    <3> QED
      BY <3>1, <3>2
  <2> QED
    BY <2>1, <2>2 DEF Injection, IsInjective
<1>4. f \in Surjection(T, 0..(n - 1))
  BY <1>2, <1>3, FS_Injection
<1>5. k - 1 \in 0..(n - 1)
  BY <1>1
<1> QED
  BY <1>4, <1>5 DEF Surjection

\* InOrder is the increasing sequence of the times.
LEMMA Ordered ==
  ASSUME NEW T \in SUBSET Nat, IsFiniteSet(T)
  PROVE  /\ Cardinality(T) \in Nat
         /\ InOrder(T) \in [1..Cardinality(T) -> T]
         /\ \A i, j \in 1..Cardinality(T) : i < j => InOrder(T)[i] < InOrder(T)[j]
         /\ \A t \in T : \E i \in 1..Cardinality(T) : InOrder(T)[i] = t
<1> DEFINE n == Cardinality(T)
<1> DEFINE s == InOrder(T)
<1>1. n \in Nat
  BY FS_CardinalityType
<1>2. s = [k \in 1..n |-> CHOOSE t \in T : Cardinality(Earlier(T, t)) = k - 1]
  BY DEF InOrder, Earlier
<1>3. ASSUME NEW k \in 1..n
      PROVE  s[k] \in T /\ Cardinality(Earlier(T, s[k])) = k - 1
  <2>1. s[k] = CHOOSE t \in T : Cardinality(Earlier(T, t)) = k - 1
    BY <1>2
  <2> QED
    BY <2>1, EachPlace
<1>4. s \in [1..n -> T]
  BY <1>2, <1>3
<1>5. ASSUME NEW t \in T, NEW u \in T, Cardinality(Earlier(T, t)) = Cardinality(Earlier(T, u))
      PROVE  t = u
  <2>1. Cardinality(Earlier(T, t)) \in Int /\ t \in Nat /\ u \in Nat
    BY EarlierFewer, <1>1
  <2> QED
    BY <1>5, <2>1, EarlierFewer
<1>6. ASSUME NEW i \in 1..n, NEW j \in 1..n, i < j PROVE s[i] < s[j]
  <2>1. s[i] \in Nat /\ s[j] \in Nat
    BY <1>3
  <2>2. CASE s[j] < s[i]
    <3>1. Cardinality(Earlier(T, s[j])) < Cardinality(Earlier(T, s[i]))
      BY <1>3, <2>2, EarlierFewer
    <3>2. j - 1 < i - 1
      BY <1>3, <3>1
    <3> QED
      BY <1>1, <1>6, <3>2
  <2>3. CASE s[j] = s[i]
    <3>1. j - 1 = i - 1
      BY <1>3, <2>3
    <3> QED
      BY <1>1, <1>6, <3>1
  <2> QED
    BY <2>1, <2>2, <2>3
<1>7. ASSUME NEW t \in T PROVE \E i \in 1..n : s[i] = t
  <2>1. Cardinality(Earlier(T, t)) + 1 \in 1..n
    BY EarlierFewer, <1>1
  <2>2. Cardinality(Earlier(T, s[Cardinality(Earlier(T, t)) + 1])) = Cardinality(Earlier(T, t))
    BY <1>3, <2>1, EarlierFewer, <1>1
  <2> QED
    BY <1>3, <1>5, <2>1, <2>2
<1> QED
  BY <1>1, <1>4, <1>6, <1>7

-----------------------------------------------------------------------------
(* What a policy plans.                                                    *)

\* The first time of an interval is the chosen time of day, today or tomorrow.
LEMMA FirstIs ==
  ASSUME NEW p \in Policy, NEW n \in Nat
  PROVE  /\ FirstInterval(p, n) \in n..(n + Day - 1)
         /\ FirstInterval(p, n) = CHOOSE t \in n..(n + Day - 1) : t % Day = p.at
<1> DEFINE d == Day
<1> DEFINE q == n \div d
<1> DEFINE f == FirstInterval(p, n)
<1>1. d \in Nat \ {0} /\ p.at \in Nat /\ p.at < d
  BY PolicyAssumption DEF Policy
<1>2. q \in Nat /\ n >= q * d /\ n < (q * d) + d /\ q * d \in Nat
  <2>1. n \div d \in Nat /\ n = ((n \div d) * d) + (n % d) /\ n % d \in 0..(d - 1)
    BY <1>1, DivMod
  <2>2. (n \div d) * d \in Nat
    BY <1>1, <2>1, MulGrows
  <2> HIDE DEF d
  <2> QED
    BY <1>1, <2>1, <2>2, SMT
<1>3. f = IF (q * d) + p.at < n THEN (q * d) + p.at + d ELSE (q * d) + p.at
  BY DEF FirstInterval, On
<1>4. ((q * d) + p.at) % d = p.at /\ (((q + 1) * d) + p.at) % d = p.at
  <2> HIDE DEF d, q
  <2>1. q \in Nat /\ q + 1 \in Nat
    BY <1>2
  <2> QED
    BY <1>1, <2>1, ModOfSum
<1>5. (q + 1) * d = (q * d) + d
  <2> HIDE DEF d, q
  <2> QED
    BY <1>1, <1>2, SMT
<1> DEFINE qd == q * d
<1>6. f \in Nat /\ f >= n /\ f < n + d
  <2> HIDE DEF qd, q, f, d
  <2>1. /\ qd \in Nat /\ n >= qd /\ n < qd + d
        /\ f = IF qd + p.at < n THEN qd + p.at + d ELSE qd + p.at
    BY <1>2, <1>3 DEF qd
  <2> QED
    BY <1>1, <2>1, SMT
<1>7. f % d = p.at
  <2>1. f = (q * d) + p.at \/ f = ((q * d) + d) + p.at
    <3> HIDE DEF qd, q, f, d
    <3>1. qd \in Nat /\ f = IF qd + p.at < n THEN qd + p.at + d ELSE qd + p.at
      BY <1>2, <1>3 DEF qd
    <3>2. f = qd + p.at \/ f = (qd + d) + p.at
      BY <1>1, <3>1, SMT
    <3> QED
      BY <3>2 DEF qd
  <2> HIDE DEF q, f, d
  <2> QED
    BY <2>1, <1>4, <1>5
<1>8. f \in n..(n + d - 1)
  <2> HIDE DEF f, d
  <2> QED
    BY <1>1, <1>6
<1>9. ASSUME NEW t \in n..(n + d - 1), t % d = p.at PROVE t = f
  <2> HIDE DEF f, d, q
  <2>1. t \in Nat /\ t < n + d /\ t >= n
    BY <1>1
  <2>2. f < t + d /\ t < f + d
    BY <1>1, <1>6, <2>1
  <2>3. f % d = t % d
    BY <1>7, <1>9
  <2>4. CASE t <= f
    BY <1>1, <1>6, <2>1, <2>2, <2>3, <2>4, SameMod
  <2>5. CASE f <= t
    BY <1>1, <1>6, <2>1, <2>2, <2>3, <2>5, SameMod
  <2> QED
    BY <1>6, <2>1, <2>4, <2>5
<1> QED
  BY <1>7, <1>8, <1>9

\* The loop ends; it collects the times before the last reminder, and if it
\* does not go beyond the limit, all of them.
LEMMA LoopEnds ==
  ASSUME NEW p \in Policy, p.every \in Nat \ {0}, NEW n \in Nat, NEW starts \in Nat,
         NEW final \in Int, final <= starts,
         NEW R, R = Min({k \in 0..starts : LoopOver(p, n, final, k)})
  PROVE  /\ R \in Nat
         /\ Collected(p, n, R) \subseteq (n + 1)..(final - 1)
         /\ Cardinality(Collected(p, n, R)) <= MaxReminders =>
              FirstInterval(p, n) + R * p.every >= final
<1> DEFINE S == {k \in 0..starts : LoopOver(p, n, final, k)}
<1> DEFINE f == FirstInterval(p, n)
<1>1. f \in Nat
  BY FirstIs, PolicyAssumption
<1>2. starts \in S
  <2>1. starts * p.every \in Nat /\ starts * p.every >= starts
    BY MulGrows
  <2>2. f + starts * p.every >= final
    <3> HIDE DEF f
    <3> DEFINE m == starts * p.every
    <3>1. m \in Nat /\ m >= starts
      BY <2>1
    <3> HIDE DEF m
    <3>2. f + m >= final
      BY <1>1, <3>1
    <3> QED
      BY <3>2 DEF m
  <2>3. LoopOver(p, n, final, starts)
    BY <2>2 DEF LoopOver
  <2> QED
    BY <2>3
<1>3. R \in S /\ \A k \in S : R <= k
  <2>1. S \in SUBSET Nat /\ S # {} /\ R = Min(S)
    BY <1>2
  <2> HIDE DEF S
  <2>2. Min(S) \in S /\ \A k \in S : Min(S) <= k
    BY <2>1, Least
  <2> QED
    BY <2>1, <2>2
<1>4. R \in Nat /\ R <= starts /\ LoopOver(p, n, final, R)
  BY <1>3
<1>5. ASSUME NEW t \in Collected(p, n, R) PROVE t \in (n + 1)..(final - 1)
  <2>1. PICK i \in 0..(R - 1) : t = f + i * p.every /\ t > n
    BY DEF Collected
  <2>2. i \in 0..starts /\ ~ (R <= i) /\ i \in Nat
    BY <1>4, <2>1
  <2>3. ~ LoopOver(p, n, final, i)
    BY <1>3, <2>2
  <2>4. ~ (t >= final)
    BY <2>1, <2>3 DEF LoopOver
  <2>5. t \in Nat
    <3>1. i * p.every \in Nat
      BY <2>2, MulGrows
    <3> QED
      BY <2>1, <3>1, <1>1
  <2> QED
    BY <2>1, <2>4, <2>5
<1>6. ASSUME Cardinality(Collected(p, n, R)) <= MaxReminders
      PROVE  FirstInterval(p, n) + R * p.every >= final
  <2>1. IsFiniteSet((n + 1)..(final - 1))
    BY FS_Interval
  <2>2. Cardinality(Collected(p, n, R)) \in Nat
    BY <1>5, <2>1, FS_Subset, FS_CardinalityType
  <2> DEFINE c == Cardinality(Collected(p, n, R))
  <2>3. ~ (c > MaxReminders)
    <3>1. c \in Nat /\ c <= MaxReminders
      BY <1>6, <2>2
    <3> HIDE DEF c
    <3> QED
      BY <3>1, PolicyAssumption
  <2> QED
    BY <1>4, <2>3 DEF LoopOver
<1> QED
  BY <1>4, <1>5, <1>6

\* IntervalTimes are future times up to the last reminder; within the limit,
\* they are all that an interval promises.
LEMMA IntervalKept ==
  ASSUME NEW p \in Policy, p.mode = "interval", Valid(p), NEW n \in Nat, NEW starts \in Nat
  PROVE  /\ IntervalTimes(p, n, starts) \subseteq (n + 1)..starts
         /\ Cardinality(IntervalTimes(p, n, starts)) <= MaxReminders =>
              IntervalTimes(p, n, starts) = Promised(p, n, starts)
<1> DEFINE final == starts - p.final
<1> DEFINE R == Min({k \in 0..starts : LoopOver(p, n, final, k)})
<1> DEFINE e == p.every
<1> DEFINE f == FirstInterval(p, n)
<1> DEFINE C == Collected(p, n, R)
<1> DEFINE I == IntervalTimes(p, n, starts)
<1>1. e \in Nat \ {0} /\ final \in Int /\ final <= starts
  BY PolicyAssumption DEF Valid, ValidInterval, Policy
<1>2. f \in Nat /\ f >= n
  BY FirstIs, PolicyAssumption
<1>3. I = C \cup (IF final > n THEN {final} ELSE {})
  BY DEF IntervalTimes
<1>4. /\ R \in Nat
      /\ C \subseteq (n + 1)..(final - 1)
      /\ Cardinality(C) <= MaxReminders => f + R * e >= final
  BY <1>1, LoopEnds
<1>5. I \subseteq (n + 1)..starts
  <2> HIDE DEF C, I, final
  <2> QED
    BY <1>1, <1>3, <1>4
<1>6. ASSUME Cardinality(I) <= MaxReminders PROVE f + R * e >= final
  <2>1. IsFiniteSet((n + 1)..starts)
    BY FS_Interval
  <2>2. IsFiniteSet(I) /\ C \in SUBSET I
    BY <1>3, <1>5, <2>1, FS_Subset
  <2>3. Cardinality(I) \in Nat /\ Cardinality(C) \in Nat /\ Cardinality(C) <= Cardinality(I)
    BY <2>2, FS_Subset, FS_CardinalityType
  <2>4. Cardinality(C) <= MaxReminders
    <3> HIDE DEF C, I
    <3> QED
      BY <2>3, <1>6, PolicyAssumption
  <2> QED
    BY <1>4, <2>4
<1>7. \A t : t \in C <=> \E i \in 0..(R - 1) : t = f + i * e /\ t > n
  BY DEF Collected
<1>8. \A t : t \in Promised(p, n, starts) <=>
        /\ t \in (n + 1)..starts
        /\ \/ t = final
           \/ t < final /\ t >= f /\ (t - f) % e = 0
  BY FirstIs DEF Promised
<1>9. ASSUME f + R * e >= final, NEW t \in (n + 1)..starts, t # final
      PROVE  t \in C <=> t < final /\ t >= f /\ (t - f) % e = 0
  <2>1. ASSUME t \in C PROVE t < final /\ t >= f /\ (t - f) % e = 0
    <3>1. PICK i \in 0..(R - 1) : t = f + i * e
      BY <2>1, <1>7
    <3>2. i \in Nat /\ i * e \in Nat /\ (i * e) % e = 0
      BY <1>1, <1>4, MulGrows, MulMod
    <3>3. t - f = i * e /\ t >= f
      <4> DEFINE m == i * e
      <4>1. m \in Nat /\ t = f + m
        BY <3>1, <3>2
      <4> HIDE DEF m, f
      <4>2. t - f = m /\ t >= f
        BY <1>2, <4>1
      <4> QED
        BY <4>2 DEF m
    <3>4. t < final
      <4> HIDE DEF C, final
      <4> QED
        BY <1>1, <1>4, <2>1
    <3> QED
      BY <3>2, <3>3, <3>4
  <2>2. ASSUME t < final, t >= f, (t - f) % e = 0 PROVE t \in C
    <3> DEFINE i == (t - f) \div e
    <3>1. t - f \in Nat
      <4> HIDE DEF f
      <4> QED
        BY <1>2, <2>2
    <3>2. i \in Nat /\ t - f = (i * e) + ((t - f) % e)
      <4> HIDE DEF f, e
      <4> QED
        BY <1>1, <3>1, DivMod
    <3> HIDE DEF i, f, e, final
    <3> DEFINE m == i * e
    <3> DEFINE r == R * e
    <3>3. m \in Nat /\ r \in Nat
      BY <1>1, <1>4, <3>2, MulGrows
    <3>4. t - f = m + 0 /\ f + r >= final
      BY <1>9, <2>2, <3>2
    <3>5. m < r /\ t = f + m
      <4> HIDE DEF m, r
      <4> QED
        BY <1>1, <1>2, <2>2, <3>3, <3>4
    <3>6. i < R
      BY <1>1, <1>4, <3>2, <3>5, MulMono
    <3>7. i \in 0..(R - 1) /\ t > n
      BY <1>4, <3>2, <3>6
    <3> QED
      BY <1>7, <3>5, <3>7
  <2> QED
    BY <2>1, <2>2
<1>10. ASSUME Cardinality(I) <= MaxReminders PROVE I = Promised(p, n, starts)
  <2>1. f + R * e >= final
    BY <1>6, <1>10
  <2>2. ASSUME NEW t \in (n + 1)..starts PROVE t \in I <=> t \in Promised(p, n, starts)
    <3>1. CASE t = final
      <4>1. final > n
        BY <3>1
      <4> QED
        BY <1>3, <1>8, <3>1, <4>1
    <3>2. CASE t # final
      BY <1>3, <1>8, <1>9, <2>1, <3>2
    <3> QED
      BY <3>1, <3>2
  <2>3. Promised(p, n, starts) \subseteq (n + 1)..starts
    BY <1>8
  <2> HIDE DEF I
  <2> QED
    BY <1>5, <2>2, <2>3
<1> QED
  BY <1>5, <1>10

\* The times of a policy are future times; within the limit, the promised ones.
LEMMA TimesKept ==
  ASSUME NEW p \in Policy, Valid(p), NEW n \in Nat, NEW starts \in Nat
  PROVE  /\ Times(p, n, starts) \subseteq (n + 1)..starts
         /\ Cardinality(Times(p, n, starts)) <= MaxReminders =>
              Times(p, n, starts) = Promised(p, n, starts)
<1>1. CASE p.mode = "none"
  <2>1. Times(p, n, starts) = {}
    BY <1>1 DEF Times
  <2>2. Promised(p, n, starts) = {}
    BY <1>1 DEF Promised
  <2> QED
    BY <2>1, <2>2
<1>2. CASE p.mode = "offsets"
  <2>1. Times(p, n, starts) = OffsetTimes(p, n, starts)
    BY <1>2 DEF Times
  <2>2. \A i \in DOMAIN p.offsets : p.offsets[i] \in Nat /\ p.offsets[i] > 0
    BY <1>2 DEF Policy, Valid, ValidOffsets
  <2>3. \A t : t \in OffsetTimes(p, n, starts) <=>
          \E i \in DOMAIN p.offsets : t = starts - p.offsets[i] /\ t > n
    BY DEF OffsetTimes, ToSet
  <2>4. \A t : t \in Promised(p, n, starts) <=>
          t \in (n + 1)..starts /\ \E i \in DOMAIN p.offsets : t + p.offsets[i] = starts
    BY <1>2 DEF Promised
  <2>5. \A t : t \in OffsetTimes(p, n, starts) => t \in (n + 1)..starts
    BY <2>2, <2>3
  <2>6. \A t : t \in OffsetTimes(p, n, starts) => t \in Promised(p, n, starts)
    BY <2>2, <2>3, <2>4, <2>5
  <2>7. \A t : t \in Promised(p, n, starts) => t \in OffsetTimes(p, n, starts)
    BY <2>2, <2>3, <2>4
  <2> QED
    BY <2>1, <2>5, <2>6, <2>7
<1>3. CASE p.mode = "interval"
  <2>1. Times(p, n, starts) = IntervalTimes(p, n, starts)
    BY <1>3 DEF Times
  <2> QED
    BY <1>3, <2>1, IntervalKept
<1> QED
  BY <1>1, <1>2, <1>3 DEF Policy

Increasing(s) == \A i, j \in DOMAIN s : i < j => s[i] < s[j]

\* domain/reminder.go:72-99, 141-182: what Schedule returns is what the policy
\* promises - the offsets before the start; or the chosen time of day, the
\* multiples of the interval after it and the last reminder - each time once, in
\* order, and in the future; for every policy, interval and day.
THEOREM ScheduleKeepsPromise ==
  ASSUME NEW p \in Policy, NEW n \in Nat, NEW starts \in Nat, Schedulable(p, n, starts)
  PROVE  /\ Schedule(p, n, starts) \in Seq((n + 1)..starts)
         /\ Len(Schedule(p, n, starts)) <= MaxReminders
         /\ Increasing(Schedule(p, n, starts))
         /\ ToSet(Schedule(p, n, starts)) = Promised(p, n, starts)
<1> DEFINE T == Times(p, n, starts)
<1> DEFINE s == InOrder(T)
<1>1. T \subseteq (n + 1)..starts /\ T = Promised(p, n, starts) /\ Cardinality(T) <= MaxReminders
  BY TimesKept DEF Schedulable
<1>2. T \in SUBSET Nat /\ IsFiniteSet(T)
  BY <1>1, FS_Interval, FS_Subset
<1> HIDE DEF T
<1>3. /\ Cardinality(T) \in Nat
      /\ s \in [1..Cardinality(T) -> T]
      /\ \A i, j \in 1..Cardinality(T) : i < j => s[i] < s[j]
      /\ \A t \in T : \E i \in 1..Cardinality(T) : s[i] = t
  BY <1>2, Ordered
<1> HIDE DEF s
<1>4. s \in Seq((n + 1)..starts) /\ Len(s) = Cardinality(T) /\ DOMAIN s = 1..Cardinality(T)
  BY <1>1, <1>3
<1>5. Increasing(s)
  BY <1>3, <1>4 DEF Increasing
<1>6. ToSet(s) = T
  BY <1>3, <1>4 DEF ToSet
<1> QED
  BY <1>1, <1>4, <1>5, <1>6 DEF Schedule, T, s

-----------------------------------------------------------------------------
(* The inductive invariants.                                               *)

\* What there is of a job, was planned for a time; what has been claimed is due;
\* and a worker executes only what it has claimed.
JobOK(s) ==
  /\ jobs[s].status # "absent" => jobs[s].at \in 1..Horizon
  /\ jobs[s].status \in {"running", "done"} => jobs[s].at <= now
  /\ execs[s].phase # "none" => jobs[s].status = "running"

TypeInv ==
  /\ TypeOK
  /\ \A s \in Seqs : JobOK(s)
  /\ \A l \in log : l.at <= now
  /\ \A r \in Reqs : reqs[r].step = "enqueue" => reqs[r].left # <<>>

\* The requests come one after another, and take no time to plan.
Calm == OneAtATime /\ Prompt

PendingAt(js, t) == {s \in Seqs : js[s].status = "pending" /\ js[s].at = t}

\* Of the times after n those of T have one pending job, and no other has any.
InPlan(js, n, T) ==
  \A t \in (n + 1)..Horizon :
    IF t \in T THEN \E s \in Seqs : PendingAt(js, t) = {s} ELSE PendingAt(js, t) = {}

\* What the event of a request promises.
Due(req) == Promised(req.ev.policy, req.clock, req.ev.starts)

\* From the saving of the event on, a request has the event as it is, and its
\* plan is not yet known; it plans as of now; what it has not left is enqueued;
\* and the numbers from its next one on are free.
Fits(req, e, known, n, js) ==
  /\ req.step \in {"clock", "cancel", "number", "check", "enqueue", "refused"} =>
       req.ev = e /\ ~ known
  /\ req.step \in {"cancel", "number", "check", "enqueue"} => req.clock = n
  /\ req.step \in {"number", "check", "enqueue"} =>
       /\ Increasing(req.left)
       /\ ToSet(req.left) \subseteq Due(req)
       /\ InPlan(js, n, Due(req) \ ToSet(req.left))
  /\ req.step \in {"check", "enqueue"} =>
       \A s \in Seqs : s >= req.seq => js[s].status = "absent"

PlanInv ==
  /\ \A q, r \in Reqs : reqs[q].step # "idle" /\ reqs[r].step # "idle" => q = r
  /\ \A r \in Reqs : Fits(reqs[r], ev, planned.known, now, jobs)
  /\ planned.known /\ ev.open => InPlan(jobs, now, planned.times)

\* No execution is cut off while it posts, and the channels differ.
Whole == "post" \notin CutPhases /\ IsInjective(Targets)

Live(s) == jobs[s].status \in {"pending", "running", "done"}

\* What has been posted of a job is in the log, or not in front of its worker.
Told(s) ==
  Live(s) =>
    \A c \in ToSet(Targets) :
      posts[<<c, jobs[s].at>>] > 0 =>
        SentSequence(s) \/ (execs[s].phase = "post" /\ c \notin ToSet(execs[s].left))

PostInv ==
  /\ \A s, u \in Seqs : Live(s) /\ Live(u) /\ jobs[s].at = jobs[u].at => s = u
  /\ \A x \in DOMAIN posts : posts[x] <= 1 /\ (posts[x] > 0 => x[2] <= now)
  /\ \A s \in Seqs : Told(s) /\ (execs[s].phase = "post" => ~ SentSequence(s))

-----------------------------------------------------------------------------
(* What is left: the times of a request, and the channels of a worker.     *)

LEMMA SeqIs ==
  ASSUME NEW S, NEW n \in Nat, NEW l \in [1..n -> S]
  PROVE  l \in Seq(S) /\ Len(l) = n
  OBVIOUS

LEMMA SameFunction ==
  ASSUME NEW D, NEW S, NEW f \in [D -> S], NEW g \in [D -> S], \A k \in D : f[k] = g[k]
  PROVE  f = g
  OBVIOUS

LEMMA SeqParts ==
  ASSUME NEW S, NEW l \in Seq(S)
  PROVE  /\ Len(l) \in Nat /\ DOMAIN l = 1..Len(l) /\ l \in [1..Len(l) -> S]
         /\ l # <<>> =>
              /\ Len(l) > 0 /\ Head(l) = l[1] /\ Head(l) \in S
              /\ Tail(l) \in Seq(S) /\ Len(Tail(l)) = Len(l) - 1
              /\ DOMAIN Tail(l) = 1..(Len(l) - 1)
              /\ \A i \in 1..(Len(l) - 1) : Tail(l)[i] = l[i + 1]
<1>1. Len(l) \in Nat /\ DOMAIN l = 1..Len(l) /\ l \in [1..Len(l) -> S]
  OBVIOUS
<1>2. ASSUME l # <<>>
      PROVE  /\ Len(l) > 0 /\ Head(l) = l[1] /\ Head(l) \in S
             /\ Tail(l) \in Seq(S) /\ Len(Tail(l)) = Len(l) - 1
             /\ DOMAIN Tail(l) = 1..(Len(l) - 1)
             /\ \A i \in 1..(Len(l) - 1) : Tail(l)[i] = l[i + 1]
  <2>1. Len(l) > 0
    BY <1>1, <1>2
  <2>2. Head(l) = l[1] /\ Head(l) \in S
    BY <2>1
  <2>3. Tail(l) \in Seq(S) /\ Len(Tail(l)) = Len(l) - 1
    BY <2>1
  <2>4. DOMAIN Tail(l) = 1..(Len(l) - 1)
    BY <2>3
  <2>5. \A i \in 1..(Len(l) - 1) : Tail(l)[i] = l[i + 1]
    BY <2>1
  <2> QED
    BY <2>1, <2>2, <2>3, <2>4, <2>5
<1> QED
  BY <1>1, <1>2

Lefts == UNION {[1..n -> 1..Horizon] : n \in 0..MaxReminders}

LEMMA LeftsAre ==
  \A l : l \in Lefts <=> l \in Seq(1..Horizon) /\ Len(l) <= MaxReminders
<1>1. MaxReminders \in Nat
  BY PolicyAssumption
<1>2. \A l : l \in Lefts <=> \E n \in 0..MaxReminders : l \in [1..n -> 1..Horizon]
  BY DEF Lefts
<1>3. ASSUME NEW n \in 0..MaxReminders, NEW l \in [1..n -> 1..Horizon]
      PROVE  l \in Seq(1..Horizon) /\ Len(l) <= MaxReminders
  <2>1. n \in Nat /\ n <= MaxReminders
    BY <1>1
  <2>2. l \in Seq(1..Horizon) /\ Len(l) = n
    BY <2>1, SeqIs
  <2> QED
    BY <2>1, <2>2
<1>4. ASSUME NEW l \in Seq(1..Horizon), Len(l) <= MaxReminders
      PROVE  \E n \in 0..MaxReminders : l \in [1..n -> 1..Horizon]
  <2>1. Len(l) \in Nat /\ l \in [1..Len(l) -> 1..Horizon]
    BY SeqParts
  <2>2. Len(l) \in 0..MaxReminders
    BY <1>1, <1>4, <2>1
  <2> QED
    BY <2>1, <2>2
<1> QED
  BY <1>2, <1>3, <1>4

\* Taking the next time.
LEMMA NextTime ==
  ASSUME NEW l \in Lefts, l # <<>>
  PROVE  /\ Head(l) \in 1..Horizon /\ Head(l) \in ToSet(l)
         /\ Tail(l) \in Lefts
         /\ Increasing(l) => Increasing(Tail(l)) /\ ToSet(Tail(l)) = ToSet(l) \ {Head(l)}
<1>1. l \in Seq(1..Horizon) /\ Len(l) <= MaxReminders /\ MaxReminders \in Nat
  BY LeftsAre, PolicyAssumption
<1>2. /\ Len(l) \in Nat /\ Len(l) > 0 /\ Head(l) = l[1]
      /\ Tail(l) \in Seq(1..Horizon) /\ Len(Tail(l)) = Len(l) - 1
      /\ \A i \in 1..(Len(l) - 1) : Tail(l)[i] = l[i + 1]
      /\ \A i \in 1..Len(l) : l[i] \in 1..Horizon
      /\ DOMAIN l = 1..Len(l) /\ DOMAIN Tail(l) = 1..(Len(l) - 1)
  BY <1>1, SeqParts
<1>3. Head(l) \in 1..Horizon /\ Head(l) \in ToSet(l)
  BY <1>2 DEF ToSet
<1>4. Tail(l) \in Lefts
  <2>1. Len(Tail(l)) <= MaxReminders
    BY <1>1, <1>2
  <2> QED
    BY <1>2, <2>1, LeftsAre
<1>5. ASSUME Increasing(l) PROVE Increasing(Tail(l)) /\ ToSet(Tail(l)) = ToSet(l) \ {Head(l)}
  <2>1. \A i, j \in 1..Len(l) : i < j => l[i] < l[j]
    BY <1>2, <1>5 DEF Increasing
  <2>2. \A i, j \in 1..(Len(l) - 1) : i < j => Tail(l)[i] < Tail(l)[j]
    BY <1>2, <2>1
  <2>3. ASSUME NEW t \in ToSet(Tail(l)) PROVE t \in ToSet(l) /\ t # Head(l)
    <3>1. PICK i \in 1..(Len(l) - 1) : t = Tail(l)[i]
      BY <1>2 DEF ToSet
    <3>2. i + 1 \in 1..Len(l) /\ 1 \in 1..Len(l) /\ 1 < i + 1 /\ t = l[i + 1]
      BY <1>2, <3>1
    <3>3. l[1] < l[i + 1] /\ l[1] \in Int
      BY <1>2, <2>1, <3>2
    <3> QED
      BY <1>2, <3>2, <3>3 DEF ToSet
  <2>4. ASSUME NEW t \in ToSet(l), t # Head(l) PROVE t \in ToSet(Tail(l))
    <3>1. PICK i \in 1..Len(l) : t = l[i]
      BY <1>2 DEF ToSet
    <3>2. i # 1
      BY <1>2, <2>4, <3>1
    <3>3. i - 1 \in 1..(Len(l) - 1) /\ t = Tail(l)[i - 1]
      BY <1>2, <3>1, <3>2
    <3> QED
      BY <1>2, <3>3 DEF ToSet
  <2> QED
    BY <1>2, <2>2, <2>3, <2>4 DEF Increasing
<1> QED
  BY <1>3, <1>4, <1>5

LEMMA NoTimes == <<>> \in Lefts /\ ToSet(<<>>) = {} /\ Increasing(<<>>)
<1>1. <<>> \in Seq(1..Horizon) /\ Len(<<>>) = 0 /\ DOMAIN <<>> = {}
  OBVIOUS
<1>2. <<>> \in Lefts
  <2>1. Len(<<>>) <= MaxReminders
    BY <1>1, PolicyAssumption
  <2> QED
    BY <1>1, <2>1, LeftsAre
<1>3. ToSet(<<>>) = {} /\ Increasing(<<>>)
  BY <1>1 DEF ToSet, Increasing
<1> QED
  BY <1>2, <1>3

Rests == {SubSeq(Targets, i, Len(Targets)) : i \in 1..(Len(Targets) + 1)}

LEMMA RestsAre ==
  /\ Targets \in Rests /\ <<>> \in Rests
  /\ \A l \in Rests : ToSet(l) \subseteq ToSet(Targets)
<1>1. Targets \in Seq(STRING) /\ Len(Targets) \in Nat
  BY EventAssumption
<1>2. SubSeq(Targets, 1, Len(Targets)) = Targets /\ 1 \in 1..(Len(Targets) + 1)
  BY <1>1
<1>3. /\ SubSeq(Targets, Len(Targets) + 1, Len(Targets)) = <<>>
      /\ Len(Targets) + 1 \in 1..(Len(Targets) + 1)
  BY <1>1
<1>4. ASSUME NEW i \in 1..(Len(Targets) + 1), NEW c \in ToSet(SubSeq(Targets, i, Len(Targets)))
      PROVE  c \in ToSet(Targets)
  <2> DEFINE l == SubSeq(Targets, i, Len(Targets))
  <2>1. PICK k \in DOMAIN l : c = l[k]
    BY DEF ToSet
  <2>2. k \in 1..(Len(Targets) - i + 1) /\ l[k] = Targets[i + k - 1]
    BY <1>1
  <2>3. i + k - 1 \in DOMAIN Targets
    BY <1>1, <2>2
  <2> QED
    BY <2>1, <2>2, <2>3 DEF ToSet
<1> QED
  BY <1>2, <1>3, <1>4 DEF Rests

\* Going on to the next channel.
LEMMA NextChannel ==
  ASSUME NEW l \in Rests, l # <<>>
  PROVE  /\ Head(l) \in ToSet(Targets) /\ Head(l) \in ToSet(l)
         /\ Tail(l) \in Rests /\ ToSet(Tail(l)) \subseteq ToSet(l)
         /\ IsInjective(Targets) => Head(l) \notin ToSet(Tail(l))
<1>1. Targets \in Seq(STRING) /\ Len(Targets) \in Nat
  BY EventAssumption
<1>2. PICK i \in 1..(Len(Targets) + 1) : l = SubSeq(Targets, i, Len(Targets))
  BY DEF Rests
<1> DEFINE n == Len(Targets)
<1>3. /\ l \in Seq(STRING) /\ Len(l) = n - i + 1 /\ Len(l) \in Nat
      /\ \A k \in 1..Len(l) : l[k] = Targets[i + k - 1]
  BY <1>1, <1>2
<1>4. Len(l) > 0
  BY <1>3
<1>5. i <= n
  BY <1>1, <1>3, <1>4
<1>6. /\ Head(l) = l[1] /\ Tail(l) \in Seq(STRING) /\ Len(Tail(l)) = Len(l) - 1
      /\ \A k \in 1..(Len(l) - 1) : Tail(l)[k] = l[k + 1]
  BY <1>3, <1>4
<1>7. Head(l) = Targets[i]
  BY <1>1, <1>3, <1>4, <1>6
<1>8. \A k \in 1..(Len(l) - 1) : Tail(l)[k] = Targets[i + k]
  <2> TAKE k \in 1..(Len(l) - 1)
  <2>1. k + 1 \in 1..Len(l) /\ i + (k + 1) - 1 = i + k
    BY <1>3
  <2> QED
    BY <1>3, <1>6, <2>1
<1>9. Tail(l) \in Rests
  <2> DEFINE m == SubSeq(Targets, i + 1, n)
  <2>1. i + 1 \in 1..(n + 1)
    BY <1>1, <1>5
  <2>2. m \in Seq(STRING) /\ Len(m) = n - i /\ \A k \in 1..(n - i) : m[k] = Targets[i + k]
    <3>1. m \in Seq(STRING) /\ Len(m) = n - (i + 1) + 1
      BY <1>1, <2>1
    <3>2. \A k \in 1..(n - (i + 1) + 1) : m[k] = Targets[(i + 1) + k - 1]
      BY <1>1, <2>1
    <3> QED
      BY <1>1, <3>1, <3>2
  <2>3. Tail(l) = m
    <3>1. n - i = Len(l) - 1 /\ n - i \in Nat
      BY <1>1, <1>3, <1>5
    <3>2. Tail(l) \in [1..(n - i) -> STRING] /\ m \in [1..(n - i) -> STRING]
      BY <1>6, <2>2, <3>1, SeqParts
    <3>3. \A k \in 1..(n - i) : Tail(l)[k] = m[k]
      BY <1>8, <2>2, <3>1
    <3> DEFINE u == Tail(l)
    <3> DEFINE D == 1..(n - i)
    <3>4. u \in [D -> STRING] /\ m \in [D -> STRING] /\ \A k \in D : u[k] = m[k]
      BY <3>2, <3>3
    <3> HIDE DEF u, m, D
    <3>5. u = m
      BY <3>4, SameFunction
    <3> QED
      BY <3>5 DEF u
  <2> QED
    BY <2>1, <2>3 DEF Rests
<1>10. DOMAIN l = 1..Len(l) /\ DOMAIN Tail(l) = 1..(Len(l) - 1)
  BY <1>3, <1>6
<1>11. Head(l) \in ToSet(l) /\ ToSet(Tail(l)) \subseteq ToSet(l)
  <2>1. 1 \in DOMAIN l
    BY <1>3, <1>4, <1>10
  <2>2. ASSUME NEW c \in ToSet(Tail(l)) PROVE c \in ToSet(l)
    <3>1. PICK k \in 1..(Len(l) - 1) : c = Tail(l)[k]
      BY <1>10 DEF ToSet
    <3>2. k + 1 \in DOMAIN l /\ c = l[k + 1]
      BY <1>3, <1>6, <1>10, <3>1
    <3> QED
      BY <3>2 DEF ToSet
  <2> QED
    BY <1>6, <2>1, <2>2 DEF ToSet
<1>12. Head(l) \in ToSet(Targets)
  BY <1>11, RestsAre
<1>13. ASSUME IsInjective(Targets), Head(l) \in ToSet(Tail(l)) PROVE FALSE
  <2>1. PICK k \in 1..(Len(l) - 1) : Head(l) = Tail(l)[k]
    BY <1>10, <1>13 DEF ToSet
  <2>2. Targets[i] = Targets[i + k]
    BY <1>7, <1>8, <2>1
  <2>3. DOMAIN Targets = 1..n
    BY <1>1
  <2>4. i \in 1..n /\ i + k \in 1..n /\ i # i + k
    BY <1>1, <1>3, <1>5
  <2>5. \A a, b \in DOMAIN Targets : Targets[a] = Targets[b] => a = b
    BY <1>13 DEF IsInjective
  <2> QED
    BY <2>2, <2>3, <2>4, <2>5
<1> QED
  BY <1>9, <1>11, <1>12, <1>13

-----------------------------------------------------------------------------
(* The types.                                                              *)

Steps == {"idle", "save", "clock", "cancel", "number", "check", "enqueue", "refused"}

Phases == {"none", "read", "post", "end"}

LEMMA RecordsAre ==
  /\ Request = [step : Steps, ev : Event, clock : 0..Horizon, left : Lefts, seq : Nat]
  /\ Exec = [phase : Phases, left : Rests]
  BY DEF Request, Exec, Lefts, Rests, Steps, Phases

LEMMA EventIs ==
  ASSUME NEW e \in Event
  PROVE  /\ e.policy \in Policy /\ Valid(e.policy)
         /\ e.starts \in Nat /\ e.starts <= Horizon /\ Horizon \in Nat
         /\ e.open \in BOOLEAN
<1>1. e.policy \in Policies /\ e.starts \in Dates /\ e.open \in BOOLEAN
  BY DEF Event
<1>2. e.starts \in 1..Horizon /\ Horizon \in Nat
  BY <1>1, EventAssumption, LimitAssumption
<1> QED
  BY <1>1, <1>2, EventAssumption

\* What has been planned stays to be enqueued.
LEMMA PlanFits ==
  ASSUME NEW e \in Event, NEW n \in 0..Horizon, Schedulable(e.policy, n, e.starts)
  PROVE  /\ Schedule(e.policy, n, e.starts) \in Lefts
         /\ Increasing(Schedule(e.policy, n, e.starts))
         /\ ToSet(Schedule(e.policy, n, e.starts)) = Promised(e.policy, n, e.starts)
<1> DEFINE s == Schedule(e.policy, n, e.starts)
<1>1. n \in Nat /\ e.policy \in Policy /\ e.starts \in Nat /\ e.starts <= Horizon /\ Horizon \in Nat
  BY EventIs
<1>2. /\ s \in Seq((n + 1)..e.starts) /\ Len(s) <= MaxReminders /\ Increasing(s)
      /\ ToSet(s) = Promised(e.policy, n, e.starts)
  BY <1>1, ScheduleKeepsPromise
<1>3. s \in Seq(1..Horizon)
  <2> HIDE DEF s
  <2>1. Len(s) \in Nat /\ s \in [1..Len(s) -> (n + 1)..e.starts]
    BY <1>2, SeqParts
  <2>2. (n + 1)..e.starts \subseteq 1..Horizon
    BY <1>1
  <2>3. s \in [1..Len(s) -> 1..Horizon]
    BY <2>1, <2>2
  <2> QED
    BY <2>1, <2>3, SeqIs
<1> QED
  BY <1>2, <1>3, LeftsAre

LEMMA PromisedAhead ==
  ASSUME NEW e \in Event, NEW n \in 0..Horizon
  PROVE  Promised(e.policy, n, e.starts) \subseteq (n + 1)..Horizon
  BY EventIs DEF Promised

LEMMA TypeInit == Init => TypeInv
<1> SUFFICES ASSUME Init PROVE TypeInv
  OBVIOUS
<1>1. now \in 0..Horizon /\ edits \in 0..MaxEdits /\ faults \in 0..MaxFaults /\ 0 \in 0..Horizon
  BY LimitAssumption DEF Init
<1>2. ev \in Event
  BY DEF Init, Event
<1>3. jobs \in [Seqs -> Job] /\ \A s \in Seqs : jobs[s].status = "absent"
  BY <1>1 DEF Init, NoJob, Job
<1>4. execs \in [Seqs -> Exec] /\ \A s \in Seqs : execs[s].phase = "none"
  BY RecordsAre, RestsAre DEF Init, NoExec, Phases
<1>5. posts \in [ToSet(Targets) \X (1..Horizon) -> Nat] /\ log = {}
  BY DEF Init
<1>6. reqs \in [Reqs -> Request] /\ \A r \in Reqs : reqs[r].step # "enqueue"
  <2>1. Idle(ev) \in Request /\ [Idle(ev) EXCEPT !.step = "clock"] \in Request
        /\ Idle(ev).step = "idle" /\ [Idle(ev) EXCEPT !.step = "clock"].step = "clock"
    BY <1>1, <1>2, RecordsAre, NoTimes DEF Idle, Steps
  <2>2. PICK r \in Reqs :
          reqs = [q \in Reqs |-> IF q = r THEN [Idle(ev) EXCEPT !.step = "clock"] ELSE Idle(ev)]
    BY DEF Init
  <2> QED
    BY <2>1, <2>2
<1>7. planned \in [known : BOOLEAN, times : SUBSET (1..Horizon)]
  BY DEF Init, Unplanned
<1> QED
  BY <1>1, <1>2, <1>3, <1>4, <1>5, <1>6, <1>7 DEF TypeInv, TypeOK, JobOK

\* A step of a request that leaves the jobs alone.
LEMMA RequestTypes ==
  ASSUME TypeInv, NEW r \in Reqs, NEW q \in Request,
         q.step = "enqueue" => q.left # <<>>,
         reqs' = [reqs EXCEPT ![r] = q]
  PROVE  reqs' \in [Reqs -> Request] /\ \A p \in Reqs : reqs'[p].step = "enqueue" => reqs'[p].left # <<>>
<1>1. reqs \in [Reqs -> Request] /\ \A p \in Reqs : reqs[p].step = "enqueue" => reqs[p].left # <<>>
  BY DEF TypeInv, TypeOK
<1> QED
  BY <1>1

LEMMA BeginTypes ==
  ASSUME TypeInv, NEW r \in Reqs, NEW e \in Event, Begin(r, e)
  PROVE  TypeInv'
<1> DEFINE q == [Idle(e) EXCEPT !.step = "save"]
<1>1. q \in Request /\ q.step = "save"
  BY RecordsAre, NoTimes, LimitAssumption DEF Idle, Steps
<1>2. reqs' = [reqs EXCEPT ![r] = q]
  BY DEF Begin
<1> HIDE DEF q
<1>3. reqs' \in [Reqs -> Request] /\ \A p \in Reqs : reqs'[p].step = "enqueue" => reqs'[p].left # <<>>
  BY <1>1, <1>2, RequestTypes
<1>4. edits' \in 0..MaxEdits
  BY LimitAssumption DEF Begin, TypeInv, TypeOK
<1> QED
  BY <1>3, <1>4 DEF Begin, TypeInv, TypeOK, JobOK

LEMMA StartTypes ==
  ASSUME TypeInv, NEW r \in Reqs, Update(r) \/ Close(r)
  PROVE  TypeInv'
<1>0. ev \in Event
  BY DEF TypeInv, TypeOK
<1>1. CASE Update(r)
  <2>1. PICK p \in Policies, d \in Dates : Begin(r, [ev EXCEPT !.policy = p, !.starts = d])
    BY <1>1 DEF Update
  <2>2. [ev EXCEPT !.policy = p, !.starts = d] \in Event
    BY <1>0 DEF Event
  <2> QED
    BY <2>1, <2>2, BeginTypes
<1>2. CASE Close(r)
  <2>1. [ev EXCEPT !.open = FALSE] \in Event
    BY <1>0 DEF Event
  <2> QED
    BY <1>2, <2>1, BeginTypes DEF Close
<1> QED
  BY <1>1, <1>2

\* The highest number in use.
LEMMA HighestUsed ==
  ASSUME TypeInv
  PROVE  /\ Max({0} \cup {s \in Seqs : jobs[s].status # "absent"}) \in Nat
         /\ \A s \in Seqs : s >= NextSequence => jobs[s].status = "absent"
<1> DEFINE S == {0} \cup {s \in Seqs : jobs[s].status # "absent"}
<1> DEFINE B == {k \in Nat : \A s \in S : s <= k}
<1>1. MaxSeq \in Nat /\ S \subseteq Nat /\ 0 \in S
  BY LimitAssumption DEF Seqs
<1>2. MaxSeq \in B
  BY <1>1 DEF Seqs
<1>3. Min(B) \in B /\ \A k \in B : Min(B) <= k
  <2>1. B \in SUBSET Nat /\ B # {}
    BY <1>2
  <2> HIDE DEF B
  <2> QED
    BY <2>1, Least
<1> DEFINE m == Min(B)
<1>4. m \in Nat /\ \A s \in S : s <= m
  BY <1>3
<1>5. m \in S
  <2>1. CASE m = 0
    BY <1>1, <2>1
  <2>2. CASE m # 0 /\ m \notin S
    <3> HIDE DEF m, S
    <3>1. m - 1 \in Nat
      BY <1>4, <2>2
    <3>2. \A s \in S : s <= m - 1
      BY <1>1, <1>4, <2>2
    <3>3. m - 1 \in B
      BY <3>1, <3>2
    <3>4. m <= m - 1
      BY <1>3, <3>3 DEF m
    <3> QED
      BY <1>4, <3>4
  <2> QED
    BY <2>1, <2>2
<1>6. \E x \in S : \A y \in S : x >= y
  <2> HIDE DEF m, S
  <2> QED
    BY <1>1, <1>4, <1>5
<1>7. Max(S) \in S /\ \A y \in S : Max(S) >= y
  <2> HIDE DEF S
  <2> QED
    BY <1>6 DEF Max
<1>8. ASSUME NEW s \in Seqs, s >= NextSequence PROVE jobs[s].status = "absent"
  <2>1. s \in Nat /\ NextSequence = Max(S) + 1 /\ Max(S) \in Nat
    BY <1>1, <1>7 DEF NextSequence, Seqs
  <2>2. s \notin S
    <3> HIDE DEF S
    <3>1. ~ (Max(S) >= s)
      BY <1>8, <2>1
    <3> QED
      BY <1>7, <3>1
  <2> QED
    BY <2>2
<1> QED
  BY <1>1, <1>7, <1>8

\* One more step, or the end, of a request.
LEMMA GotoTypes ==
  ASSUME TypeInv, NEW r \in Reqs, NEW step \in Steps \ {"enqueue"}, Goto(r, step)
  PROVE  reqs' \in [Reqs -> Request] /\ \A p \in Reqs : reqs'[p].step = "enqueue" => reqs'[p].left # <<>>
<1>1. reqs[r] \in Request
  BY DEF TypeInv, TypeOK
<1>2. [reqs[r] EXCEPT !.step = step] \in Request /\ [reqs[r] EXCEPT !.step = step].step = step
  BY <1>1, RecordsAre
<1>3. reqs' = [reqs EXCEPT ![r] = [reqs[r] EXCEPT !.step = step]]
  BY DEF Goto
<1> QED
  BY <1>2, <1>3, RequestTypes

LEMMA PlanTypes ==
  ASSUME TypeInv, NEW r \in Reqs,
         SaveEvent(r) \/ ReadClock(r) \/ ReadSequence(r) \/ CheckSent(r) \/ EndPlanning(r)
           \/ Refused(r) \/ Abort(r)
  PROVE  TypeInv'
<1> DEFINE GoodReqs == /\ reqs' \in [Reqs -> Request]
                       /\ \A p \in Reqs : reqs'[p].step = "enqueue" => reqs'[p].left # <<>>
<1>0. /\ reqs[r] \in Request /\ reqs[r].ev \in Event /\ reqs[r].left \in Lefts
      /\ reqs[r].seq \in Nat /\ reqs[r].clock \in 0..Horizon
      /\ now \in 0..Horizon /\ faults \in 0..MaxFaults /\ jobs \in [Seqs -> Job]
  BY RecordsAre DEF TypeInv, TypeOK
<1>1. CASE SaveEvent(r)
  <2>1. GoodReqs
    BY <1>1, GotoTypes DEF SaveEvent, Steps
  <2> QED
    BY <1>0, <1>1, <2>1 DEF SaveEvent, TypeInv, TypeOK, JobOK, Unplanned
<1>2. CASE ReadClock(r)
  <2> DEFINE q == [reqs[r] EXCEPT !.step = "cancel", !.clock = now]
  <2>1. q \in Request /\ q.step = "cancel" /\ reqs' = [reqs EXCEPT ![r] = q]
    BY <1>0, <1>2, RecordsAre DEF ReadClock, Steps
  <2> HIDE DEF q
  <2>2. GoodReqs
    BY <2>1, RequestTypes
  <2> QED
    BY <1>2, <2>2 DEF ReadClock, TypeInv, TypeOK, JobOK
<1>3. CASE ReadSequence(r)
  <2> DEFINE q == [reqs[r] EXCEPT !.step = "check", !.seq = NextSequence]
  <2>1. NextSequence \in Nat
    <3> DEFINE S == {0} \cup {s \in Seqs : jobs[s].status # "absent"}
    <3>1. Max(S) \in Nat
      BY HighestUsed
    <3> QED
      BY <3>1 DEF NextSequence
  <2>2. q \in Request /\ q.step = "check" /\ reqs' = [reqs EXCEPT ![r] = q]
    BY <1>0, <1>3, <2>1, RecordsAre DEF ReadSequence, Steps
  <2> HIDE DEF q
  <2>3. GoodReqs
    BY <2>2, RequestTypes
  <2> QED
    BY <1>3, <2>3 DEF ReadSequence, TypeInv, TypeOK, JobOK
<1>4. CASE CheckSent(r)
  <2>1. CASE SentAt(Head(reqs[r].left))
    <3> DEFINE q == [reqs[r] EXCEPT !.left = Tail(@)]
    <3>1. q \in Request /\ q.step = "check" /\ reqs' = [reqs EXCEPT ![r] = q]
      BY <1>0, <1>4, <2>1, NextTime, RecordsAre DEF CheckSent, Steps
    <3> HIDE DEF q
    <3>2. GoodReqs
      BY <3>1, RequestTypes
    <3> QED
      BY <1>4, <3>2 DEF CheckSent, TypeInv, TypeOK, JobOK
  <2>2. CASE ~ SentAt(Head(reqs[r].left))
    <3> DEFINE q == [reqs[r] EXCEPT !.step = "enqueue"]
    <3>1. q \in Request /\ q.left # <<>> /\ reqs' = [reqs EXCEPT ![r] = q]
      BY <1>0, <1>4, <2>2, RecordsAre DEF CheckSent, Steps, Goto
    <3> HIDE DEF q
    <3>2. GoodReqs
      BY <3>1, RequestTypes
    <3> QED
      BY <1>4, <3>2 DEF CheckSent, TypeInv, TypeOK, JobOK
  <2> QED
    BY <2>1, <2>2
<1>5. CASE EndPlanning(r)
  <2>1. GoodReqs
    BY <1>5, GotoTypes DEF EndPlanning, Steps
  <2>2. planned' \in [known : BOOLEAN, times : SUBSET (1..Horizon)]
    <3>1. Promised(reqs[r].ev.policy, reqs[r].clock, reqs[r].ev.starts) \subseteq 1..Horizon
      BY <1>0, PromisedAhead
    <3> QED
      BY <1>5, <3>1 DEF EndPlanning
  <2> QED
    BY <1>5, <2>1, <2>2 DEF EndPlanning, TypeInv, TypeOK, JobOK
<1>6. CASE Refused(r)
  <2>1. GoodReqs
    BY <1>6, GotoTypes DEF Refused, Steps
  <2> QED
    BY <1>6, <2>1 DEF Refused, TypeInv, TypeOK, JobOK
<1>7. CASE Abort(r)
  <2>1. GoodReqs
    BY <1>7, GotoTypes DEF Abort, Steps
  <2>2. faults' \in 0..MaxFaults
    BY <1>0, <1>7, LimitAssumption DEF Abort, Fault
  <2> QED
    BY <1>7, <2>1, <2>2 DEF Abort, TypeInv, TypeOK, JobOK
<1> QED
  BY <1>1, <1>2, <1>3, <1>4, <1>5, <1>6, <1>7

LEMMA CancelTypes ==
  ASSUME TypeInv, NEW r \in Reqs, CancelPending(r)
  PROVE  TypeInv'
<1> DEFINE e == reqs[r].ev
<1>0. reqs[r] \in Request /\ e \in Event /\ reqs[r].clock \in 0..Horizon /\ jobs \in [Seqs -> Job]
  BY RecordsAre DEF TypeInv, TypeOK
<1>1. reqs' \in [Reqs -> Request] /\ \A p \in Reqs : reqs'[p].step = "enqueue" => reqs'[p].left # <<>>
  <2>1. CASE Goto(r, "idle") \/ Goto(r, "refused")
    BY <2>1, GotoTypes DEF Steps
  <2>2. CASE /\ Schedulable(e.policy, reqs[r].clock, e.starts)
             /\ reqs' = [reqs EXCEPT ![r].step = "number",
                            ![r].left = Schedule(e.policy, reqs[r].clock, e.starts)]
    <3> DEFINE l == Schedule(e.policy, reqs[r].clock, e.starts)
    <3>1. l \in Lefts
      BY <1>0, <2>2, PlanFits
    <3> HIDE DEF l
    <3> DEFINE q == [reqs[r] EXCEPT !.step = "number", !.left = l]
    <3>2. reqs' = [reqs EXCEPT ![r] = q]
      BY <2>2 DEF l
    <3>3. q \in Request /\ q.step = "number"
      BY <1>0, <3>1, RecordsAre DEF Steps
    <3> HIDE DEF q
    <3> QED
      BY <3>2, <3>3, RequestTypes
  <2> QED
    BY <2>1, <2>2 DEF CancelPending
<1>2. jobs' = [s \in Seqs |-> IF jobs[s].status = "pending"
                             THEN [jobs[s] EXCEPT !.status = "canceled"]
                             ELSE jobs[s]]
  BY DEF CancelPending
<1>3. jobs' \in [Seqs -> Job]
  BY <1>0, <1>2 DEF Job
<1>4. ASSUME NEW s \in Seqs PROVE JobOK(s)'
  <2>1. jobs[s] \in Job /\ JobOK(s)
    BY <1>0 DEF TypeInv
  <2>2. jobs'[s].at = jobs[s].at
    BY <1>2, <2>1 DEF Job
  <2>3. jobs'[s].status = IF jobs[s].status = "pending" THEN "canceled" ELSE jobs[s].status
    BY <1>2, <2>1 DEF Job
  <2>4. now' = now /\ execs' = execs
    BY DEF CancelPending
  <2> QED
    BY <2>1, <2>2, <2>3, <2>4 DEF JobOK
<1> QED
  BY <1>1, <1>3, <1>4 DEF CancelPending, TypeInv, TypeOK

LEMMA EnqueueTypes ==
  ASSUME TypeInv, NEW r \in Reqs, Enqueue(r)
  PROVE  TypeInv'
<1> DEFINE n == reqs[r].seq
<1> DEFINE h == Head(reqs[r].left)
<1>0. /\ reqs[r] \in Request /\ n \in Seqs /\ n \in Nat /\ reqs[r].left \in Lefts /\ reqs[r].left # <<>>
      /\ jobs \in [Seqs -> Job]
  BY RecordsAre DEF TypeInv, TypeOK, Enqueue
<1>1. h \in 1..Horizon /\ Tail(reqs[r].left) \in Lefts
  BY <1>0, NextTime
<1>2. reqs' \in [Reqs -> Request] /\ \A p \in Reqs : reqs'[p].step = "enqueue" => reqs'[p].left # <<>>
  <2> DEFINE t == Tail(reqs[r].left)
  <2> DEFINE m == n + 1
  <2> DEFINE q == [reqs[r] EXCEPT !.step = "check", !.seq = m, !.left = t]
  <2>0. t \in Lefts /\ m \in Nat
    BY <1>0, <1>1
  <2>2. reqs' = [reqs EXCEPT ![r].step = "check", ![r].seq = m, ![r].left = t]
    BY DEF Enqueue
  <2> HIDE DEF t, m
  <2>3. q \in Request /\ q.step = "check"
    BY <1>0, <2>0, RecordsAre DEF Steps
  <2>4. reqs' = [reqs EXCEPT ![r] = q]
    BY <1>0, <2>2
  <2>1. q \in Request /\ q.step = "check" /\ reqs' = [reqs EXCEPT ![r] = q]
    BY <2>3, <2>4
  <2> HIDE DEF q
  <2> QED
    BY <2>1, RequestTypes
<1>3. jobs' = IF jobs[n].status = "absent"
              THEN [jobs EXCEPT ![n] = [status |-> "pending", at |-> h]] ELSE jobs
  BY DEF Enqueue
<1> HIDE DEF n, h
<1>4. jobs' \in [Seqs -> Job]
  BY <1>0, <1>1, <1>3 DEF Job
<1>5. ASSUME NEW s \in Seqs PROVE JobOK(s)'
  <2>1. JobOK(s) /\ JobOK(n)
    BY <1>0 DEF TypeInv
  <2>2. now' = now /\ execs' = execs
    BY DEF Enqueue
  <2>3. jobs'[s] = jobs[s] \/ (s = n /\ jobs[n].status = "absent" /\ jobs'[s] = [status |-> "pending", at |-> h])
    BY <1>0, <1>3
  <2> QED
    BY <2>1, <2>2, <2>3, <1>1 DEF JobOK
<1> QED
  BY <1>2, <1>4, <1>5 DEF Enqueue, TypeInv, TypeOK

\* A step of a worker.
LEMMA WorkerTypes ==
  ASSUME TypeInv, NEW s \in Seqs, Send(s) \/ PostFails(s) \/ Cut(s)
  PROVE  TypeInv'
<1> DEFINE GoodWork == jobs' \in [Seqs -> Job] /\ execs' \in [Seqs -> Exec] /\ \A u \in Seqs : JobOK(u)'
<1>0. /\ jobs \in [Seqs -> Job] /\ execs \in [Seqs -> Exec] /\ \A u \in Seqs : JobOK(u)
      /\ now \in 0..Horizon /\ faults \in 0..MaxFaults
      /\ execs[s].left \in Rests /\ Targets \in Rests /\ <<>> \in Rests
  BY RecordsAre, RestsAre DEF TypeInv, TypeOK
<1>1. ASSUME NEW job \in Job, NEW exec \in Exec,
             jobs' = [jobs EXCEPT ![s] = job], execs' = [execs EXCEPT ![s] = exec], now' = now,
             job.status # "absent" => job.at \in 1..Horizon,
             job.status \in {"running", "done"} => job.at <= now,
             exec.phase # "none" => job.status = "running"
      PROVE  GoodWork
  <2>1. \A u \in Seqs : /\ jobs'[u] = IF u = s THEN job ELSE jobs[u]
                        /\ execs'[u] = IF u = s THEN exec ELSE execs[u]
    BY <1>0, <1>1
  <2>2. ASSUME NEW u \in Seqs PROVE JobOK(u)'
    BY <1>0, <1>1, <2>1 DEF JobOK
  <2> QED
    BY <1>0, <1>1, <2>2
<1>2. jobs[s] \in Job /\ execs[s] \in Exec /\ JobOK(s)
  BY <1>0
<1>3. CASE Claim(s)
  <2> DEFINE job == [jobs[s] EXCEPT !.status = "running"]
  <2> DEFINE exec == [phase |-> "read", left |-> Targets]
  <2>1. job \in Job /\ job.at = jobs[s].at /\ job.status = "running"
    BY <1>2 DEF Job
  <2>2. exec \in Exec
    BY <1>0, RecordsAre DEF Phases
  <2>3. jobs' = [jobs EXCEPT ![s] = job] /\ execs' = [execs EXCEPT ![s] = exec] /\ now' = now
    BY <1>3 DEF Claim
  <2>4. job.at \in 1..Horizon /\ job.at <= now
    BY <1>2, <1>3, <2>1 DEF Claim, Claimable, JobOK
  <2> HIDE DEF job, exec
  <2>5. GoodWork
    BY <2>1, <2>2, <2>3, <2>4, <1>1
  <2> QED
    BY <1>3, <2>5 DEF Claim, TypeInv, TypeOK
<1>4. CASE ReadEvent(s) \/ AppendLog(s)
  <2>1. PICK phase \in Phases : execs' = [execs EXCEPT ![s].phase = phase] /\ execs[s].phase # "none"
    BY <1>4 DEF ReadEvent, AppendLog, ExecTo, Phases
  <2> DEFINE exec == [execs[s] EXCEPT !.phase = phase]
  <2>2. exec \in Exec /\ execs' = [execs EXCEPT ![s] = exec]
    BY <1>2, <2>1, RecordsAre
  <2>3. jobs' = [jobs EXCEPT ![s] = jobs[s]] /\ now' = now
    BY <1>0, <1>4 DEF ReadEvent, AppendLog
  <2> HIDE DEF exec
  <2>4. /\ jobs[s].status = "running" /\ jobs[s].at \in 1..Horizon /\ jobs[s].at <= now
    BY <1>2, <2>1 DEF JobOK
  <2>5. GoodWork
    BY <1>2, <2>2, <2>3, <2>4, <1>1
  <2>6. log' \subseteq [seq : Seqs, at : 1..Horizon] /\ \A l \in log' : l.at <= now
    BY <1>4, <2>4 DEF ReadEvent, AppendLog, TypeInv, TypeOK
  <2> QED
    BY <1>4, <2>5, <2>6 DEF ReadEvent, AppendLog, TypeInv, TypeOK
<1>5. CASE Post(s) \/ PostFails(s)
  <2> DEFINE left == Tail(execs[s].left)
  <2> DEFINE c == Head(execs[s].left)
  <2>0. Posted(s) /\ jobs' = jobs /\ now' = now
    BY <1>5 DEF Post, PostFails
  <2>1. left \in Rests /\ c \in ToSet(Targets) /\ execs' = [execs EXCEPT ![s].left = left]
    BY <1>0, <2>0, NextChannel DEF Posted
  <2> HIDE DEF left, c
  <2> DEFINE exec == [execs[s] EXCEPT !.left = left]
  <2>2. exec \in Exec /\ execs' = [execs EXCEPT ![s] = exec] /\ exec.phase = "post"
    BY <1>2, <2>0, <2>1, RecordsAre DEF Posted
  <2>3. jobs' = [jobs EXCEPT ![s] = jobs[s]]
    BY <1>0, <2>0
  <2> HIDE DEF exec
  <2>4. /\ jobs[s].status = "running" /\ jobs[s].at \in 1..Horizon /\ jobs[s].at <= now
    BY <1>2, <2>0 DEF JobOK, Posted
  <2>5. GoodWork
    BY <1>2, <2>0, <2>2, <2>3, <2>4, <1>1
  <2>6. posts' \in [ToSet(Targets) \X (1..Horizon) -> Nat]
    <3>1. posts \in [ToSet(Targets) \X (1..Horizon) -> Nat]
      BY DEF TypeInv, TypeOK
    <3>2. <<c, jobs[s].at>> \in ToSet(Targets) \X (1..Horizon)
      BY <2>1, <2>4
    <3>3. posts' = [posts EXCEPT ![<<c, jobs[s].at>>] = @ + 1] \/ posts' = posts
      BY <1>5 DEF Post, PostFails, c
    <3> QED
      BY <3>1, <3>2, <3>3
  <2>7. faults' \in 0..MaxFaults
    BY <1>0, <1>5, LimitAssumption DEF Post, PostFails, Fault
  <2> QED
    BY <1>5, <2>5, <2>6, <2>7 DEF Post, PostFails, TypeInv, TypeOK
<1>6. CASE Complete(s)
  <2> DEFINE job == [jobs[s] EXCEPT !.status = "done"]
  <2>1. job \in Job /\ job.at = jobs[s].at /\ job.status = "done"
    BY <1>2 DEF Job
  <2>2. NoExec \in Exec /\ NoExec.phase = "none"
    BY <1>0, RecordsAre DEF Phases, NoExec
  <2>3. jobs' = [jobs EXCEPT ![s] = job] /\ execs' = [execs EXCEPT ![s] = NoExec] /\ now' = now
    BY <1>6 DEF Complete
  <2>4. job.at \in 1..Horizon /\ job.at <= now
    BY <1>2, <1>6, <2>1 DEF Complete, JobOK
  <2> HIDE DEF job
  <2>5. GoodWork
    BY <2>1, <2>2, <2>3, <2>4, <1>1
  <2> QED
    BY <1>6, <2>5 DEF Complete, TypeInv, TypeOK
<1>7. CASE Cut(s)
  <2>1. PICK job \in Job : /\ job.at = jobs[s].at /\ job.status \in {"pending", "running"}
                           /\ jobs' = [jobs EXCEPT ![s] = job]
    <3>1. execs[s].phase \in {"read", "post", "end"}
      BY <1>7, LimitAssumption DEF Cut
    <3>2. jobs[s].status = "running"
      BY <1>2, <3>1 DEF JobOK
    <3>3. CASE jobs' = [jobs EXCEPT ![s].status = "pending"]
      <4> DEFINE job == [jobs[s] EXCEPT !.status = "pending"]
      <4>1. job \in Job /\ job.at = jobs[s].at /\ job.status = "pending"
        BY <1>2 DEF Job
      <4>2. jobs' = [jobs EXCEPT ![s] = job]
        BY <3>3
      <4> QED
        BY <4>1, <4>2
    <3>4. CASE jobs' = jobs
      <4>1. jobs' = [jobs EXCEPT ![s] = jobs[s]]
        BY <1>0, <3>4
      <4> QED
        BY <1>2, <3>2, <4>1
    <3> QED
      BY <1>7, <3>3, <3>4 DEF Cut
  <2>2. NoExec \in Exec /\ NoExec.phase = "none"
    BY <1>0, RecordsAre DEF Phases, NoExec
  <2>3. execs' = [execs EXCEPT ![s] = NoExec] /\ now' = now
    BY <1>7 DEF Cut
  <2>4. job.at \in 1..Horizon /\ job.at <= now
    <3>1. execs[s].phase # "none"
      BY <1>7, LimitAssumption DEF Cut
    <3> QED
      BY <1>2, <2>1, <3>1 DEF JobOK
  <2>5. GoodWork
    BY <2>1, <2>2, <2>3, <2>4, <1>1
  <2>6. faults' \in 0..MaxFaults
    BY <1>0, <1>7, LimitAssumption DEF Cut, Fault
  <2> QED
    BY <1>7, <2>5, <2>6 DEF Cut, TypeInv, TypeOK
<1> QED
  BY <1>3, <1>4, <1>5, <1>6, <1>7 DEF Send

LEMMA TypeNext == TypeInv /\ [Next]_vars => TypeInv'
<1> SUFFICES ASSUME TypeInv, [Next]_vars PROVE TypeInv'
  OBVIOUS
<1>1. CASE UNCHANGED vars
  BY <1>1 DEF vars, TypeInv, TypeOK, JobOK
<1>2. ASSUME NEW r \in Reqs, Update(r) \/ Close(r) \/ Plan(r) \/ Abort(r) PROVE TypeInv'
  BY <1>2, StartTypes, PlanTypes, CancelTypes, EnqueueTypes DEF Plan
<1>3. ASSUME NEW s \in Seqs, Send(s) \/ PostFails(s) \/ Cut(s) PROVE TypeInv'
  BY <1>3, WorkerTypes
<1>4. CASE Tick
  <2>1. now' \in 0..Horizon /\ now' = now + 1 /\ now \in Nat
    BY <1>4, LimitAssumption DEF Tick, TypeInv, TypeOK
  <2>2. ASSUME NEW s \in Seqs PROVE JobOK(s)'
    <3>1. JobOK(s) /\ jobs[s].at \in Nat
      BY LimitAssumption DEF TypeInv, TypeOK, Job
    <3> QED
      BY <1>4, <2>1, <3>1 DEF Tick, JobOK
  <2>3. \A l \in log : l.at <= now'
    BY <2>1, LimitAssumption DEF TypeInv, TypeOK
  <2> QED
    BY <1>4, <2>1, <2>2, <2>3 DEF Tick, TypeInv, TypeOK
<1> QED
  BY <1>1, <1>2, <1>3, <1>4 DEF Next

LEMMA TypeInvariance == Spec => []TypeInv
  BY TypeInit, TypeNext, PTL DEF Spec

\* usecase/reminder.go:12-59, domain/reminder.go:91: with any number of requests at a
\* time and any failures, no request ever has more than MaxReminders times to
\* enqueue, and what is posted and logged was planned for some time.
THEOREM TypeCorrect == Spec => []TypeOK
<1>1. TypeInv => TypeOK
  BY DEF TypeInv
<1> QED
  BY TypeInvariance, <1>1, PTL

-----------------------------------------------------------------------------
(* The plan.                                                               *)

\* Nothing that matters to a plan changes: no number is taken, and of the jobs
\* of the times after n none comes or goes.
Untouched(js, other, n) ==
  \A s \in Seqs :
    /\ js[s].status = "absent" => other[s].status = "absent"
    /\ \A t \in (n + 1)..Horizon :
         (js[s].status = "pending" /\ js[s].at = t)
           <=> (other[s].status = "pending" /\ other[s].at = t)

LEMMA UntouchedPlan ==
  ASSUME NEW js, NEW other, NEW n, NEW T, Untouched(js, other, n), InPlan(js, n, T)
  PROVE  InPlan(other, n, T)
<1>1. ASSUME NEW t \in (n + 1)..Horizon PROVE PendingAt(js, t) = PendingAt(other, t)
  BY <1>1 DEF Untouched, PendingAt
<1> QED
  BY <1>1 DEF InPlan

LEMMA UntouchedFits ==
  ASSUME NEW js, NEW other, NEW n, NEW req, NEW e, NEW known,
         Untouched(js, other, n), Fits(req, e, known, n, js)
  PROVE  Fits(req, e, known, n, other)
<1>1. InPlan(js, n, Due(req) \ ToSet(req.left)) => InPlan(other, n, Due(req) \ ToSet(req.left))
  BY UntouchedPlan
<1>2. \A s \in Seqs : js[s].status = "absent" => other[s].status = "absent"
  BY DEF Untouched
<1> QED
  BY <1>1, <1>2 DEF Fits

LEMMA WorkerUntouched ==
  ASSUME TypeInv, NEW s \in Seqs, Send(s) \/ PostFails(s) \/ Cut(s)
  PROVE  /\ Untouched(jobs, jobs', now)
         /\ UNCHANGED <<now, ev, reqs, planned>>
<1>0. /\ jobs \in [Seqs -> Job] /\ \A u \in Seqs : JobOK(u) /\ jobs[u].at \in Nat
      /\ now \in Nat /\ Horizon \in Nat
  BY LimitAssumption DEF TypeInv, TypeOK, Job
<1>1. UNCHANGED <<now, ev, reqs, planned>>
  BY DEF Send, Claim, ReadEvent, Post, AppendLog, Complete, PostFails, Cut
<1>2. \/ jobs' = jobs
      \/ \E st \in {"pending", "running", "done"} :
           /\ jobs' = [jobs EXCEPT ![s].status = st]
           /\ jobs[s].status # "absent" /\ jobs[s].at <= now
  <2>1. CASE Claim(s)
    BY <2>1 DEF Claim, Claimable
  <2>2. CASE Complete(s)
    BY <1>0, <2>2 DEF Complete, JobOK
  <2>3. CASE Cut(s)
    <3>1. execs[s].phase # "none"
      BY <2>3, LimitAssumption DEF Cut
    <3> QED
      BY <1>0, <2>3, <3>1 DEF Cut, JobOK
  <2>4. CASE ReadEvent(s) \/ Post(s) \/ AppendLog(s) \/ PostFails(s)
    BY <2>4 DEF ReadEvent, Post, AppendLog, PostFails
  <2> QED
    BY <2>1, <2>2, <2>3, <2>4 DEF Send
<1>3. CASE jobs' = jobs
  BY <1>1, <1>3 DEF Untouched
<1>4. ASSUME NEW st, jobs' = [jobs EXCEPT ![s].status = st], st # "absent",
             jobs[s].status # "absent", jobs[s].at <= now
      PROVE  Untouched(jobs, jobs', now)
  <2>1. \A u \in Seqs \ {s} : jobs'[u] = jobs[u]
    BY <1>0, <1>4
  <2>2. jobs'[s].at = jobs[s].at /\ jobs'[s].status = st
    BY <1>0, <1>4 DEF Job
  <2>3. \A t \in (now + 1)..Horizon : jobs[s].at # t
    BY <1>0, <1>4
  <2> QED
    BY <1>4, <2>1, <2>2, <2>3 DEF Untouched
<1> QED
  BY <1>1, <1>2, <1>3, <1>4

LEMMA PlanWorker ==
  ASSUME TypeInv, PlanInv, NEW s \in Seqs, Send(s) \/ PostFails(s) \/ Cut(s)
  PROVE  PlanInv'
<1>1. Untouched(jobs, jobs', now) /\ UNCHANGED <<now, ev, reqs, planned>>
  BY WorkerUntouched
<1>2. ASSUME NEW r \in Reqs PROVE Fits(reqs[r], ev, planned.known, now, jobs')
  <2>1. Fits(reqs[r], ev, planned.known, now, jobs)
    BY DEF PlanInv
  <2> QED
    BY <1>1, <2>1, UntouchedFits
<1>3. planned.known /\ ev.open => InPlan(jobs', now, planned.times)
  BY <1>1, UntouchedPlan DEF PlanInv
<1> QED
  BY <1>1, <1>2, <1>3 DEF PlanInv

LEMMA PlanTick ==
  ASSUME Calm, TypeInv, PlanInv, Tick
  PROVE  PlanInv'
<1>1. now \in Nat /\ now' = now + 1 /\ UNCHANGED <<ev, jobs, reqs, planned>> /\ Horizon \in Nat
  BY LimitAssumption DEF Tick, TypeInv, TypeOK
<1>2. ASSUME NEW r \in Reqs PROVE Fits(reqs[r], ev, planned.known, now', jobs)
  <2>1. Fits(reqs[r], ev, planned.known, now, jobs)
    BY DEF PlanInv
  <2>2. ~ Planning(r)
    BY DEF Tick, Calm
  <2> QED
    BY <2>1, <2>2 DEF Fits, Planning
<1>3. ASSUME InPlan(jobs, now, planned.times) PROVE InPlan(jobs, now', planned.times)
  <2>1. (now' + 1)..Horizon \subseteq (now + 1)..Horizon
    BY <1>1
  <2> QED
    BY <1>3, <2>1 DEF InPlan
<1> QED
  BY <1>1, <1>2, <1>3 DEF PlanInv

\* A step of the one request under way, or the start of one.
LEMMA OneRequest ==
  ASSUME TypeInv, PlanInv, NEW r \in Reqs, NEW q,
         reqs' = [reqs EXCEPT ![r] = q],
         reqs[r].step # "idle" \/ \A p \in Reqs : reqs[p].step = "idle",
         Fits(q, ev', planned'.known, now', jobs'),
         planned'.known /\ ev'.open => InPlan(jobs', now', planned'.times)
  PROVE  PlanInv'
<1>1. \A p \in Reqs : reqs'[p] = IF p = r THEN q ELSE reqs[p]
  BY DEF TypeInv, TypeOK
<1>2. \A p \in Reqs \ {r} : reqs[p].step = "idle"
  BY DEF PlanInv
<1>3. ASSUME NEW p \in Reqs PROVE Fits(reqs'[p], ev', planned'.known, now', jobs')
  <2>1. CASE p = r
    BY <1>1, <2>1
  <2>2. CASE p # r
    BY <1>1, <1>2, <2>2 DEF Fits
  <2> QED
    BY <2>1, <2>2
<1> QED
  BY <1>1, <1>2, <1>3 DEF PlanInv

LEMMA PlanStart ==
  ASSUME Calm, TypeInv, PlanInv, NEW r \in Reqs, Update(r) \/ Close(r)
  PROVE  PlanInv'
<1>1. PICK e : Begin(r, e)
  BY DEF Update, Close
<1> DEFINE q == [Idle(e) EXCEPT !.step = "save"]
<1>2. q.step = "save" /\ reqs' = [reqs EXCEPT ![r] = q]
  BY <1>1 DEF Begin, Idle
<1> HIDE DEF q
<1>3. Fits(q, ev', planned'.known, now', jobs')
  BY <1>2 DEF Fits
<1>4. UNCHANGED <<ev, planned, now, jobs>> /\ \A p \in Reqs : reqs[p].step = "idle"
  BY <1>1 DEF Begin, Calm
<1> QED
  BY <1>2, <1>3, <1>4, OneRequest DEF PlanInv

LEMMA PlanGoto ==
  ASSUME TypeInv, PlanInv, NEW r \in Reqs,
         SaveEvent(r) \/ ReadClock(r) \/ ReadSequence(r) \/ Refused(r) \/ Abort(r)
  PROVE  PlanInv'
<1>0. reqs[r] \in Request /\ Fits(reqs[r], ev, planned.known, now, jobs)
  BY DEF TypeInv, TypeOK, PlanInv
<1>1. CASE SaveEvent(r)
  <2> DEFINE q == [reqs[r] EXCEPT !.step = "clock"]
  <2>1. q.step = "clock" /\ q.ev = reqs[r].ev /\ reqs' = [reqs EXCEPT ![r] = q]
    BY <1>0, <1>1, RecordsAre DEF SaveEvent, Goto
  <2> HIDE DEF q
  <2>2. planned'.known = FALSE /\ ev' = reqs[r].ev /\ reqs[r].step = "save"
    BY <1>1 DEF SaveEvent, Unplanned
  <2>3. Fits(q, ev', planned'.known, now', jobs')
    BY <2>1, <2>2 DEF Fits
  <2> QED
    BY <2>1, <2>2, <2>3, OneRequest
<1>2. CASE ReadClock(r)
  <2> DEFINE q == [reqs[r] EXCEPT !.step = "cancel", !.clock = now]
  <2>1. q.step = "cancel" /\ q.ev = reqs[r].ev /\ q.clock = now /\ reqs' = [reqs EXCEPT ![r] = q]
    BY <1>0, <1>2, RecordsAre DEF ReadClock
  <2> HIDE DEF q
  <2>2. reqs[r].step = "clock" /\ UNCHANGED <<now, ev, planned, jobs>>
    BY <1>2 DEF ReadClock
  <2>3. Fits(q, ev', planned'.known, now', jobs')
    BY <1>0, <2>1, <2>2 DEF Fits
  <2> QED
    BY <2>1, <2>2, <2>3, OneRequest DEF PlanInv
<1>3. CASE ReadSequence(r)
  <2> DEFINE n == NextSequence
  <2>0. \A s \in Seqs : s >= n => jobs[s].status = "absent"
    BY HighestUsed
  <2>1. reqs' = [reqs EXCEPT ![r].step = "check", ![r].seq = n]
    BY <1>3 DEF ReadSequence
  <2> HIDE DEF n
  <2> DEFINE q == [reqs[r] EXCEPT !.step = "check", !.seq = n]
  <2>2. /\ q.step = "check" /\ q.ev = reqs[r].ev /\ q.clock = reqs[r].clock /\ q.left = reqs[r].left
        /\ q.seq = n /\ reqs' = [reqs EXCEPT ![r] = q]
    BY <1>0, <2>1, RecordsAre
  <2> HIDE DEF q
  <2>3. reqs[r].step = "number" /\ UNCHANGED <<now, ev, planned, jobs>>
    BY <1>3 DEF ReadSequence
  <2>4. Due(q) = Due(reqs[r])
    BY <2>2 DEF Due
  <2>5. Fits(q, ev', planned'.known, now', jobs')
    BY <1>0, <2>0, <2>2, <2>3, <2>4 DEF Fits
  <2> QED
    BY <2>2, <2>3, <2>5, OneRequest DEF PlanInv
<1>4. CASE Refused(r) \/ Abort(r)
  <2> DEFINE q == [reqs[r] EXCEPT !.step = "idle"]
  <2>1. q.step = "idle" /\ reqs' = [reqs EXCEPT ![r] = q]
    BY <1>0, <1>4, RecordsAre DEF Refused, Abort, Goto
  <2> HIDE DEF q
  <2>2. reqs[r].step # "idle" /\ UNCHANGED <<now, ev, planned, jobs>>
    BY <1>4 DEF Refused, Abort
  <2>3. Fits(q, ev', planned'.known, now', jobs')
    BY <2>1 DEF Fits
  <2> QED
    BY <2>1, <2>2, <2>3, OneRequest DEF PlanInv
<1> QED
  BY <1>1, <1>2, <1>3, <1>4

LEMMA PlanCancel ==
  ASSUME TypeInv, PlanInv, NEW r \in Reqs, CancelPending(r)
  PROVE  PlanInv'
<1> DEFINE e == reqs[r].ev
<1> DEFINE n == reqs[r].clock
<1>0. /\ reqs[r] \in Request /\ Fits(reqs[r], ev, planned.known, now, jobs) /\ jobs \in [Seqs -> Job]
      /\ e \in Event /\ n \in 0..Horizon
  BY RecordsAre DEF TypeInv, TypeOK, PlanInv
<1>1. reqs[r].step = "cancel" /\ UNCHANGED <<now, ev, planned>>
  BY DEF CancelPending
<1>2. ~ planned.known /\ reqs[r].ev = ev /\ n = now
  BY <1>0, <1>1 DEF Fits
<1>3. InPlan(jobs', now, {})
  <2>1. jobs' = [s \in Seqs |-> IF jobs[s].status = "pending"
                               THEN [jobs[s] EXCEPT !.status = "canceled"]
                               ELSE jobs[s]]
    BY DEF CancelPending
  <2>2. \A s \in Seqs : jobs'[s].status # "pending"
    BY <1>0, <2>1 DEF Job
  <2> QED
    BY <2>2 DEF InPlan, PendingAt
<1>4. CASE Goto(r, "idle") \/ Goto(r, "refused")
  <2>1. PICK step \in {"idle", "refused"} : Goto(r, step)
    BY <1>4
  <2> DEFINE q == [reqs[r] EXCEPT !.step = step]
  <2>2. q.step = step /\ q.ev = reqs[r].ev /\ reqs' = [reqs EXCEPT ![r] = q]
    BY <1>0, <2>1, RecordsAre DEF Goto
  <2> HIDE DEF q
  <2>3. Fits(q, ev', planned'.known, now', jobs')
    BY <1>1, <1>2, <2>1, <2>2 DEF Fits
  <2> QED
    BY <1>1, <1>2, <2>2, <2>3, OneRequest
<1>5. CASE /\ Schedulable(e.policy, n, e.starts)
           /\ reqs' = [reqs EXCEPT ![r].step = "number", ![r].left = Schedule(e.policy, n, e.starts)]
  <2> DEFINE l == Schedule(e.policy, n, e.starts)
  <2>1. Increasing(l) /\ ToSet(l) = Promised(e.policy, n, e.starts)
    BY <1>0, <1>5, PlanFits
  <2>2. ToSet(l) = Due(reqs[r])
    BY <2>1 DEF Due
  <2>3. reqs' = [reqs EXCEPT ![r].step = "number", ![r].left = l]
    BY <1>5
  <2> HIDE DEF l
  <2> DEFINE q == [reqs[r] EXCEPT !.step = "number", !.left = l]
  <2>4. /\ q.step = "number" /\ q.ev = reqs[r].ev /\ q.clock = reqs[r].clock /\ q.left = l
        /\ reqs' = [reqs EXCEPT ![r] = q]
    BY <1>0, <2>3, RecordsAre
  <2> HIDE DEF q
  <2>5. Due(q) = Due(reqs[r]) /\ Due(q) \ ToSet(l) = {} /\ ToSet(l) \subseteq Due(q)
    BY <2>2, <2>4 DEF Due
  <2>6. Fits(q, ev', planned'.known, now', jobs')
    BY <1>1, <1>2, <1>3, <2>1, <2>4, <2>5 DEF Fits
  <2> QED
    BY <1>1, <1>2, <2>4, <2>6, OneRequest
<1> QED
  BY <1>4, <1>5 DEF CancelPending

\* A request that plans passes no time over: none has been sent that is to come.
LEMMA PlanCheck ==
  ASSUME TypeInv, PlanInv, NEW r \in Reqs, CheckSent(r)
  PROVE  PlanInv'
<1>0. /\ reqs[r] \in Request /\ Fits(reqs[r], ev, planned.known, now, jobs)
      /\ reqs[r].ev \in Event /\ reqs[r].clock \in 0..Horizon /\ reqs[r].left \in Lefts
  BY RecordsAre DEF TypeInv, TypeOK, PlanInv
<1>1. reqs[r].step = "check" /\ reqs[r].left # <<>> /\ UNCHANGED <<now, ev, planned, jobs>>
  BY DEF CheckSent
<1>2. Head(reqs[r].left) \in (now + 1)..Horizon
  <2>1. Head(reqs[r].left) \in ToSet(reqs[r].left)
    BY <1>0, <1>1, NextTime
  <2>2. ToSet(reqs[r].left) \subseteq Due(reqs[r]) /\ reqs[r].clock = now
    BY <1>0, <1>1 DEF Fits
  <2> QED
    BY <1>0, <2>1, <2>2, PromisedAhead DEF Due
<1>3. ~ SentAt(Head(reqs[r].left))
  <2>1. \A l \in log : l.at <= now /\ l.at \in Nat
    BY LimitAssumption DEF TypeInv, TypeOK
  <2>2. now \in Nat
    BY LimitAssumption DEF TypeInv, TypeOK
  <2> QED
    BY <1>2, <2>1, <2>2, LimitAssumption DEF SentAt
<1> DEFINE q == [reqs[r] EXCEPT !.step = "enqueue"]
<1>4. /\ q.step = "enqueue" /\ q.ev = reqs[r].ev /\ q.clock = reqs[r].clock /\ q.left = reqs[r].left
      /\ q.seq = reqs[r].seq /\ reqs' = [reqs EXCEPT ![r] = q]
  BY <1>0, <1>3, RecordsAre DEF CheckSent, Goto
<1> HIDE DEF q
<1>5. Due(q) = Due(reqs[r])
  BY <1>4 DEF Due
<1>6. Fits(q, ev', planned'.known, now', jobs')
  BY <1>0, <1>1, <1>4, <1>5 DEF Fits
<1> QED
  BY <1>1, <1>4, <1>6, OneRequest DEF PlanInv

LEMMA PlanEnd ==
  ASSUME TypeInv, PlanInv, NEW r \in Reqs, EndPlanning(r)
  PROVE  PlanInv'
<1>0. reqs[r] \in Request /\ Fits(reqs[r], ev, planned.known, now, jobs)
  BY DEF TypeInv, TypeOK, PlanInv
<1>1. reqs[r].step = "check" /\ reqs[r].left = <<>> /\ UNCHANGED <<now, ev, jobs>>
  BY DEF EndPlanning
<1>2. planned'.times = Due(reqs[r])
  BY DEF EndPlanning, Due
<1>3. InPlan(jobs, now, Due(reqs[r]))
  <2>1. InPlan(jobs, now, Due(reqs[r]) \ ToSet(reqs[r].left)) /\ ToSet(reqs[r].left) = {}
    BY <1>0, <1>1, NoTimes DEF Fits
  <2>2. Due(reqs[r]) \ ToSet(reqs[r].left) = Due(reqs[r])
    BY <2>1
  <2> QED
    BY <2>1, <2>2
<1> DEFINE q == [reqs[r] EXCEPT !.step = "idle"]
<1>4. q.step = "idle" /\ reqs' = [reqs EXCEPT ![r] = q]
  BY <1>0, RecordsAre DEF EndPlanning, Goto
<1> HIDE DEF q
<1>5. Fits(q, ev', planned'.known, now', jobs')
  BY <1>4 DEF Fits
<1> QED
  BY <1>1, <1>2, <1>3, <1>4, <1>5, OneRequest

LEMMA PlanEnqueue ==
  ASSUME TypeInv, PlanInv, NEW r \in Reqs, Enqueue(r)
  PROVE  PlanInv'
<1> DEFINE n == reqs[r].seq
<1> DEFINE l == reqs[r].left
<1> DEFINE h == Head(l)
<1> DEFINE T == Due(reqs[r])
<1>0. /\ reqs[r] \in Request /\ n \in Seqs /\ n \in Nat /\ l \in Lefts /\ l # <<>>
      /\ jobs \in [Seqs -> Job] /\ Fits(reqs[r], ev, planned.known, now, jobs)
      /\ reqs[r].ev \in Event /\ reqs[r].clock \in 0..Horizon
  BY RecordsAre DEF TypeInv, TypeOK, PlanInv, Enqueue
<1>1. reqs[r].step = "enqueue" /\ UNCHANGED <<now, ev, planned>>
  BY DEF Enqueue
<1>2. /\ ~ planned.known /\ reqs[r].ev = ev /\ reqs[r].clock = now
      /\ Increasing(l) /\ ToSet(l) \subseteq T /\ InPlan(jobs, now, T \ ToSet(l))
      /\ \A s \in Seqs : s >= n => jobs[s].status = "absent"
  BY <1>0, <1>1 DEF Fits
<1>3. h \in ToSet(l) /\ Increasing(Tail(l)) /\ ToSet(Tail(l)) = ToSet(l) \ {h}
  BY <1>0, <1>2, NextTime
<1>4. jobs' = [jobs EXCEPT ![n] = [status |-> "pending", at |-> h]]
  <2>1. jobs[n].status = "absent"
    BY <1>0, <1>2
  <2> QED
    BY <2>1 DEF Enqueue
<1>5. h \in (now + 1)..Horizon
  BY <1>0, <1>2, <1>3, PromisedAhead DEF Due
<1> DEFINE t == Tail(l)
<1> DEFINE m == n + 1
<1>6. reqs' = [reqs EXCEPT ![r].step = "check", ![r].seq = m, ![r].left = t]
  BY DEF Enqueue
<1> HIDE DEF t, m, h
<1>7. InPlan(jobs', now, T \ ToSet(t))
  <2>1. ASSUME NEW u \in (now + 1)..Horizon
        PROVE  PendingAt(jobs', u) = IF u = h THEN PendingAt(jobs, u) \cup {n} ELSE PendingAt(jobs, u)
    <3>1. \A s \in Seqs : jobs'[s] = IF s = n THEN [status |-> "pending", at |-> h] ELSE jobs[s]
      BY <1>0, <1>4
    <3>2. jobs[n].status # "pending"
      BY <1>0, <1>2
    <3> QED
      BY <1>0, <3>1, <3>2 DEF PendingAt
  <2>2. PendingAt(jobs, h) = {}
    BY <1>2, <1>3, <1>5 DEF InPlan
  <2>3. ASSUME NEW u \in (now + 1)..Horizon
        PROVE  IF u \in T \ ToSet(t) THEN \E s \in Seqs : PendingAt(jobs', u) = {s}
                                     ELSE PendingAt(jobs', u) = {}
    <3>1. CASE u = h
      <4>1. PendingAt(jobs', u) = {n}
        BY <2>1, <2>2, <3>1
      <4>2. u \in T \ ToSet(t)
        BY <1>2, <1>3, <3>1 DEF t
      <4> QED
        BY <1>0, <4>1, <4>2
    <3>2. CASE u # h
      <4>1. u \in T \ ToSet(t) <=> u \in T \ ToSet(l)
        BY <1>3, <3>2 DEF t
      <4>2. PendingAt(jobs', u) = PendingAt(jobs, u)
        BY <2>1, <3>2
      <4> QED
        BY <1>2, <4>1, <4>2 DEF InPlan
    <3> QED
      BY <3>1, <3>2
  <2> QED
    BY <2>3 DEF InPlan
<1> DEFINE q == [reqs[r] EXCEPT !.step = "check", !.seq = m, !.left = t]
<1>8. /\ q.step = "check" /\ q.ev = reqs[r].ev /\ q.clock = reqs[r].clock /\ q.left = t
      /\ q.seq = m /\ reqs' = [reqs EXCEPT ![r] = q]
  BY <1>0, <1>6, RecordsAre
<1> HIDE DEF q
<1>9. Due(q) = T
  BY <1>8 DEF Due
<1>10. Increasing(t) /\ ToSet(t) \subseteq T
  BY <1>2, <1>3 DEF t
<1>11. \A s \in Seqs : s >= m => jobs'[s].status = "absent"
  <2> TAKE s \in Seqs
  <2> HAVE s >= m
  <2>1. s \in Nat /\ s >= n /\ s # n
    BY <1>0 DEF m, Seqs
  <2>2. jobs'[s] = jobs[s]
    BY <1>0, <1>4, <2>1
  <2> QED
    BY <1>2, <2>1, <2>2
<1>12. Fits(q, ev', planned'.known, now', jobs')
  BY <1>1, <1>2, <1>7, <1>8, <1>9, <1>10, <1>11 DEF Fits
<1> QED
  BY <1>1, <1>2, <1>8, <1>12, OneRequest

LEMMA PlanInit == Init => PlanInv
<1> SUFFICES ASSUME Init PROVE PlanInv
  OBVIOUS
<1>1. PICK r \in Reqs :
        reqs = [q \in Reqs |-> IF q = r THEN [Idle(ev) EXCEPT !.step = "clock"] ELSE Idle(ev)]
  BY DEF Init
<1>2. /\ reqs[r].step = "clock" /\ reqs[r].ev = ev
      /\ \A q \in Reqs \ {r} : reqs[q].step = "idle"
  BY <1>1 DEF Idle
<1>3. planned.known = FALSE
  BY DEF Init, Unplanned
<1>4. \A q \in Reqs : Fits(reqs[q], ev, planned.known, now, jobs)
  BY <1>2, <1>3 DEF Fits
<1> QED
  BY <1>2, <1>3, <1>4 DEF PlanInv

LEMMA PlanNext ==
  ASSUME Calm
  PROVE  TypeInv /\ PlanInv /\ [Next]_vars => PlanInv'
<1> SUFFICES ASSUME TypeInv, PlanInv, [Next]_vars PROVE PlanInv'
  OBVIOUS
<1>1. CASE UNCHANGED vars
  BY <1>1 DEF vars, PlanInv
<1>2. ASSUME NEW r \in Reqs, Update(r) \/ Close(r) \/ Plan(r) \/ Abort(r) PROVE PlanInv'
  BY <1>2, PlanStart, PlanGoto, PlanCancel, PlanCheck, PlanEnqueue, PlanEnd DEF Plan
<1>3. ASSUME NEW s \in Seqs, Send(s) \/ PostFails(s) \/ Cut(s) PROVE PlanInv'
  BY <1>3, PlanWorker
<1>4. CASE Tick
  BY <1>4, PlanTick
<1> QED
  BY <1>1, <1>2, <1>3, <1>4 DEF Next

LEMMA PlanInvariance ==
  ASSUME Calm
  PROVE  Spec => [](TypeInv /\ PlanInv)
<1>1. Init => TypeInv /\ PlanInv
  BY TypeInit, PlanInit
<1>2. (TypeInv /\ PlanInv) /\ [Next]_vars => (TypeInv /\ PlanInv)'
  BY TypeNext, PlanNext
<1> QED
  BY <1>1, <1>2, PTL DEF Spec

\* usecase/reminder.go:12-59: of requests that come one after another and plan in no
\* time, whatever fails: a planned event has one pending reminder for each future
\* time its policy promises, and no other.
THEOREM PlanKept ==
  ASSUME Calm
  PROVE  Spec => []PlanInForce
<1>1. TypeInv /\ PlanInv => PlanInForce
  <2> SUFFICES ASSUME TypeInv, PlanInv, planned.known, ev.open, NEW t \in (now + 1)..Horizon
               PROVE  Cardinality({s \in Seqs : jobs[s].status = "pending" /\ jobs[s].at = t})
                        = IF t \in planned.times THEN 1 ELSE 0
    BY DEF PlanInForce
  <2>1. IF t \in planned.times THEN \E s \in Seqs : PendingAt(jobs, t) = {s}
                               ELSE PendingAt(jobs, t) = {}
    BY DEF PlanInv, InPlan
  <2>2. PendingAt(jobs, t) = {s \in Seqs : jobs[s].status = "pending" /\ jobs[s].at = t}
    BY DEF PendingAt
  <2> QED
    BY <2>1, <2>2, FS_EmptySet, FS_Singleton
<1> QED
  BY <1>1, PlanInvariance, PTL

-----------------------------------------------------------------------------
(* What has been posted.                                                   *)

\* Steps that post nothing, write no log and leave the workers alone, of which
\* no job comes to life.
LEMMA PostRequests ==
  ASSUME TypeInv, PostInv, UNCHANGED <<execs, log, posts>>, now' \in Nat, now' >= now,
         \A s \in Seqs : Live(s)' => Live(s) /\ jobs'[s].at = jobs[s].at
  PROVE  PostInv'
<1>1. now \in Nat
  BY LimitAssumption DEF TypeInv, TypeOK
<1>2. ASSUME NEW s \in Seqs PROVE Told(s)' /\ (execs'[s].phase = "post" => ~ SentSequence(s)')
  BY DEF PostInv, Told, SentSequence
<1>3. ASSUME NEW x \in DOMAIN posts PROVE posts[x] <= 1 /\ (posts[x] > 0 => x[2] <= now')
  <2>1. x[2] \in Nat
    BY LimitAssumption DEF TypeInv, TypeOK
  <2> QED
    BY <1>1, <2>1 DEF PostInv
<1>4. \A s, u \in Seqs : Live(s)' /\ Live(u)' /\ jobs'[s].at = jobs'[u].at => s = u
  BY DEF PostInv
<1> QED
  BY <1>2, <1>3, <1>4 DEF PostInv

LEMMA PostCancel ==
  ASSUME TypeInv, PostInv, NEW r \in Reqs, CancelPending(r)
  PROVE  PostInv'
<1>0. jobs \in [Seqs -> Job] /\ now \in Nat
  BY LimitAssumption DEF TypeInv, TypeOK
<1>1. jobs' = [s \in Seqs |-> IF jobs[s].status = "pending"
                             THEN [jobs[s] EXCEPT !.status = "canceled"]
                             ELSE jobs[s]]
  BY DEF CancelPending
<1>2. ASSUME NEW s \in Seqs PROVE Live(s)' => Live(s) /\ jobs'[s].at = jobs[s].at
  BY <1>0, <1>1 DEF Live, Job
<1>3. UNCHANGED <<execs, log, posts, now>>
  BY DEF CancelPending
<1> QED
  BY <1>0, <1>2, <1>3, PostRequests

\* A reminder that is enqueued is for a time that none was planned for before.
LEMMA PostEnqueue ==
  ASSUME TypeInv, PlanInv, PostInv, NEW r \in Reqs, Enqueue(r)
  PROVE  PostInv'
<1> DEFINE n == reqs[r].seq
<1> DEFINE h == Head(reqs[r].left)
<1>0. /\ reqs[r] \in Request /\ n \in Seqs /\ n \in Nat /\ reqs[r].left \in Lefts
      /\ reqs[r].left # <<>> /\ jobs \in [Seqs -> Job]
      /\ Fits(reqs[r], ev, planned.known, now, jobs)
      /\ reqs[r].ev \in Event /\ reqs[r].clock \in 0..Horizon
      /\ now \in Nat /\ Horizon \in Nat /\ \A s \in Seqs : JobOK(s)
  BY RecordsAre, LimitAssumption DEF TypeInv, TypeOK, PlanInv, Enqueue
<1>1. reqs[r].step = "enqueue" /\ UNCHANGED <<now, execs, log, posts>>
  BY DEF Enqueue
<1>2. /\ reqs[r].clock = now /\ ToSet(reqs[r].left) \subseteq Due(reqs[r])
      /\ InPlan(jobs, now, Due(reqs[r]) \ ToSet(reqs[r].left))
      /\ \A s \in Seqs : s >= n => jobs[s].status = "absent"
  BY <1>0, <1>1 DEF Fits
<1>3. h \in ToSet(reqs[r].left)
  BY <1>0, NextTime
<1>4. h \in (now + 1)..Horizon
  BY <1>0, <1>2, <1>3, PromisedAhead DEF Due
<1>5. jobs' = [jobs EXCEPT ![n] = [status |-> "pending", at |-> h]] /\ jobs[n].status = "absent"
  <2>1. jobs[n].status = "absent"
    BY <1>0, <1>2
  <2> QED
    BY <2>1 DEF Enqueue
<1>6. PendingAt(jobs, h) = {}
  BY <1>2, <1>3, <1>4 DEF InPlan
<1> HIDE DEF n, h
<1>7. ASSUME NEW s \in Seqs, Live(s) PROVE jobs[s].at # h
  <2>1. CASE jobs[s].status = "pending"
    BY <1>6, <2>1 DEF PendingAt
  <2>2. CASE jobs[s].status # "pending"
    <3>1. jobs[s].at <= now
      BY <1>0, <1>7, <2>2 DEF JobOK, Live
    <3> QED
      BY <1>0, <1>4, <3>1
  <2> QED
    BY <2>1, <2>2
<1>8. \A s \in Seqs : jobs'[s] = IF s = n THEN [status |-> "pending", at |-> h] ELSE jobs[s]
  BY <1>0, <1>5
<1>9. ASSUME NEW s \in Seqs, NEW u \in Seqs, Live(s)', Live(u)', jobs'[s].at = jobs'[u].at
      PROVE  s = u
  <2>1. CASE s = n \/ u = n
    BY <1>7, <1>8, <1>9, <2>1 DEF Live
  <2>2. CASE s # n /\ u # n
    BY <1>8, <1>9, <2>2 DEF Live, PostInv
  <2> QED
    BY <2>1, <2>2
<1>10. ASSUME NEW s \in Seqs PROVE Told(s)'
  <2>1. CASE s # n
    <3>1. jobs'[s] = jobs[s] /\ Told(s)
      BY <1>8, <2>1 DEF PostInv
    <3> QED
      BY <1>1, <3>1 DEF Told, Live, SentSequence
  <2>2. CASE s = n
    <3>1. jobs'[s].at = h
      BY <1>8, <2>2
    <3>2. ASSUME NEW c \in ToSet(Targets) PROVE ~ (posts[<<c, h>>] > 0)
      <4>1. h \in 1..Horizon
        BY <1>0, <1>4
      <4>2. <<c, h>> \in DOMAIN posts /\ <<c, h>>[2] = h
        BY <4>1 DEF TypeInv, TypeOK
      <4>3. ~ (h <= now)
        BY <1>0, <1>4
      <4> QED
        BY <4>2, <4>3 DEF PostInv
    <3> QED
      BY <1>1, <3>1, <3>2 DEF Told
  <2> QED
    BY <2>1, <2>2
<1>11. \A s \in Seqs : execs'[s].phase = "post" => ~ SentSequence(s)'
  BY <1>1 DEF PostInv, SentSequence
<1> QED
  BY <1>1, <1>9, <1>10, <1>11 DEF PostInv

\* A worker that goes on without posting or writing the log.
LEMMA PostOther ==
  ASSUME TypeInv, PostInv, Whole, NEW s \in Seqs,
         Claim(s) \/ ReadEvent(s) \/ Complete(s) \/ Cut(s)
  PROVE  PostInv'
<1>0. /\ jobs \in [Seqs -> Job] /\ execs \in [Seqs -> Exec] /\ JobOK(s)
      /\ UNCHANGED <<now, posts, log>>
  BY DEF TypeInv, TypeOK, Claim, ReadEvent, Complete, Cut
<1>1. execs[s].phase # "post"
  BY DEF Claim, Claimable, ReadEvent, Complete, Cut, Whole
<1>2. ASSUME NEW u \in Seqs PROVE (Live(u)' <=> Live(u)) /\ jobs'[u].at = jobs[u].at
  <2>1. jobs[u] \in Job
    BY <1>0
  <2>2. CASE Claim(s)
    BY <1>0, <2>1, <2>2 DEF Claim, Claimable, Live, Job
  <2>3. CASE ReadEvent(s)
    BY <2>3 DEF ReadEvent, Live
  <2>4. CASE Complete(s)
    BY <1>0, <2>1, <2>4 DEF Complete, Live, Job, JobOK
  <2>5. CASE Cut(s)
    <3>1. jobs[s].status = "running"
      BY <1>0, <2>5, LimitAssumption DEF Cut, JobOK
    <3> QED
      BY <1>0, <2>1, <2>5, <3>1 DEF Cut, Live, Job
  <2> QED
    BY <2>2, <2>3, <2>4, <2>5
<1>3. /\ \A u \in Seqs \ {s} : execs'[u] = execs[u]
      /\ execs'[s].phase = "post" => ~ SentSequence(s)
  BY <1>0 DEF Claim, ReadEvent, Complete, Cut, ExecTo, NoExec, Exec
<1>4. \A u \in Seqs : SentSequence(u)' <=> SentSequence(u)
  BY <1>0 DEF SentSequence
<1>5. ASSUME NEW u \in Seqs PROVE Told(u)' /\ (execs'[u].phase = "post" => ~ SentSequence(u)')
  <2>1. Told(u) /\ (execs[u].phase = "post" => ~ SentSequence(u))
    BY DEF PostInv
  <2>2. CASE u # s
    BY <1>0, <1>2, <1>3, <1>4, <2>1, <2>2 DEF Told
  <2>3. CASE u = s
    BY <1>0, <1>1, <1>2, <1>3, <1>4, <2>1, <2>3 DEF Told
  <2> QED
    BY <2>2, <2>3
<1>6. \A t, u \in Seqs : Live(t)' /\ Live(u)' /\ jobs'[t].at = jobs'[u].at => t = u
  BY <1>2 DEF PostInv
<1> QED
  BY <1>0, <1>5, <1>6 DEF PostInv

LEMMA PostAppend ==
  ASSUME TypeInv, PostInv, NEW s \in Seqs, AppendLog(s)
  PROVE  PostInv'
<1>0. execs \in [Seqs -> Exec] /\ UNCHANGED <<now, posts, jobs>>
  BY DEF TypeInv, TypeOK, AppendLog
<1>1. log' = log \cup {[seq |-> s, at |-> jobs[s].at]}
  BY DEF AppendLog
<1>2. SentSequence(s)' /\ \A u \in Seqs \ {s} : SentSequence(u)' <=> SentSequence(u)
  <2> DEFINE m == [seq |-> s, at |-> jobs[s].at]
  <2>1. m.seq = s /\ m \in log' /\ \A l : l \in log' <=> l \in log \/ l = m
    BY <1>1
  <2> HIDE DEF m
  <2>2. SentSequence(s)'
    BY <2>1 DEF SentSequence
  <2>3. ASSUME NEW u \in Seqs \ {s} PROVE SentSequence(u)' <=> SentSequence(u)
    BY <2>1, <2>3 DEF SentSequence
  <2> QED
    BY <2>2, <2>3
<1>3. execs'[s].phase = "end" /\ \A u \in Seqs \ {s} : execs'[u] = execs[u]
  BY <1>0 DEF AppendLog, ExecTo, Exec
<1>4. ASSUME NEW u \in Seqs PROVE Told(u)' /\ (execs'[u].phase = "post" => ~ SentSequence(u)')
  <2>1. Told(u) /\ (execs[u].phase = "post" => ~ SentSequence(u))
    BY DEF PostInv
  <2>2. CASE u # s
    BY <1>0, <1>2, <1>3, <2>1, <2>2 DEF Told, Live
  <2>3. CASE u = s
    BY <1>2, <1>3, <2>3 DEF Told
  <2> QED
    BY <2>2, <2>3
<1> QED
  BY <1>0, <1>4 DEF PostInv, Live

\* The next channel has not been posted to, and is no longer in front.
LEMMA PostPost ==
  ASSUME TypeInv, PostInv, Whole, NEW s \in Seqs, Post(s) \/ PostFails(s)
  PROVE  PostInv'
<1> DEFINE c == Head(execs[s].left)
<1> DEFINE t == Tail(execs[s].left)
<1> DEFINE x == <<c, jobs[s].at>>
<1>0. /\ execs \in [Seqs -> Exec] /\ JobOK(s) /\ UNCHANGED <<now, log, jobs>>
      /\ posts \in [ToSet(Targets) \X (1..Horizon) -> Nat]
      /\ execs[s].phase = "post" /\ execs[s].left \in Rests /\ execs[s].left # <<>>
  BY RecordsAre DEF TypeInv, TypeOK, Post, PostFails, Posted
<1>1. /\ c \in ToSet(Targets) /\ c \in ToSet(execs[s].left)
      /\ ToSet(t) \subseteq ToSet(execs[s].left) /\ c \notin ToSet(t)
  BY <1>0, NextChannel DEF Whole
<1>2. Live(s) /\ jobs[s].at \in 1..Horizon /\ jobs[s].at <= now /\ ~ SentSequence(s)
  BY <1>0 DEF JobOK, Live, PostInv
<1>3. x \in DOMAIN posts /\ posts[x] = 0
  <2>1. x \in ToSet(Targets) \X (1..Horizon)
    BY <1>1, <1>2
  <2>2. ~ (posts[x] > 0)
    <3>1. Told(s)
      BY DEF PostInv
    <3> QED
      BY <1>0, <1>1, <1>2, <3>1 DEF Told
  <2> QED
    BY <1>0, <2>1, <2>2
<1>4. execs' = [execs EXCEPT ![s].left = t]
  BY DEF Post, PostFails, Posted
<1>5. /\ posts' = [posts EXCEPT ![x] = @ + 1] \/ posts' = posts
      /\ DOMAIN posts' = DOMAIN posts
  BY <1>0 DEF Post, PostFails
<1> HIDE DEF c, t
<1>6. execs'[s].phase = "post" /\ execs'[s].left = t /\ \A u \in Seqs \ {s} : execs'[u] = execs[u]
  BY <1>0, <1>4, RecordsAre
<1>7. \A y \in DOMAIN posts : y # x => posts'[y] = posts[y]
  BY <1>5
<1>8. posts'[x] \in {0, 1}
  BY <1>0, <1>3, <1>5
<1>9. ASSUME NEW y \in DOMAIN posts' PROVE posts'[y] <= 1 /\ (posts'[y] > 0 => y[2] <= now')
  <2>1. CASE y = x
    BY <1>0, <1>2, <1>8, <2>1
  <2>2. CASE y # x
    BY <1>0, <1>5, <1>7, <2>2 DEF PostInv
  <2> QED
    BY <2>1, <2>2
<1>10. \A u \in Seqs : SentSequence(u)' <=> SentSequence(u)
  BY <1>0 DEF SentSequence
<1>11. ASSUME NEW u \in Seqs PROVE Told(u)'
  <2>1. Told(u)
    BY DEF PostInv
  <2> SUFFICES ASSUME Live(u), NEW d \in ToSet(Targets), posts'[<<d, jobs[u].at>>] > 0
               PROVE  SentSequence(u) \/ (execs'[u].phase = "post" /\ d \notin ToSet(execs'[u].left))
    BY <1>0, <1>10 DEF Told, Live
  <2> DEFINE y == <<d, jobs[u].at>>
  <2>2. y \in DOMAIN posts
    <3>1. jobs[u].at \in 1..Horizon
      BY DEF TypeInv, JobOK, Live
    <3> QED
      BY <1>0, <3>1
  <2>3. CASE u = s /\ d = c
    BY <1>1, <1>6, <2>3
  <2>4. CASE u = s /\ d # c
    <3>1. y # x
      BY <2>4
    <3>2. posts[y] > 0
      BY <1>7, <2>2, <3>1
    <3>3. d \notin ToSet(execs[s].left)
      BY <2>1, <2>4, <3>2, <1>2 DEF Told
    <3> QED
      BY <1>1, <1>6, <2>4, <3>3
  <2>5. CASE u # s
    <3>1. jobs[u].at # jobs[s].at
      BY <1>2, <2>5 DEF PostInv
    <3>2. y # x
      BY <3>1
    <3>3. posts[y] > 0
      BY <1>7, <2>2, <3>2
    <3> QED
      BY <1>6, <2>1, <2>5, <3>3 DEF Told
  <2> QED
    BY <2>3, <2>4, <2>5
<1>12. ASSUME NEW u \in Seqs, execs'[u].phase = "post" PROVE ~ SentSequence(u)'
  BY <1>0, <1>6, <1>10, <1>12 DEF PostInv
<1>13. \A p, u \in Seqs : Live(p)' /\ Live(u)' /\ jobs'[p].at = jobs'[u].at => p = u
  BY <1>0 DEF PostInv, Live
<1> QED
  BY <1>9, <1>11, <1>12, <1>13 DEF PostInv

LEMMA PostInit == Init => PostInv
<1> SUFFICES ASSUME Init PROVE PostInv
  OBVIOUS
<1>1. \A s \in Seqs : jobs[s].status = "absent" /\ execs[s].phase = "none"
  BY DEF Init, NoJob, NoExec
<1>2. \A x \in DOMAIN posts : posts[x] = 0
  BY DEF Init
<1> QED
  BY <1>1, <1>2 DEF PostInv, Live, Told

LEMMA PostNext ==
  ASSUME Calm, Whole
  PROVE  TypeInv /\ PlanInv /\ PostInv /\ [Next]_vars => PostInv'
<1> SUFFICES ASSUME TypeInv, PlanInv, PostInv, [Next]_vars PROVE PostInv'
  OBVIOUS
<1>0. now \in Nat
  BY LimitAssumption DEF TypeInv, TypeOK
<1>1. CASE UNCHANGED vars
  BY <1>1 DEF vars, PostInv, Live, Told, SentSequence
<1>2. ASSUME NEW r \in Reqs, Update(r) \/ Close(r) \/ Plan(r) \/ Abort(r) PROVE PostInv'
  <2>1. CASE CancelPending(r) \/ Enqueue(r)
    BY <2>1, PostCancel, PostEnqueue
  <2>2. CASE ~ (CancelPending(r) \/ Enqueue(r))
    <3>1. UNCHANGED <<now, jobs, execs, log, posts>>
      BY <1>2, <2>2 DEF Update, Close, Begin, Plan, SaveEvent, ReadClock, ReadSequence,
                        CheckSent, EndPlanning, Refused, Abort
    <3>2. \A s \in Seqs : Live(s)' => Live(s) /\ jobs'[s].at = jobs[s].at
      BY <3>1 DEF Live
    <3> QED
      BY <1>0, <3>1, <3>2, PostRequests
  <2> QED
    BY <2>1, <2>2
<1>3. ASSUME NEW s \in Seqs, Send(s) \/ PostFails(s) \/ Cut(s) PROVE PostInv'
  BY <1>3, PostOther, PostAppend, PostPost DEF Send
<1>4. CASE Tick
  <2>1. UNCHANGED <<jobs, execs, log, posts>> /\ now' \in Nat /\ now' >= now
    BY <1>0, <1>4 DEF Tick
  <2>2. \A s \in Seqs : Live(s)' => Live(s) /\ jobs'[s].at = jobs[s].at
    BY <2>1 DEF Live
  <2> QED
    BY <2>1, <2>2, PostRequests
<1> QED
  BY <1>1, <1>2, <1>3, <1>4 DEF Next

\* usecase/reminder.go:98-160: of such requests, and if no execution is cut off
\* between its first post and its log, no channel is told the same time twice,
\* however often jobs are repeated and times planned anew.
THEOREM ToldOnce ==
  ASSUME Calm, Whole
  PROVE  Spec => []PostedOnce
<1>1. Init => TypeInv /\ PlanInv /\ PostInv
  BY TypeInit, PlanInit, PostInit
<1>2. (TypeInv /\ PlanInv /\ PostInv) /\ [Next]_vars => (TypeInv /\ PlanInv /\ PostInv)'
  BY TypeNext, PlanNext, PostNext
<1>3. TypeInv /\ PlanInv /\ PostInv => PostedOnce
  BY DEF PostInv, PostedOnce
<1> QED
  BY <1>1, <1>2, <1>3, PTL DEF Spec

-----------------------------------------------------------------------------
(* The jobs are as JobContract has them.                                   *)

Held(s) == execs[s].phase # "none"

\* What Become, Dated and Pass say of job s and its execution, the others staying.
LEMMA BecomeLemma ==
  ASSUME NEW s \in Seqs, NEW st, NEW h \in BOOLEAN,
         jobs'[s].status = st, Held(s)' <=> h,
         \A u \in Seqs \ {s} : /\ jobs'[u].status = jobs[u].status
                               /\ Held(u)' <=> Held(u)
  PROVE  Contract!Become(s, st, h)
<1>1. [u \in Seqs |-> jobs'[u].status] = [[u \in Seqs |-> jobs[u].status] EXCEPT ![s] = st]
  OBVIOUS
<1>2. [u \in Seqs |-> execs'[u].phase # "none"]
        = [[u \in Seqs |-> execs[u].phase # "none"] EXCEPT ![s] = h]
  <2>1. \A u \in Seqs : (execs'[u].phase # "none") = (IF u = s THEN h ELSE execs[u].phase # "none")
    BY DEF Held
  <2> QED
    BY <2>1, Zenon
<1> QED
  BY <1>1, <1>2 DEF Contract!Become

LEMMA DatedLemma ==
  ASSUME NEW s \in Seqs, now' = now, \A u \in Seqs \ {s} : jobs'[u].at = jobs[u].at
  PROVE  Contract!Dated(s)
<1> DEFINE d == jobs'[s].at <= now'
<1>1. [u \in Seqs |-> jobs'[u].at <= now'] = [[u \in Seqs |-> jobs[u].at <= now] EXCEPT ![s] = d]
  OBVIOUS
<1>2. d \in BOOLEAN
  OBVIOUS
<1> HIDE DEF d
<1> QED
  BY <1>1, <1>2 DEF Contract!Dated

LEMMA DatesKept ==
  ASSUME now' = now, \A u \in Seqs : jobs'[u].at = jobs[u].at
  PROVE  UNCHANGED [u \in Seqs |-> jobs[u].at <= now]
OBVIOUS

LEMMA SameHeld ==
  ASSUME \A u \in Seqs : Held(u)' <=> Held(u)
  PROVE  UNCHANGED [u \in Seqs |-> execs[u].phase # "none"]
<1>1. \A u \in Seqs : (execs'[u].phase # "none") = (execs[u].phase # "none")
  BY DEF Held
<1> QED
  BY <1>1, Zenon

-----------------------------------------------------------------------------

\* The jobs stay as they are, and those that are executed too.
LEMMA KeptStep ==
  ASSUME now' = now, jobs' = jobs, \A u \in Seqs : Held(u)' <=> Held(u)
  PROVE  UNCHANGED Contract!vars
<1>1. UNCHANGED [u \in Seqs |-> jobs[u].at <= now]
  BY DatesKept
<1> QED
  BY <1>1, SameHeld DEF Contract!vars

LEMMA CancelStep ==
  ASSUME TypeInv, NEW r \in Reqs, CancelPending(r)
  PROVE  Contract!Cancel
<1>1. /\ now' = now /\ execs' = execs /\ jobs \in [Seqs -> Job]
      /\ \A u \in Seqs : jobs'[u] = IF jobs[u].status = "pending"
                                    THEN [jobs[u] EXCEPT !.status = "canceled"] ELSE jobs[u]
  BY DEF CancelPending, TypeInv, TypeOK
<1>2. \A u \in Seqs : /\ jobs'[u].at = jobs[u].at
                      /\ jobs'[u].status \in {"absent", "pending", "running", "done", "canceled"}
                      /\ \/ jobs'[u].status = jobs[u].status
                         \/ jobs[u].status = "pending" /\ jobs'[u].status = "canceled"
  BY <1>1 DEF Job
<1>3. [u \in Seqs |-> jobs'[u].status] \in [Seqs -> Contract!Statuses]
  BY <1>2 DEF Contract!Statuses
<1>4. UNCHANGED [u \in Seqs |-> jobs[u].at <= now]
  BY <1>1, <1>2, DatesKept
<1> QED
  BY <1>1, <1>2, <1>3, <1>4 DEF Contract!Cancel

LEMMA EnqueueStep ==
  ASSUME TypeInv, NEW r \in Reqs, Enqueue(r)
  PROVE  [Contract!Next]_(Contract!vars)
<1>1. PICK s \in Seqs : s = reqs[r].seq
  BY DEF Enqueue
<1>2. now' = now /\ execs' = execs /\ jobs \in [Seqs -> Job]
  BY DEF Enqueue, TypeInv, TypeOK
<1>3. \A u \in Seqs : Held(u)' <=> Held(u)
  BY <1>2 DEF Held
<1>4. CASE jobs[s].status # "absent"
  BY <1>1, <1>2, <1>3, <1>4, KeptStep DEF Enqueue
<1>5. CASE jobs[s].status = "absent"
  <2>1. jobs'[s].status = "pending" /\ \A u \in Seqs \ {s} : jobs'[u] = jobs[u]
    BY <1>1, <1>2, <1>5 DEF Enqueue
  <2>2. ~ Held(s)'
    BY <1>3, <1>5 DEF Held, TypeInv, JobOK
  <2>3. Contract!Become(s, "pending", FALSE)
    BY <1>3, <2>1, <2>2, BecomeLemma
  <2>4. Contract!Dated(s)
    BY <1>2, <2>1, DatedLemma
  <2>5. Contract!Enqueue(s)
    BY <1>5, <2>3, <2>4 DEF Contract!Enqueue
  <2> QED
    BY <2>5 DEF Contract!Next
<1> QED
  BY <1>4, <1>5

\* What a worker does with the job it executes.
LEMMA WorkerStep ==
  ASSUME TypeInv, NEW s \in Seqs, Claim(s) \/ Complete(s) \/ Cut(s)
  PROVE  Contract!Next
<1>1. /\ now' = now /\ jobs \in [Seqs -> Job] /\ execs \in [Seqs -> Exec]
      /\ Held(s) => jobs[s].status = "running"
  BY DEF Claim, Complete, Cut, TypeInv, TypeOK, JobOK, Held
<1>2. \A u \in Seqs \ {s} : jobs'[u] = jobs[u] /\ execs'[u] = execs[u]
  BY <1>1 DEF Claim, Complete, Cut
<1>3. \A u \in Seqs \ {s} : jobs'[u].status = jobs[u].status /\ (Held(u)' <=> Held(u))
  BY <1>2 DEF Held
<1>4. NoExec.phase = "none"
  BY DEF NoExec
<1>5. CASE Claim(s)
  <2>1. jobs'[s].status = "running" /\ jobs'[s].at = jobs[s].at
    BY <1>1, <1>5 DEF Claim, Job
  <2>2. ~ Held(s) /\ Held(s)'
    BY <1>1, <1>5 DEF Claim, Claimable, Held
  <2>3. Contract!Become(s, "running", TRUE)
    BY <1>3, <2>1, <2>2, BecomeLemma
  <2>4. UNCHANGED [u \in Seqs |-> jobs[u].at <= now]
    BY <1>1, <1>2, <2>1, DatesKept
  <2>5. Contract!Takeable(s)
    BY <1>5, <2>2 DEF Claim, Claimable, Contract!Takeable, Held
  <2>6. Contract!TakeUp(s)
    BY <2>3, <2>4, <2>5 DEF Contract!TakeUp
  <2> QED
    BY <2>6 DEF Contract!Next
<1>6. CASE Complete(s)
  <2>1. jobs'[s].status = "done" /\ jobs'[s].at = jobs[s].at
    BY <1>1, <1>6 DEF Complete, Job
  <2>2. Held(s) /\ ~ Held(s)'
    BY <1>1, <1>4, <1>6 DEF Complete, Held
  <2>3. Contract!Become(s, "done", FALSE)
    BY <1>3, <2>1, <2>2, BecomeLemma
  <2>4. UNCHANGED [u \in Seqs |-> jobs[u].at <= now]
    BY <1>1, <1>2, <2>1, DatesKept
  <2>5. Contract!AtWork(s)
    BY <1>1, <2>2 DEF Contract!AtWork, Held
  <2>6. Contract!Settle(s)
    BY <2>3, <2>4, <2>5 DEF Contract!Settle
  <2> QED
    BY <2>6 DEF Contract!Next
<1>7. CASE Cut(s)
  <2>1. Held(s) /\ ~ Held(s)'
    BY <1>1, <1>4, <1>7, LimitAssumption DEF Cut, Held
  <2>2. CASE jobs' = jobs
    <3>1. [u \in Seqs |-> execs'[u].phase # "none"] \in [Seqs -> BOOLEAN]
      OBVIOUS
    <3>2. \A u \in Seqs : Held(u)' => Held(u)
      BY <1>3, <2>1
    <3>3. UNCHANGED [u \in Seqs |-> jobs[u].at <= now]
      BY <1>1, <2>2, DatesKept
    <3>4. Contract!Abandon
      BY <2>2, <3>1, <3>2, <3>3 DEF Contract!Abandon, Held
    <3> QED
      BY <3>4 DEF Contract!Next
  <2>3. CASE jobs' = [jobs EXCEPT ![s].status = "pending"]
    <3>1. jobs'[s].status = "pending"
      BY <1>1, <2>3 DEF Job
    <3>2. Contract!Become(s, "pending", FALSE)
      BY <1>3, <2>1, <3>1, BecomeLemma
    <3>3. Contract!Dated(s)
      BY <1>1, <1>2, DatedLemma
    <3>4. Contract!PutBack(s)
      BY <1>1, <2>1, <3>2, <3>3 DEF Contract!PutBack, Contract!AtWork, Held
    <3> QED
      BY <3>4 DEF Contract!Next
  <2> QED
    BY <1>7, <2>2, <2>3 DEF Cut
<1> QED
  BY <1>5, <1>6, <1>7

\* What a worker does of which the queue sees nothing.
LEMMA PhaseStep ==
  ASSUME TypeInv, NEW s \in Seqs, ReadEvent(s) \/ Post(s) \/ PostFails(s) \/ AppendLog(s)
  PROVE  UNCHANGED Contract!vars
<1>1. now' = now /\ jobs' = jobs /\ execs \in [Seqs -> Exec] /\ Held(s)
  BY DEF ReadEvent, Post, PostFails, Posted, AppendLog, TypeInv, TypeOK, Held
<1>2. \A u \in Seqs \ {s} : execs'[u] = execs[u]
  BY <1>1 DEF ReadEvent, Post, PostFails, Posted, AppendLog, ExecTo
<1>3. Held(s)'
  <2>1. CASE ReadEvent(s) \/ AppendLog(s)
    BY <1>1, <2>1 DEF ReadEvent, AppendLog, ExecTo, Held, Exec
  <2>2. CASE Post(s) \/ PostFails(s)
    BY <1>1, <2>2 DEF Post, PostFails, Posted, Held, Exec
  <2> QED
    BY <2>1, <2>2
<1>4. \A u \in Seqs : Held(u)' <=> Held(u)
  BY <1>1, <1>2, <1>3 DEF Held
<1> QED
  BY <1>1, <1>4, KeptStep

LEMMA TickStep ==
  ASSUME TypeInv, Tick
  PROVE  Contract!Pass
<1>1. UNCHANGED <<jobs, execs>> /\ now \in Nat /\ now' = now + 1 /\ jobs \in [Seqs -> Job]
  BY LimitAssumption DEF Tick, TypeInv, TypeOK
<1>2. \A u \in Seqs : jobs[u].at \in Nat
  BY <1>1, LimitAssumption DEF Job
<1>3. \A u \in Seqs : jobs[u].at <= now => jobs'[u].at <= now'
  BY <1>1, <1>2
<1>4. [u \in Seqs |-> jobs'[u].at <= now'] \in [Seqs -> BOOLEAN]
  OBVIOUS
<1> QED
  BY <1>1, <1>3, <1>4 DEF Contract!Pass

LEMMA NextContract ==
  TypeInv /\ [Next]_vars => [Contract!Next]_(Contract!vars)
<1> SUFFICES ASSUME TypeInv, [Next]_vars PROVE [Contract!Next]_(Contract!vars)
  OBVIOUS
<1>1. ASSUME UNCHANGED <<now, jobs, execs>> PROVE UNCHANGED Contract!vars
  BY <1>1, KeptStep DEF Held
<1>2. CASE UNCHANGED vars
  BY <1>1, <1>2 DEF vars
<1>3. ASSUME NEW r \in Reqs, Update(r) \/ Close(r) \/ Plan(r) \/ Abort(r)
      PROVE  [Contract!Next]_(Contract!vars)
  <2>1. CASE CancelPending(r) \/ Enqueue(r)
    BY <2>1, CancelStep, EnqueueStep DEF Contract!Next
  <2>2. CASE ~ (CancelPending(r) \/ Enqueue(r))
    <3>1. UNCHANGED <<now, jobs, execs>>
      BY <1>3, <2>2 DEF Update, Close, Begin, Plan, SaveEvent, ReadClock, ReadSequence,
                        CheckSent, EndPlanning, Refused, Abort
    <3> QED
      BY <1>1, <3>1
  <2> QED
    BY <2>1, <2>2
<1>4. ASSUME NEW s \in Seqs, Send(s) \/ PostFails(s) \/ Cut(s)
      PROVE  [Contract!Next]_(Contract!vars)
  BY <1>4, WorkerStep, PhaseStep DEF Send
<1>5. CASE Tick
  BY <1>5, TickStep DEF Contract!Next
<1> QED
  BY <1>2, <1>3, <1>4, <1>5 DEF Next

LEMMA InitContract == Init => Contract!Init
<1> SUFFICES ASSUME Init PROVE Contract!Init
  OBVIOUS
<1>1. \A u \in Seqs : jobs[u].status = "absent" /\ execs[u].phase = "none"
  BY DEF Init, NoJob, NoExec
<1>2. [u \in Seqs |-> jobs[u].status] = [u \in Seqs |-> "absent"]
  BY <1>1
<1>3. [u \in Seqs |-> jobs[u].at <= now] \in [Seqs -> BOOLEAN]
  OBVIOUS
<1>4. [u \in Seqs |-> execs[u].phase # "none"] = [u \in Seqs |-> FALSE]
  <2>1. \A u \in Seqs : (execs[u].phase # "none") = FALSE
    BY <1>1
  <2> QED
    BY <2>1, Zenon
<1> QED
  BY <1>2, <1>3, <1>4 DEF Contract!Init

\* reminder.go:23-70, jobs.go:81, 195: however plannings, executions and closings
\* meet, the reminder jobs keep to JobContract.
THEOREM ReminderJobsContract == Spec => ReminderJobsAsAgreed
<1>1. Init => Contract!Init /\ TypeInv
  BY TypeInit, InitContract
<1>2. TypeInv /\ [Next]_vars => TypeInv'
  BY TypeNext
<1>3. TypeInv /\ [Next]_vars => [Contract!Next]_(Contract!vars)
  BY NextContract
<1> QED
  BY <1>1, <1>2, <1>3, PTL DEF Spec, ReminderJobsAsAgreed, Contract!Spec

=============================================================================
