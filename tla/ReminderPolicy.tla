--------------------------- MODULE ReminderPolicy ---------------------------
(***************************************************************************)
(* When an event is to be announced again: the reminder policy of an event *)
(* (internal/manager/domain/reminder.go).                                  *)
(*                                                                         *)
(* Times count from a midnight of the workspace's time zone.  Every day    *)
(* lasts Day units, so a step of whole days and a step of that many hours  *)
(* are the same: the zone has no summer time.                              *)
(***************************************************************************)
EXTENDS Integers, FiniteSets, Sequences, SequencesExt

CONSTANTS
  MaxReminders,   \* the most reminders a policy may generate
  MinInterval,    \* the shortest interval
  Day             \* the length of a day

ASSUME PolicyAssumption ==
  /\ MaxReminders \in Nat
  /\ MinInterval \in Nat \ {0}
  /\ Day \in Nat \ {0}

\* offsets belongs to mode "offsets"; every, at and final to "interval".
Policy == [mode : {"offsets", "interval", "none"}, offsets : Seq(Int),
           every : Int, at : 0..(Day - 1), final : Int]

ValidOffsets(p) ==
  /\ p.offsets # <<>>
  /\ Len(p.offsets) <= MaxReminders
  /\ \A i \in DOMAIN p.offsets : p.offsets[i] > 0
  /\ IsInjective(p.offsets)

ValidInterval(p) == p.every >= MinInterval /\ p.final >= 0

\* Validate looks at the policy alone, not at how many reminders it makes.
Valid(p) ==
  /\ p.mode = "offsets" => ValidOffsets(p)
  /\ p.mode = "interval" => ValidInterval(p)

OffsetTimes(p, now, starts) ==
  {t \in {starts - o : o \in ToSet(p.offsets)} : t > now}

\* The time of day at, on the day of now.
On(at, now) == (now \div Day) * Day + at

FirstInterval(p, now) ==
  IF On(p.at, now) < now THEN On(p.at, now) + Day ELSE On(p.at, now)

\* What the first k rounds of the loop of intervalTimes have collected.
Collected(p, now, k) ==
  {t \in {FirstInterval(p, now) + i * p.every : i \in 0..(k - 1)} : t > now}

\* The loop is over at the last reminder, or when it has gone beyond the limit.
LoopOver(p, now, final, k) ==
  \/ FirstInterval(p, now) + k * p.every >= final
  \/ Cardinality(Collected(p, now, k)) > MaxReminders

\* The times of the loop and the last time.  No loop has more rounds than there
\* are units of time before the start.
IntervalTimes(p, now, starts) ==
  LET final == starts - p.final
      rounds == Min({k \in 0..starts : LoopOver(p, now, final, k)})
  IN  Collected(p, now, rounds) \cup (IF final > now THEN {final} ELSE {})

Times(p, now, starts) ==
  CASE p.mode = "none"     -> {}
    [] p.mode = "offsets"  -> OffsetTimes(p, now, starts)
    [] p.mode = "interval" -> IntervalTimes(p, now, starts)

\* Schedule returns an error when the policy generates too many reminders.
Schedulable(p, now, starts) ==
  Valid(p) /\ Cardinality(Times(p, now, starts)) <= MaxReminders

\* Each time once, as many times before it as are earlier.
InOrder(T) == [k \in 1..Cardinality(T) |->
                 CHOOSE t \in T : Cardinality({u \in T : u < t}) = k - 1]

Schedule(p, now, starts) == InOrder(Times(p, now, starts))

-----------------------------------------------------------------------------

\* What a policy promises, as a set: the times an offset before the start; or
\* the chosen time of day and every multiple of the interval after it that is
\* before the last reminder, and the last reminder; the future ones of these.
Promised(p, now, starts) ==
  LET final == starts - p.final
      first == CHOOSE t \in now..(now + Day - 1) : t % Day = p.at
  IN  {t \in (now + 1)..starts :
        \/ p.mode = "offsets" /\ \E i \in DOMAIN p.offsets : t + p.offsets[i] = starts
        \/ p.mode = "interval" /\ t = final
        \/ p.mode = "interval" /\ t < final /\ t >= first /\ (t - first) % p.every = 0}

=============================================================================
