-------------------------------- MODULE Dates --------------------------------
(***************************************************************************)
(* How the bot reads dates and times (internal/manager/bot/datetime.go).   *)
(*                                                                         *)
(* The calendar is a sequence of days, each with a year and a date, and a  *)
(* day has DayLen clock times, so a moment is a natural number.  The       *)
(* patterns that take a text apart are left out: an input is what they     *)
(* find in it.  The zone of the workspace is fixed, without summer time.   *)
(***************************************************************************)
EXTENDS Integers, Sequences

CONSTANTS
  Calendar,   \* the days in their order, as <<year, date>>
  DayLen      \* clock times in a day

ASSUME DatesAssumption ==
  /\ Calendar \in Seq(Nat \X Nat)
  /\ \A c, d \in 1..Len(Calendar) :
       c < d => Calendar[c][1] <= Calendar[d][1] /\ Calendar[c] # Calendar[d]
  /\ DayLen \in Nat \ {0}

Days == 1..Len(Calendar)
Moments == DayLen .. (Len(Calendar) + 1) * DayLen - 1

\* No moment: the answer to a text that makes no sense, an end that is not set.
Never == -1

\* Left out in the input.
Omitted == -1

\* What the patterns find: "tomorrow 19:00", "2026-09-20 19:00" or "9/20", "+3h",
\* "22:00", or nothing they know.
Input == [kind : {"relative", "date", "delta", "clock", "unknown"}, n : Int,
          year : Int, date : Nat, clock : Int]

Relative(days, clock) ==
  [kind |-> "relative", n |-> days, year |-> Omitted, date |-> 0, clock |-> clock]
Date(year, date, clock) ==
  [kind |-> "date", n |-> 0, year |-> year, date |-> date, clock |-> clock]
Delta(n) ==
  [kind |-> "delta", n |-> n, year |-> Omitted, date |-> 0, clock |-> Omitted]
Clock(c) ==
  [kind |-> "clock", n |-> 0, year |-> Omitted, date |-> 0, clock |-> c]
Unknown ==
  [kind |-> "unknown", n |-> 0, year |-> Omitted, date |-> 0, clock |-> Omitted]

\* Everything that may be typed of the days and times of the calendar.
Inputs ==
  LET clocks == 0..DayLen - 1
      years == {Calendar[d][1] : d \in Days}
      dates == {Calendar[d][2] : d \in Days}
  IN  {Relative(n, c) : n \in 0..2, c \in clocks \cup {Omitted}}
      \cup {Date(y, d, c) : y \in years \cup {Omitted}, d \in dates, c \in clocks \cup {Omitted}}
      \cup {Delta(n) : n \in 0..DayLen + 1} \cup {Clock(c) : c \in clocks} \cup {Unknown}

DayOf(t) == t \div DayLen
ClockOf(t) == t % DayLen
YearOf(t) == Calendar[DayOf(t)][1]
DateOf(t) == Calendar[DayOf(t)][2]

\* A clock time on a day.
On(clock, day) == day * DayLen + clock

TimeOrDefault(clock, default) == IF clock = Omitted THEN default ELSE clock

\* A date that the year does not have is refused rather than carried over.
DateAt(year, date, clock) ==
  IF \E d \in Days : Calendar[d] = <<year, date>>
  THEN On(clock, CHOOSE d \in Days : Calendar[d] = <<year, date>>)
  ELSE Never

\* A date without a year is one to come: of the year of base, or of the next.
ParseAbsolute(in, base, default) ==
  LET clock == TimeOrDefault(in.clock, default)
      year == IF in.year # Omitted THEN in.year ELSE YearOf(base)
      at == DateAt(year, in.date, clock)
  IN  IF in.year = Omitted /\ at # Never /\ at < base
      THEN DateAt(year + 1, in.date, clock)
      ELSE at

ParseStartTime(in, now, default) ==
  CASE in.kind = "relative" -> On(TimeOrDefault(in.clock, default), DayOf(now) + in.n)
    [] in.kind = "date" -> ParseAbsolute(in, now, default)
    [] OTHER -> Never

\* Mutant of ParseEndTime: the time of the start is taken for its own end.
ParseEndTimeAtStart(in, starts) ==
  CASE in.kind = "delta" /\ in.n > 0 -> starts + in.n
    [] in.kind = "clock" -> LET end == On(in.clock, DayOf(starts)) IN
                            IF end >= starts THEN end ELSE end + DayLen
    [] in.kind = "date" -> ParseAbsolute(in, starts, 0)
    [] OTHER -> Never

\* A clock time is one of the day of the start, or of the next day.
ParseEndTime(in, starts) ==
  CASE in.kind = "delta" /\ in.n > 0 -> starts + in.n
    [] in.kind = "clock" -> LET end == On(in.clock, DayOf(starts)) IN
                            IF end > starts THEN end ELSE end + DayLen
    [] in.kind = "date" -> ParseAbsolute(in, starts, 0)
    [] OTHER -> Never

-----------------------------------------------------------------------------
(* The same in the words of docs/07-bot-ux.md, section 1.2.                *)

\* t is a time of the date, and one to come from base on unless the year is given.
Fits(in, t, base, default) ==
  /\ DateOf(t) = in.date /\ ClockOf(t) = TimeOrDefault(in.clock, default)
  /\ IF in.year = Omitted THEN t >= base /\ YearOf(t) <= YearOf(base) + 1
     ELSE YearOf(t) = in.year

Earliest(t, S) == t \in S /\ \A u \in S : t <= u

\* A date is the next of its kind, unless the year of base does not have it.
DateMeant(t, in, base, default) ==
  LET fitting == {u \in Moments : Fits(in, u, base, default)} IN
  \/ Earliest(t, fitting)
  \/ /\ t = Never
     /\ \/ fitting = {}
        \/ in.year = Omitted /\ <<YearOf(base), in.date>> \notin {Calendar[d] : d \in Days}

StartMeant(t, in, now, default) ==
  CASE in.kind = "relative" ->
         DayOf(t) = DayOf(now) + in.n /\ ClockOf(t) = TimeOrDefault(in.clock, default)
    [] in.kind = "date" -> DateMeant(t, in, now, default)
    [] OTHER -> t = Never

\* A clock time is the next one after the start.
EndMeant(t, in, starts) ==
  CASE in.kind = "delta" -> IF in.n > 0 THEN t = starts + in.n ELSE t = Never
    [] in.kind = "clock" ->
         Earliest(t, {u \in starts + 1 .. starts + DayLen : ClockOf(u) = in.clock})
    [] in.kind = "date" -> DateMeant(t, in, starts, 0)
    [] OTHER -> t = Never

=============================================================================
