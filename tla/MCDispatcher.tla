----------------------------- MODULE MCDispatcher -----------------------------
(* Two goroutines and two users; a day has two times, morning and evening. *)
(* The second year has a day that the first has not.                       *)
EXTENDS Dispatcher, TLC

CONSTANTS r1, r2

Symmetry == Permutations({r1, r2})

\* Two rooms, of which one may be the recruit channel.
TwoRooms == {-1, -2}
OneRoom == {-1}

TwoYears == <<<<1, 1>>, <<1, 2>>, <<1, 4>>, <<2, 1>>, <<2, 2>>, <<2, 3>>, <<2, 4>>>>

\* The names of an event of the fourth day, and the same with a number.
TwoTaken ==
  <<[date |-> 4, title |-> "trip", suffix |-> 0], [date |-> 4, title |-> "trip", suffix |-> 2]>>

OneNew == {[title |-> "trip", when |-> Date(Omitted, 4, Omitted), ends |-> Unknown]}

\* Another title, or the morning of the day with an end in the evening.
TwoEdits == {[title |-> "hike", when |-> Unknown, ends |-> Unknown],
             [title |-> "", when |-> Date(1, 4, 0), ends |-> Clock(1)]}

\* The next morning, for an event in the evening.
OneEnd == {Clock(0)}

=============================================================================
