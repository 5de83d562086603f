---------------------------- MODULE MCReminders ----------------------------
(* An event with two or three policies; a day has three hours.             *)
EXTENDS Reminders

CONSTANTS r1, r2

\* An hour and two hours before the start.
TwoBefore == [mode |-> "offsets", offsets |-> <<1, 2>>, every |-> 1, at |-> 0,
              final |-> 0]

\* Every two hours from the second hour of a day on, and an hour before.
Every2 == [mode |-> "interval", offsets |-> <<>>, every |-> 2, at |-> 1, final |-> 1]

NoReminders == [TwoBefore EXCEPT !.mode = "none"]

\* Every hour, more often than the limit allows.
EveryHour == [Every2 EXCEPT !.every = 1, !.final = 0]

FewPolicies == {TwoBefore, Every2, EveryHour}
AllPolicies == FewPolicies \cup {NoReminders}

Channels == <<"event", "recruit">>
OneChannel == <<"event">>

=============================================================================
