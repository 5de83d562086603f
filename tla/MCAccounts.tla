----------------------------- MODULE MCAccounts -----------------------------
(* Two chat users, two console users and two tokens, all named 1 and 2.    *)
EXTENDS Accounts, TLC

CONSTANTS r1, r2

\* The end of a behaviour, which is the bounds' and no deadlock.
Ended == called = MaxCalls /\ now = Horizon /\ UNCHANGED vars

MCSpec == AccountsInit /\ [][AccountsNext \/ Ended]_vars

Symmetry == Permutations(Reqs)

\* No step looks at the answer to an earlier one but in the request.
State == <<db, given, now, accountVars>>

=============================================================================
