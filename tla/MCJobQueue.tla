----------------------------- MODULE MCJobQueue -----------------------------
(* Two jobs of one event, of different kinds, and two processes.           *)
EXTENDS JobQueue, JobBackoff, TLC

CONSTANTS j1, j2, p1, p2

MCEventOf == [j \in Jobs |-> "ev"]
MCKindOf  == [j \in Jobs |-> IF j = j1 THEN "reminder" ELSE "peek_expire"]

MCBackoff == [a \in 1..MaxAttempts |-> BackoffOf[a]]

\* The processes are interchangeable.
Symmetry == Permutations({p1, p2})

=============================================================================
