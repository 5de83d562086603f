------------------------- MODULE MCEventLifecycle -------------------------
(* One event, and two or three goroutines at work on it.                   *)
EXTENDS EventLifecycle, TLC

CONSTANTS r1, r2, r3

\* Goroutines are interchangeable.
Symmetry == Permutations({r1, r2, r3} \cap Reqs)

=============================================================================
