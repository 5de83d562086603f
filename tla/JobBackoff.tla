----------------------------- MODULE JobBackoff -----------------------------
(***************************************************************************)
(* The retry delay of internal/manager/domain/job.go, in units of 30       *)
(* seconds: the base is 1 unit, the limit of 30 minutes 60 units.          *)
(***************************************************************************)
EXTENDS Integers

BaseBackoff   == 1
MaxBackoff    == 60
BackoffFactor == 2

\* The loop of Backoff: the delay before and after one more doubling.
Doubled(d) == IF d * BackoffFactor >= MaxBackoff THEN MaxBackoff
              ELSE d * BackoffFactor

\* The loop body runs max(attempts - 1, 0) times.
BackoffOf[attempts \in Nat] ==
  IF attempts <= 1 THEN BaseBackoff ELSE Doubled(BackoffOf[attempts - 1])

=============================================================================
