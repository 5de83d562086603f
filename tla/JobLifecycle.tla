---------------------------- MODULE JobLifecycle ----------------------------
(***************************************************************************)
(* What the job queue promises, with no leases, slots, processes or        *)
(* clocks: a job waits, is executed by one goroutine at a time, and ends   *)
(* for good; it is executed at most MaxAttempts times.  JobQueue           *)
(* implements this as long as heartbeats are on time.                      *)
(***************************************************************************)
EXTENDS Naturals

CONSTANTS Jobs, MaxAttempts

VARIABLES
  stage,    \* where each job is in its life
  charged   \* the executions charged to each job

vars == <<stage, charged>>

Stages == {"absent", "waiting", "executing", "ended"}

Init ==
  /\ stage = [j \in Jobs |-> "absent"]
  /\ charged = [j \in Jobs |-> 0]

\* The jobs of S, all in stage from, move to stage to.
Move(S, from, to) ==
  /\ S # {}
  /\ \A j \in S : stage[j] = from
  /\ stage' = [j \in Jobs |-> IF j \in S THEN to ELSE stage[j]]

Submit(j) == Move({j}, "absent", "waiting") /\ UNCHANGED charged

Execute(j) ==
  /\ Move({j}, "waiting", "executing")
  /\ charged[j] < MaxAttempts
  /\ charged' = [charged EXCEPT ![j] = @ + 1]

\* The execution settles the job.
Settle(j) == Move({j}, "executing", "ended") /\ UNCHANGED charged

\* Executions fail or are abandoned, and the jobs wait again.
Release(S) == Move(S, "executing", "waiting") /\ UNCHANGED charged

\* An execution that came too early costs nothing.
Postpone(j) ==
  /\ Move({j}, "executing", "waiting")
  /\ charged' = [charged EXCEPT ![j] = @ - 1]

\* Waiting jobs are canceled, or have no attempts left.
GiveUp(S) == Move(S, "waiting", "ended") /\ UNCHANGED charged

Next ==
  \/ \E j \in Jobs : Submit(j) \/ Execute(j) \/ Settle(j) \/ Postpone(j)
  \/ \E S \in SUBSET Jobs : Release(S) \/ GiveUp(S)

Spec == Init /\ [][Next]_vars

=============================================================================
