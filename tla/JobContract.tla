----------------------------- MODULE JobContract -----------------------------
(***************************************************************************)
(* What the job queue and those who use it agree upon: what may become of  *)
(* the document of a job, and who is at work on it, as seen by a caller    *)
(* who knows nothing of slots, processes, leases and heartbeats.           *)
(*                                                                         *)
(* JobQueue implements this, and so do the jobs that Participation,        *)
(* EventLifecycle and Reminders keep in its place.                         *)
(***************************************************************************)
CONSTANT Jobs

VARIABLES
  status,   \* the status in the document of each job
  due,      \* whether its runAt has come
  held      \* whether a handler is at work on it

vars == <<status, due, held>>

Statuses == {"absent", "pending", "running", "done", "failed", "canceled"}

Init ==
  /\ status = [j \in Jobs |-> "absent"]
  /\ due \in [Jobs -> BOOLEAN]
  /\ held = [j \in Jobs |-> FALSE]

Become(j, s, h) ==
  /\ status' = [status EXCEPT ![j] = s]
  /\ held' = [held EXCEPT ![j] = h]

\* The runAt of job j is written.
Dated(j) == \E d \in BOOLEAN : due' = [due EXCEPT ![j] = d]

Enqueue(j) == status[j] = "absent" /\ Become(j, "pending", FALSE) /\ Dated(j)

\* Nobody is at a job that is taken up: its time has come, or whoever had it
\* has given it up.
Takeable(j) ==
  /\ ~ held[j]
  /\ \/ status[j] = "pending" /\ due[j]
     \/ status[j] = "running"

TakeUp(j) == Takeable(j) /\ Become(j, "running", TRUE) /\ UNCHANGED due

\* A claim of which the answer is lost, or of a job with no attempts left.
ClaimInVain(j) == Takeable(j) /\ Become(j, "running", FALSE) /\ UNCHANGED due

AtWork(j) == held[j] /\ status[j] = "running"

Settle(j) ==
  /\ AtWork(j)
  /\ \E s \in {"done", "failed"} : Become(j, s, FALSE)
  /\ UNCHANGED due

\* To be repeated, or put off by the handler.
PutBack(j) == AtWork(j) /\ Become(j, "pending", FALSE) /\ Dated(j)

\* With no attempts left.
GiveUp(j) ==
  /\ ~ held[j] /\ status[j] = "running"
  /\ Become(j, "failed", FALSE)
  /\ UNCHANGED due

\* Handlers are cut off, or their results are not written.
Abandon ==
  /\ held' \in [Jobs -> BOOLEAN] /\ \A j \in Jobs : held'[j] => held[j]
  /\ UNCHANGED <<status, due>>

\* Pending jobs are canceled, and no others.
Cancel ==
  /\ status' \in [Jobs -> Statuses]
  /\ \A j \in Jobs : \/ status'[j] = status[j]
                     \/ status[j] = "pending" /\ status'[j] = "canceled"
  /\ UNCHANGED <<due, held>>

\* Time passes: nothing that is due ceases to be.
Pass ==
  /\ due' \in [Jobs -> BOOLEAN] /\ \A j \in Jobs : due[j] => due'[j]
  /\ UNCHANGED <<status, held>>

Next ==
  \/ \E j \in Jobs :
       \/ Enqueue(j) \/ TakeUp(j) \/ ClaimInVain(j) \/ Settle(j) \/ PutBack(j)
       \/ GiveUp(j)
  \/ Abandon \/ Cancel \/ Pass

Spec == Init /\ [][Next]_vars

=============================================================================
