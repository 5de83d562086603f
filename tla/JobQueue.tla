------------------------------ MODULE JobQueue ------------------------------
(***************************************************************************)
(* The persistent job queue of the Manager: the "jobs" collection          *)
(* (internal/manager/store/mongo/jobs.go) and the workers that poll it     *)
(* (internal/manager/scheduler/worker.go).                                 *)
(*                                                                         *)
(* Each process has a number of slots; a slot that holds a job is a        *)
(* goroutine in Worker.run.  Every access to the collection is one atomic  *)
(* step, and the steps of different goroutines and processes interleave.   *)
(*                                                                         *)
(* Time is relative: runAt and lease say how far in the future the stored  *)
(* time lies, and Tick brings all of them nearer by one unit.  An overdue  *)
(* runAt is remembered down to -Late, so that the order of the claims is   *)
(* that of the code among jobs at most Late units overdue and arbitrary    *)
(* among older ones.                                                       *)
(***************************************************************************)
EXTENDS Integers, FiniteSets

CONSTANTS
  Jobs,           \* the dedupe keys: one job document for each (unique index)
  Events, Kinds,  \* what CancelByEvent selects by
  EventOf,        \* EventOf[j], KindOf[j]: the eventId and kind of job j
  KindOf,
  Procs,          \* Manager processes
  Slots,          \* the slots of each process (Config.Workers of them)
  MaxAttempts,    \* domain.DefaultMaxAttempts
  Lease,          \* Config.Lease, in units of time
  Backoff,        \* Backoff[a]: the wait after failed attempt a (JobBackoff)
  Delays,         \* how far in the future a job is enqueued or rescheduled
  Late,           \* bound: how far an overdue runAt is remembered
  Faults,         \* which disturbances may happen, a subset of AllFaults
  MaxFaults,      \* bound: how many disturbances happen in a behaviour
  MaxMoves        \* bound: how many times handlers reschedule in a behaviour

AllFaults == {"crash", "stop", "heartbeat", "write", "claim"}

\* Mutant of HeartbeatInterval: leaseHeartbeatDivisor is 1.
HeartbeatAtLeaseEnd == Lease

\* keepLease extends the lease every Lease / leaseHeartbeatDivisor.
HeartbeatInterval == Lease \div 2

ASSUME IndexAssumption ==
  /\ EventOf \in [Jobs -> Events]
  /\ KindOf \in [Jobs -> Kinds]

ASSUME SizeAssumption ==
  /\ Jobs # {}
  /\ IsFiniteSet(Procs) /\ IsFiniteSet(Slots)

ASSUME TimeAssumption ==
  /\ Lease \in Nat /\ Lease >= 2
  /\ Delays \subseteq Nat
  /\ Late \in Nat

ASSUME BoundAssumption ==
  /\ MaxAttempts \in Nat \ {0}
  /\ Backoff \in [1..MaxAttempts -> Nat]
  /\ Faults \subseteq AllFaults
  /\ MaxFaults \in Nat
  /\ MaxMoves \in Nat

VARIABLES
  jobs,     \* the jobs collection
  runs,     \* what the goroutine in each slot is doing
  procs,    \* the state of each process
  spent,    \* history: handler executions charged to each job
  faults,   \* how many disturbances have happened
  moves     \* how many reschedules have happened

vars == <<jobs, runs, procs, spent, faults, moves>>

-----------------------------------------------------------------------------

Statuses == {"absent", "pending", "running", "done", "failed", "canceled"}
Terminal == {"done", "failed", "canceled"}
Phases   == {"idle", "handling", "rescheduled", "writing"}
Results  == {"none", "ok", "permanent", "error", "exhausted"}

\* A job document.  lease is 0 where leaseUntil is nil.
Doc == [status : Statuses, runAt : Int, attempts : Nat, lease : Nat]

Runners == Procs \X Slots

Absent == [status |-> "absent", runAt |-> 0, attempts |-> 0, lease |-> 0]

\* attempt is the Attempts of the claimed copy of the job, beat the time to
\* the next heartbeat, runAt the time a failed attempt is to be retried at.
\* Any job will do for the idle slot; it is never read.
Idle == [phase |-> "idle", job |-> CHOOSE j \in Jobs : TRUE, attempt |-> 0,
         beat |-> 0, heart |-> "off", result |-> "none", runAt |-> 0]

Run == [phase : Phases, job : Jobs, attempt : Nat, beat : Nat,
        heart : {"on", "off"}, result : Results, runAt : Int]

\* A disturbance of the given kind happens.
Disturb(kind) ==
  /\ kind \in Faults
  /\ faults < MaxFaults
  /\ faults' = faults + 1

Init ==
  /\ jobs   = [j \in Jobs |-> Absent]
  /\ runs   = [r \in Runners |-> Idle]
  /\ procs  = [p \in Procs |-> "up"]
  /\ spent  = [j \in Jobs |-> 0]
  /\ faults = 0
  /\ moves  = 0

-----------------------------------------------------------------------------
(* The queries of the jobs collection, each one atomic.                    *)

\* Enqueue inserts a pending job.  With the same key already present the
\* insert fails with ErrAlreadyExists and changes nothing: no step.
Enqueue(j, d) ==
  /\ jobs[j].status = "absent"
  /\ jobs' = [jobs EXCEPT ![j] = [status |-> "pending", runAt |-> d,
                                  attempts |-> 0, lease |-> 0]]
  /\ UNCHANGED <<runs, procs, spent, faults, moves>>

\* Mutant of Cancelled: jobs in progress are canceled too.
CancelledInProgress(e, K) ==
  {j \in Jobs : EventOf[j] = e /\ KindOf[j] \in K
                 /\ jobs[j].status \in {"pending", "running"}}

\* CancelByEvent cancels the pending jobs of event e whose kind is in K.
Cancelled(e, K) ==
  {j \in Jobs : EventOf[j] = e /\ KindOf[j] \in K /\ jobs[j].status = "pending"}

CancelByEvent(e, K) ==
  /\ Cancelled(e, K) # {}
  /\ jobs' = [j \in Jobs |-> IF j \in Cancelled(e, K)
                             THEN [jobs[j] EXCEPT !.status = "canceled"]
                             ELSE jobs[j]]
  /\ UNCHANGED <<runs, procs, spent, faults, moves>>

\* Mutant of Claimable: jobs left behind by a dead process are not taken up.
ClaimableWhenPending(j) == jobs[j].status = "pending" /\ jobs[j].runAt <= 0

\* Mutant of Claimable: nobody asks whether the time of a job has come.
ClaimableEarly(j) ==
  \/ jobs[j].status = "pending"
  \/ jobs[j].status = "running" /\ jobs[j].lease <= 0

\* The filter of Claim: due, or running on a lease that has run out.
Claimable(j) ==
  \/ jobs[j].status = "pending" /\ jobs[j].runAt <= 0
  \/ jobs[j].status = "running" /\ jobs[j].lease <= 0

\* FindOneAndUpdate sorts by runAt.
Earliest(j) ==
  /\ Claimable(j)
  /\ \A i \in Jobs : Claimable(i) => jobs[j].runAt <= jobs[i].runAt

Claimed(doc) == [doc EXCEPT !.status = "running", !.lease = Lease,
                            !.attempts = @ + 1]

Completed(doc) == [doc EXCEPT !.status = "done", !.lease = 0]

Failed(doc) == [doc EXCEPT !.status = "failed", !.lease = 0]

Retried(doc, at) == [doc EXCEPT !.status = "pending", !.runAt = at, !.lease = 0]

Rescheduled(doc, at) == [doc EXCEPT !.status = "pending", !.runAt = at,
                                    !.lease = 0, !.attempts = @ - 1]

-----------------------------------------------------------------------------
(* Worker.poll and Worker.run.                                             *)

\* Mutant of Exhausted: off by one.
ExhaustedLate(attempt) == attempt > MaxAttempts + 1

\* The check at the start of run.
Exhausted(attempt) == attempt > MaxAttempts

\* run starts with the claimed copy of the job: the handler, with a heartbeat
\* beside it, or straight to fail when the attempts are used up.
Started(j, attempt) ==
  [phase   |-> IF Exhausted(attempt) THEN "writing" ELSE "handling",
   job     |-> j,
   attempt |-> attempt,
   beat    |-> HeartbeatInterval,
   heart   |-> "on",
   result  |-> IF Exhausted(attempt) THEN "exhausted" ELSE "none",
   runAt   |-> 0]

\* poll takes a free slot, claims a job and starts its goroutine.
Claim(r) ==
  /\ procs[r[1]] = "up"
  /\ runs[r].phase = "idle"
  /\ \E j \in Jobs :
       /\ Earliest(j)
       /\ jobs' = [jobs EXCEPT ![j] = Claimed(@)]
       /\ runs' = [runs EXCEPT ![r] = Started(j, jobs[j].attempts + 1)]
       /\ spent' = IF Exhausted(jobs[j].attempts + 1) THEN spent
                   ELSE [spent EXCEPT ![j] = @ + 1]
  /\ UNCHANGED <<procs, faults, moves>>

\* The update of Claim is applied but its answer is lost (the context is
\* cancelled while the call is in flight): the slot is given back.
LoseClaim(r) ==
  /\ procs[r[1]] = "up"
  /\ runs[r].phase = "idle"
  /\ \E j \in Jobs : Earliest(j) /\ jobs' = [jobs EXCEPT ![j] = Claimed(@)]
  /\ Disturb("claim")
  /\ UNCHANGED <<runs, procs, spent, moves>>

\* The heartbeat: ExtendLease applies to a running job only, whoever runs it,
\* and the heartbeat gives up when the job is not running.
Beat(r) ==
  LET j == runs[r].job IN
  /\ runs[r].phase \in {"handling", "rescheduled"}
  /\ runs[r].heart = "on" /\ runs[r].beat = 0
  /\ IF jobs[j].status = "running"
     THEN /\ jobs' = [jobs EXCEPT ![j].lease = Lease]
          /\ runs' = [runs EXCEPT ![r].beat = HeartbeatInterval]
     ELSE /\ runs' = [runs EXCEPT ![r].heart = "off", ![r].beat = 0]
          /\ UNCHANGED jobs
  /\ UNCHANGED <<procs, spent, faults, moves>>

\* ExtendLease fails and the heartbeat gives up while the handler goes on, or
\* the goroutine is held up beyond the time its heartbeat allows for.
LoseHeartbeat(r) ==
  /\ runs[r].phase # "idle" /\ runs[r].heart = "on"
  /\ runs' = [runs EXCEPT ![r].heart = "off", ![r].beat = 0]
  /\ Disturb("heartbeat")
  /\ UNCHANGED <<jobs, procs, spent, moves>>

\* The handler returns; the time of a retry counts from here.
Finish(r) ==
  /\ runs[r].phase = "handling"
  /\ \E res \in {"ok", "permanent", "error"} :
       runs' = [runs EXCEPT ![r].phase = "writing", ![r].result = res,
                            ![r].runAt = Backoff[runs[r].attempt]]
  /\ UNCHANGED <<jobs, procs, spent, faults, moves>>

\* The handler finds that its time has moved and puts the job back itself.
Reschedule(r) ==
  LET j == runs[r].job IN
  /\ runs[r].phase = "handling"
  /\ moves < MaxMoves
  /\ \E d \in Delays : jobs' = [jobs EXCEPT ![j] = Rescheduled(@, d)]
  /\ runs' = [runs EXCEPT ![r].phase = "rescheduled"]
  /\ spent' = [spent EXCEPT ![j] = @ - 1]
  /\ moves' = moves + 1
  /\ UNCHANGED <<procs, faults>>

\* ErrRescheduled: run writes nothing back.
Return(r) ==
  /\ runs[r].phase = "rescheduled"
  /\ runs' = [runs EXCEPT ![r] = Idle]
  /\ UNCHANGED <<jobs, procs, spent, faults, moves>>

\* complete, fail and retry select the job by its id alone.
Outcome(doc, run) ==
  CASE run.result = "ok"    -> Completed(doc)
    [] run.result = "error" -> Retried(doc, run.runAt)
    [] run.result \in {"permanent", "exhausted"} -> Failed(doc)

\* The context of the handler outlives a stop, but "max attempts exceeded" is
\* written with the context of Run, which a stop cancels.
CanWrite(r) == runs[r].result = "exhausted" => procs[r[1]] = "up"

WriteResult(r) ==
  /\ runs[r].phase = "writing"
  /\ CanWrite(r)
  /\ jobs' = [jobs EXCEPT ![runs[r].job] = Outcome(@, runs[r])]
  /\ runs' = [runs EXCEPT ![r] = Idle]
  /\ UNCHANGED <<procs, spent, faults, moves>>

\* A failed write is only logged.
LoseWrite(r) ==
  /\ runs[r].phase = "writing"
  /\ runs' = [runs EXCEPT ![r] = Idle]
  /\ IF CanWrite(r) THEN Disturb("write") ELSE UNCHANGED faults
  /\ UNCHANGED <<jobs, procs, spent, moves>>

-----------------------------------------------------------------------------
(* The life of a process.                                                  *)

\* SIGTERM: no further claims, the jobs in progress go on.
Stop(p) ==
  /\ procs[p] = "up"
  /\ procs' = [procs EXCEPT ![p] = "draining"]
  /\ Disturb("stop")
  /\ UNCHANGED <<jobs, runs, spent, moves>>

\* Worker.Run returns once its goroutines have ended.
Exit(p) ==
  /\ procs[p] = "draining"
  /\ \A s \in Slots : runs[<<p, s>>].phase = "idle"
  /\ procs' = [procs EXCEPT ![p] = "down"]
  /\ UNCHANGED <<jobs, runs, spent, faults, moves>>

\* A crash, or a stop that exceeds shutdownTimeout.
Crash(p) ==
  /\ procs[p] # "down"
  /\ procs' = [procs EXCEPT ![p] = "down"]
  /\ runs' = [r \in Runners |-> IF r[1] = p THEN Idle ELSE runs[r]]
  /\ Disturb("crash")
  /\ UNCHANGED <<jobs, spent, moves>>

Restart(p) ==
  /\ procs[p] = "down"
  /\ procs' = [procs EXCEPT ![p] = "up"]
  /\ UNCHANGED <<jobs, runs, spent, faults, moves>>

\* One unit nearer; a time remembered no further back than the bound lo.
Nearer(t, lo) == IF t > lo THEN t - 1 ELSE t

\* A goroutine whose heartbeat is on time has been heard of by the time its
\* next heartbeat is due, and has written its result by then.
OnTime(r) ==
  runs[r].phase # "idle" /\ runs[r].heart = "on" => runs[r].beat > 0

Tick ==
  /\ \A r \in Runners : OnTime(r)
  /\ jobs' = [j \in Jobs |->
                [jobs[j] EXCEPT !.runAt = Nearer(@, -Late), !.lease = Nearer(@, 0)]]
  /\ runs' = [r \in Runners |->
                [runs[r] EXCEPT !.beat = Nearer(@, 0), !.runAt = Nearer(@, -Late)]]
  /\ UNCHANGED <<procs, spent, faults, moves>>

-----------------------------------------------------------------------------

Next ==
  \/ \E j \in Jobs, d \in Delays : Enqueue(j, d)
  \/ \E e \in Events, K \in SUBSET Kinds : CancelByEvent(e, K)
  \/ \E r \in Runners : Claim(r)
  \/ \E r \in Runners : LoseClaim(r)
  \/ \E r \in Runners : Beat(r)
  \/ \E r \in Runners : LoseHeartbeat(r)
  \/ \E r \in Runners : Finish(r)
  \/ \E r \in Runners : Reschedule(r)
  \/ \E r \in Runners : Return(r)
  \/ \E r \in Runners : WriteResult(r)
  \/ \E r \in Runners : LoseWrite(r)
  \/ \E p \in Procs : Stop(p)
  \/ \E p \in Procs : Exit(p)
  \/ \E p \in Procs : Crash(p)
  \/ \E p \in Procs : Restart(p)
  \/ Tick

Spec == Init /\ [][Next]_vars

\* Time passes, every process polls and is started again, handlers return,
\* heartbeats fire and results are written (or lost).
Fairness ==
  /\ WF_vars(Tick)
  /\ WF_vars(\E r \in Runners : Claim(r))
  /\ \A r \in Runners :
       /\ WF_vars(Beat(r))
       /\ WF_vars(Finish(r))
       /\ WF_vars(Return(r))
       /\ WF_vars(WriteResult(r) \/ LoseWrite(r))
  /\ \A p \in Procs : WF_vars(Exit(p)) /\ WF_vars(Restart(p))

FairSpec == Spec /\ Fairness

-----------------------------------------------------------------------------
(* Properties.                                                             *)

TypeOK ==
  /\ jobs \in [Jobs -> Doc]
  /\ runs \in [Runners -> Run]
  /\ procs \in [Procs -> {"up", "draining", "down"}]
  /\ spent \in [Jobs -> Nat]
  /\ faults \in Nat
  /\ moves \in Nat

\* A goroutine that still means to act on job j.
Works(r, j) == runs[r].phase \in {"handling", "writing"} /\ runs[r].job = j

\* worker.go:179: however often leases are lost, stale results overwrite newer
\* ones and processes crash, the handler of a job is executed at most
\* MaxAttempts times, executions that only rescheduled the job not counted.
RetryBudget == \A j \in Jobs : spent[j] <= MaxAttempts

\* docs/11 section 2 and worker.go:214: the lease keeps a job from being
\* executed by two goroutines at a time.
ExclusiveExecution ==
  \A j \in Jobs : \A q, r \in Runners : Works(q, j) /\ Works(r, j) => q = r

\* jobs.go:104-142, 184: done, failed and canceled are final, although the
\* writes of a worker do not look at the status they overwrite.
TerminalIsFinal ==
  [][\A j \in Jobs : jobs[j].status \in Terminal
                       => jobs'[j].status = jobs[j].status]_vars

\* What the abstract specification sees of a job: it is executing while a
\* goroutine is at its handler or about to write the result of it.
Executing(j) ==
  \E r \in Runners : Works(r, j) /\ runs[r].result # "exhausted"

Stage(j) ==
  CASE Executing(j) -> "executing"
    [] jobs[j].status \in Terminal /\ ~ Executing(j) -> "ended"
    [] jobs[j].status = "absent" /\ ~ Executing(j) -> "absent"
    [] OTHER -> "waiting"

Lifecycle ==
  INSTANCE JobLifecycle WITH stage <- [j \in Jobs |-> Stage(j)], charged <- spent

\* The queue as a whole, leases, retries, crashes and all, implements the life
\* of a job that JobLifecycle states.
ImplementsLifecycle == Lifecycle!Spec

Contract ==
  INSTANCE JobContract WITH
    status <- [j \in Jobs |-> jobs[j].status],
    due    <- [j \in Jobs |-> jobs[j].runAt <= 0],
    held   <- [j \in Jobs |-> Executing(j)]

\* handler.go:51-113, worker.go:195-210: what the use cases take for granted of a
\* job, the queue keeps: nobody starts on it before its time or beside another,
\* only whoever is at it settles it or puts it back, and a job that is being
\* executed, or left behind, cannot be canceled.
ImplementsContract == Contract!Spec

\* docs/11 section 1: no job is forgotten.  Once enqueued it ends as done,
\* failed or canceled, through crashes, stops and lost writes.
EveryJobEnds ==
  \A j \in Jobs : jobs[j].status = "pending" ~> jobs[j].status \in Terminal

=============================================================================
