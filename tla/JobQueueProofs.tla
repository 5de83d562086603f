--------------------------- MODULE JobQueueProofs ---------------------------
(***************************************************************************)
(* Theorems about the job queue, for every set of jobs, every number of    *)
(* processes and slots, every lease and every number of disturbances; and  *)
(* that it implements JobLifecycle, and keeps to JobContract, if no        *)
(* heartbeat is lost.                                                      *)
(***************************************************************************)
EXTENDS JobQueue, FiniteSetTheorems, TLAPS

-----------------------------------------------------------------------------
(* The inductive invariant behind TypeOK and RetryBudget.                  *)

\* The goroutines in which the handler of job j is running.
Handling(j) == {r \in Runners : runs[r].phase = "handling" /\ runs[r].job = j}

\* What a goroutine holds fits its phase.
RunOK(r) ==
  /\ runs[r].phase = "handling" => runs[r].attempt \in 1..MaxAttempts
  /\ runs[r].phase = "writing" => runs[r].result # "none"

\* Every execution in progress has been charged to its job, and every charge
\* has cost the job one of its attempts: rescheduling gives back both.
Charged(j) ==
  /\ Cardinality(Handling(j)) <= spent[j]
  /\ spent[j] <= jobs[j].attempts
  /\ spent[j] <= MaxAttempts
  /\ jobs[j].status = "absent" => jobs[j].attempts = 0

BudgetInv ==
  /\ TypeOK
  /\ \A r \in Runners : RunOK(r)
  /\ \A j \in Jobs : Charged(j)

\* The heartbeat interval is shorter than the lease (worker.go:24, 217).
LEMMA IntervalLemma ==
  HeartbeatInterval \in Nat /\ HeartbeatInterval < Lease /\ Lease \in Nat
BY TimeAssumption DEF HeartbeatInterval

\* An idle slot is well formed.
LEMMA IdleLemma == Idle \in Run /\ Idle.phase = "idle"
<1>1. (CHOOSE j \in Jobs : TRUE) \in Jobs
  BY SizeAssumption
<1> QED
  BY <1>1 DEF Idle, Run, Phases, Results

\* The queries of the collection turn documents into documents.
LEMMA DocLemma ==
  ASSUME NEW doc \in Doc, NEW at \in Int
  PROVE  /\ Claimed(doc) \in Doc
         /\ Completed(doc) \in Doc
         /\ Failed(doc) \in Doc
         /\ Retried(doc, at) \in Doc
         /\ doc.attempts > 0 => Rescheduled(doc, at) \in Doc
         /\ [doc EXCEPT !.status = "canceled"] \in Doc
         /\ [doc EXCEPT !.lease = Lease] \in Doc
         /\ [doc EXCEPT !.runAt = Nearer(@, -Late), !.lease = Nearer(@, 0)] \in Doc
<1>1. Claimed(doc) \in Doc
  <2>1. doc.attempts \in Nat /\ doc.attempts + 1 \in Nat
    BY DEF Doc
  <2> QED
    BY <2>1, IntervalLemma DEF Doc, Statuses, Claimed
<1>2. Completed(doc) \in Doc
  BY DEF Doc, Statuses, Completed
<1>3. Failed(doc) \in Doc
  BY DEF Doc, Statuses, Failed
<1>4. Retried(doc, at) \in Doc
  BY DEF Doc, Statuses, Retried
<1>5. doc.attempts > 0 => Rescheduled(doc, at) \in Doc
  <2> SUFFICES ASSUME doc.attempts > 0 PROVE Rescheduled(doc, at) \in Doc
    OBVIOUS
  <2>1. doc.attempts \in Nat /\ doc.attempts - 1 \in Nat
    BY DEF Doc
  <2> QED
    BY <2>1 DEF Doc, Statuses, Rescheduled
<1>6. [doc EXCEPT !.status = "canceled"] \in Doc
  BY DEF Doc, Statuses
<1>7. [doc EXCEPT !.lease = Lease] \in Doc
  BY IntervalLemma DEF Doc
<1>8. [doc EXCEPT !.runAt = Nearer(@, -Late), !.lease = Nearer(@, 0)] \in Doc
  <2>1. Nearer(doc.runAt, -Late) \in Int /\ Nearer(doc.lease, 0) \in Nat
    BY TimeAssumption DEF Doc, Nearer
  <2> QED
    BY <2>1 DEF Doc
<1> QED
  BY <1>1, <1>2, <1>3, <1>4, <1>5, <1>6, <1>7, <1>8

\* Only a goroutine at work on a job has an outcome to write.
LEMMA OutcomeLemma ==
  ASSUME NEW doc \in Doc, NEW run \in Run, run.result # "none"
  PROVE  /\ Outcome(doc, run) \in Doc
         /\ Outcome(doc, run).attempts = doc.attempts
<1>1. run.runAt \in Int
  BY DEF Run
<1>2. CASE run.result = "ok"
  BY <1>1, <1>2, DocLemma DEF Outcome, Completed, Doc
<1>3. CASE run.result = "error"
  BY <1>1, <1>3, DocLemma DEF Outcome, Retried, Doc
<1>4. CASE run.result \in {"permanent", "exhausted"}
  BY <1>1, <1>4, DocLemma DEF Outcome, Failed, Doc
<1> QED
  BY <1>2, <1>3, <1>4 DEF Run, Results

LEMMA HandlingFinite == \A j \in Jobs : IsFiniteSet(Handling(j))
<1>1. IsFiniteSet(Runners)
  BY SizeAssumption, FS_Product DEF Runners
<1> QED
  BY <1>1, FS_Subset DEF Handling

\* How the goroutines that run the handler of job j change when the goroutine
\* of slot r changes.
LEMMA HandlingLemma ==
  ASSUME TypeOK, NEW r \in Runners, NEW new, NEW j \in Jobs,
         runs' = [runs EXCEPT ![r] = new]
  PROVE  /\ Cardinality(Handling(j)) \in Nat
         /\ Cardinality(Handling(j)') \in Nat
         /\ Cardinality(Handling(j)') <= Cardinality(Handling(j)) + 1
         /\ ~ (new.phase = "handling" /\ new.job = j)
              => Cardinality(Handling(j)') <= Cardinality(Handling(j))
         /\ new.phase # "handling" /\ runs[r].phase = "handling" /\ runs[r].job = j
              => /\ Cardinality(Handling(j)') = Cardinality(Handling(j)) - 1
                 /\ Cardinality(Handling(j)) > 0
<1>1. IsFiniteSet(Handling(j)) /\ Cardinality(Handling(j)) \in Nat
  BY HandlingFinite, FS_CardinalityType
<1>2. CASE new.phase = "handling" /\ new.job = j
  <2>1. Handling(j)' = Handling(j) \cup {r}
    BY <1>2 DEF Handling, TypeOK
  <2>2. Cardinality(Handling(j)') = IF r \in Handling(j)
                                    THEN Cardinality(Handling(j))
                                    ELSE Cardinality(Handling(j)) + 1
    BY <1>1, <2>1, FS_AddElement
  <2> QED
    BY <1>1, <1>2, <2>2
<1>3. CASE ~ (new.phase = "handling" /\ new.job = j)
  <2>1. Handling(j)' = Handling(j) \ {r}
    BY <1>3 DEF Handling, TypeOK
  <2>2. Cardinality(Handling(j)') = IF r \in Handling(j)
                                    THEN Cardinality(Handling(j)) - 1
                                    ELSE Cardinality(Handling(j))
    BY <1>1, <2>1, FS_RemoveElement
  <2>3. r \in Handling(j) => Cardinality(Handling(j)) > 0
    BY <1>1, FS_EmptySet
  <2>4. runs[r].phase = "handling" /\ runs[r].job = j => r \in Handling(j)
    BY DEF Handling
  <2> QED
    BY <1>1, <1>3, <2>2, <2>3, <2>4
<1> QED
  BY <1>2, <1>3

LEMMA ClaimBudget ==
  ASSUME BudgetInv, NEW r \in Runners, Claim(r)
  PROVE  BudgetInv'
<1>1. PICK j \in Jobs :
        /\ jobs' = [jobs EXCEPT ![j] = Claimed(@)]
        /\ runs' = [runs EXCEPT ![r] = Started(j, jobs[j].attempts + 1)]
        /\ spent' = IF Exhausted(jobs[j].attempts + 1) THEN spent
                    ELSE [spent EXCEPT ![j] = @ + 1]
  BY DEF Claim
<1> DEFINE a == jobs[j].attempts + 1
<1>2. jobs[j] \in Doc /\ a \in Nat /\ a >= 1 /\ jobs[j].attempts \in Nat
  BY DEF BudgetInv, TypeOK, Doc
<1>3. /\ Claimed(jobs[j]) \in Doc /\ Claimed(jobs[j]).attempts = a
      /\ Claimed(jobs[j]).status = "running"
  BY <1>2, DocLemma DEF Claimed, Doc
<1>4. /\ Started(j, a) \in Run
      /\ Started(j, a).job = j /\ Started(j, a).attempt = a
      /\ Started(j, a).phase = IF Exhausted(a) THEN "writing" ELSE "handling"
      /\ Started(j, a).result = IF Exhausted(a) THEN "exhausted" ELSE "none"
  BY <1>2, IntervalLemma DEF Started, Run, Phases, Results
<1>5. TypeOK'
  BY <1>1, <1>2, <1>3, <1>4 DEF BudgetInv, TypeOK, Claim
<1>6. ASSUME NEW q \in Runners PROVE RunOK(q)'
  BY <1>1, <1>2, <1>4, BoundAssumption DEF BudgetInv, TypeOK, RunOK, Exhausted
<1>7. ASSUME NEW i \in Jobs PROVE Charged(i)'
  <2>1. /\ Cardinality(Handling(i)) \in Nat
        /\ Cardinality(Handling(i)') \in Nat
        /\ Cardinality(Handling(i)') <= Cardinality(Handling(i)) + 1
        /\ i # j \/ Exhausted(a) => Cardinality(Handling(i)') <= Cardinality(Handling(i))
    BY <1>1, <1>4, HandlingLemma DEF BudgetInv
  <2>2. Charged(i) /\ spent[i] \in Nat /\ jobs[i].attempts \in Nat
    BY DEF BudgetInv, TypeOK, Doc
  <2>3. CASE i # j
    BY <1>1, <2>1, <2>2, <2>3 DEF Charged, BudgetInv, TypeOK, Claimed
  <2>4. CASE i = j /\ Exhausted(a)
    BY <1>1, <1>2, <1>3, <2>1, <2>2, <2>4 DEF Charged, BudgetInv, TypeOK
  <2>5. CASE i = j /\ ~ Exhausted(a)
    <3>1. /\ spent'[j] = spent[j] + 1
          /\ jobs'[j].attempts = a /\ jobs'[j].status = "running"
      BY <1>1, <1>3, <2>5 DEF BudgetInv, TypeOK
    <3>2. a <= MaxAttempts
      BY <1>2, <2>5, BoundAssumption DEF Exhausted
    <3> QED
      BY <2>1, <2>2, <2>5, <3>1, <3>2, BoundAssumption DEF Charged
  <2> QED
    BY <2>3, <2>4, <2>5
<1> QED
  BY <1>5, <1>6, <1>7 DEF BudgetInv

LEMMA RescheduleBudget ==
  ASSUME BudgetInv, NEW r \in Runners, Reschedule(r)
  PROVE  BudgetInv'
<1> DEFINE new == [runs[r] EXCEPT !.phase = "rescheduled"]
<1>0. PICK j \in Jobs : j = runs[r].job
  BY DEF BudgetInv, TypeOK, Run
<1>1. PICK d \in Delays : /\ jobs' = [jobs EXCEPT ![j] = Rescheduled(jobs[j], d)]
                          /\ spent' = [spent EXCEPT ![j] = spent[j] - 1]
                          /\ d \in Int
  <2>1. PICK d \in Delays :
          /\ jobs' = [jobs EXCEPT ![runs[r].job] = Rescheduled(jobs[runs[r].job], d)]
          /\ spent' = [spent EXCEPT ![runs[r].job] = spent[runs[r].job] - 1]
    BY DEF Reschedule
  <2>2. d \in Int
    BY TimeAssumption
  <2> QED
    BY <1>0, <2>1, <2>2
<1>2. /\ runs[r] \in Run /\ j = runs[r].job /\ runs[r].phase = "handling"
      /\ jobs[j] \in Doc /\ jobs[j].attempts \in Nat /\ spent[j] \in Nat
  BY <1>0 DEF BudgetInv, TypeOK, Run, Doc, Reschedule
<1>3. new \in Run /\ new.phase = "rescheduled"
  BY <1>2 DEF Run, Phases
<1>4. runs' = [runs EXCEPT ![r] = new]
  BY DEF Reschedule
<1>5. /\ Cardinality(Handling(j)) \in Nat /\ Cardinality(Handling(j)) > 0
      /\ Cardinality(Handling(j)') = Cardinality(Handling(j)) - 1
  BY <1>2, <1>3, <1>4, HandlingLemma DEF BudgetInv
<1>6. jobs[j].attempts > 0 /\ spent[j] > 0 /\ spent[j] - 1 \in Nat
  BY <1>2, <1>5 DEF BudgetInv, Charged
<1>7. /\ Rescheduled(jobs[j], d) \in Doc
      /\ Rescheduled(jobs[j], d).attempts = jobs[j].attempts - 1
      /\ Rescheduled(jobs[j], d).status = "pending"
  BY <1>1, <1>2, <1>6, DocLemma DEF Rescheduled, Doc
<1>8. TypeOK'
  <2>1. jobs' \in [Jobs -> Doc]
    BY <1>1, <1>2, <1>7 DEF BudgetInv, TypeOK
  <2>2. runs' \in [Runners -> Run]
    BY <1>3, <1>4 DEF BudgetInv, TypeOK
  <2>3. spent' \in [Jobs -> Nat]
    BY <1>1, <1>2, <1>6 DEF BudgetInv, TypeOK
  <2> QED
    BY <2>1, <2>2, <2>3 DEF BudgetInv, TypeOK, Reschedule
<1>9. ASSUME NEW q \in Runners PROVE RunOK(q)'
  BY <1>3, <1>4 DEF BudgetInv, TypeOK, RunOK
<1>10. ASSUME NEW i \in Jobs PROVE Charged(i)'
  <2>1. Charged(i) /\ spent[i] \in Nat /\ jobs[i].attempts \in Nat
    BY DEF BudgetInv, TypeOK, Doc
  <2>2. CASE i = j
    <3>1. /\ spent'[j] = spent[j] - 1
          /\ jobs'[j].attempts = jobs[j].attempts - 1
          /\ jobs'[j].status = "pending"
      BY <1>1, <1>2, <1>7 DEF BudgetInv, TypeOK
    <3> QED
      BY <1>5, <2>1, <2>2, <3>1, BoundAssumption DEF Charged
  <2>3. CASE i # j
    <3>1. spent'[i] = spent[i] /\ jobs'[i] = jobs[i]
      BY <1>1, <1>2, <2>3 DEF BudgetInv, TypeOK
    <3>2. /\ Cardinality(Handling(i)) \in Nat
          /\ Cardinality(Handling(i)') \in Nat
          /\ Cardinality(Handling(i)') <= Cardinality(Handling(i))
      BY <1>3, <1>4, HandlingLemma DEF BudgetInv
    <3> QED
      BY <2>1, <3>1, <3>2 DEF Charged
  <2> QED
    BY <2>2, <2>3
<1> QED
  BY <1>8, <1>9, <1>10 DEF BudgetInv

\* Steps that start no handler and give back no attempt.
LEMMA NothingCharged ==
  ASSUME BudgetInv, TypeOK', spent' = spent,
         \A r \in Runners : RunOK(r)',
         \A r \in Runners : runs'[r].phase = "handling" =>
           runs[r].phase = "handling" /\ runs'[r].job = runs[r].job,
         \A j \in Jobs : /\ jobs'[j].attempts = jobs[j].attempts
                         /\ jobs'[j].status = "absent" => jobs[j].status = "absent"
  PROVE  BudgetInv'
<1>1. ASSUME NEW j \in Jobs PROVE Charged(j)'
  <2>1. Handling(j)' \subseteq Handling(j)
    BY DEF Handling
  <2>2. /\ Cardinality(Handling(j)') \in Nat
        /\ Cardinality(Handling(j)) \in Nat
        /\ Cardinality(Handling(j)') <= Cardinality(Handling(j))
    BY <2>1, HandlingFinite, FS_Subset, FS_CardinalityType
  <2> QED
    BY <2>2 DEF BudgetInv, Charged, TypeOK
<1> QED
  BY <1>1 DEF BudgetInv

LEMMA QueryBudget ==
  ASSUME BudgetInv
  PROVE  /\ \A j \in Jobs, d \in Delays : Enqueue(j, d) => BudgetInv'
         /\ \A e \in Events, K \in SUBSET Kinds : CancelByEvent(e, K) => BudgetInv'
         /\ \A r \in Runners : LoseClaim(r) => BudgetInv'
<1>1. ASSUME NEW j \in Jobs, NEW d \in Delays, Enqueue(j, d) PROVE BudgetInv'
  <2>1. TypeOK'
    BY <1>1, TimeAssumption DEF BudgetInv, TypeOK, Enqueue, Doc, Statuses
  <2>2. ASSUME NEW i \in Jobs
        PROVE  /\ jobs'[i].attempts = jobs[i].attempts
               /\ jobs'[i].status = "absent" => jobs[i].status = "absent"
    BY <1>1 DEF BudgetInv, TypeOK, Enqueue, Charged
  <2> QED
    BY <1>1, <2>1, <2>2, NothingCharged DEF Enqueue, BudgetInv, RunOK
<1>2. ASSUME NEW e \in Events, NEW K \in SUBSET Kinds, CancelByEvent(e, K)
      PROVE  BudgetInv'
  <2>1. ASSUME NEW i \in Jobs
        PROVE  /\ jobs'[i] \in Doc
               /\ jobs'[i].attempts = jobs[i].attempts
               /\ jobs'[i].status = "absent" => jobs[i].status = "absent"
    <3>1. jobs[i] \in Doc
      BY DEF BudgetInv, TypeOK
    <3>2. jobs'[i] = jobs[i] \/ jobs'[i] = [jobs[i] EXCEPT !.status = "canceled"]
      BY <1>2 DEF CancelByEvent
    <3> QED
      BY <3>1, <3>2, DocLemma DEF Doc
  <2>2. TypeOK'
    BY <1>2, <2>1 DEF BudgetInv, TypeOK, CancelByEvent
  <2> QED
    BY <1>2, <2>1, <2>2, NothingCharged DEF CancelByEvent, BudgetInv, RunOK
<1>3. ASSUME NEW r \in Runners, LoseClaim(r) PROVE BudgetInv'
  <2>1. PICK j \in Jobs : jobs' = [jobs EXCEPT ![j] = Claimed(jobs[j])]
    BY <1>3 DEF LoseClaim
  <2>2. jobs[j] \in Doc /\ jobs[j].attempts \in Nat
    BY DEF BudgetInv, TypeOK, Doc
  <2>3. /\ Claimed(jobs[j]) \in Doc
        /\ Claimed(jobs[j]).attempts = jobs[j].attempts + 1
        /\ Claimed(jobs[j]).status = "running"
    BY <2>2, DocLemma DEF Claimed, Doc
  <2>4. TypeOK'
    BY <1>3, <2>1, <2>3 DEF BudgetInv, TypeOK, LoseClaim, Disturb
  <2>5. ASSUME NEW i \in Jobs PROVE Charged(i)'
    <3>1. Charged(i) /\ spent[i] \in Nat /\ jobs[i].attempts \in Nat
      BY DEF BudgetInv, TypeOK, Doc
    <3>2. spent' = spent /\ Handling(i)' = Handling(i)
      BY <1>3 DEF LoseClaim, Handling
    <3>3. Cardinality(Handling(i)) \in Nat
      BY HandlingFinite, FS_CardinalityType
    <3>4. CASE i = j
      <4>1. /\ jobs'[i].attempts = jobs[i].attempts + 1
            /\ jobs'[i].status = "running"
        BY <2>1, <2>3, <3>4 DEF BudgetInv, TypeOK
      <4> QED
        BY <3>1, <3>2, <3>3, <4>1 DEF Charged
    <3>5. CASE i # j
      <4>1. jobs'[i] = jobs[i]
        BY <2>1, <3>5 DEF BudgetInv, TypeOK
      <4> QED
        BY <3>1, <3>2, <4>1 DEF Charged
    <3> QED
      BY <3>4, <3>5
  <2> QED
    BY <1>3, <2>4, <2>5 DEF BudgetInv, RunOK, LoseClaim
<1> QED
  BY <1>1, <1>2, <1>3

LEMMA RunBudget ==
  ASSUME BudgetInv, NEW r \in Runners,
         Beat(r) \/ LoseHeartbeat(r) \/ Finish(r) \/ Return(r)
           \/ WriteResult(r) \/ LoseWrite(r)
  PROVE  BudgetInv'
<1>0. /\ runs[r] \in Run /\ runs[r].job \in Jobs /\ RunOK(r)
      /\ jobs[runs[r].job] \in Doc
  BY DEF BudgetInv, TypeOK, Run
<1>1. CASE Beat(r)
  <2>1. ASSUME NEW i \in Jobs
        PROVE  /\ jobs'[i] \in Doc
               /\ jobs'[i].attempts = jobs[i].attempts
               /\ jobs'[i].status = jobs[i].status
    <3>1. jobs[i] \in Doc
      BY DEF BudgetInv, TypeOK
    <3>2. jobs'[i] = jobs[i] \/ jobs'[i] = [jobs[i] EXCEPT !.lease = Lease]
      BY <1>1 DEF Beat, BudgetInv, TypeOK
    <3> QED
      BY <3>1, <3>2, DocLemma DEF Doc
  <2>2. TypeOK'
    <3>1. jobs' \in [Jobs -> Doc]
      BY <1>1, <2>1 DEF BudgetInv, TypeOK, Beat
    <3>2. runs' \in [Runners -> Run]
      BY <1>1, <1>0, IntervalLemma DEF BudgetInv, TypeOK, Beat, Run
    <3> QED
      BY <1>1, <3>1, <3>2 DEF BudgetInv, TypeOK, Beat
  <2>3. ASSUME NEW q \in Runners
        PROVE  /\ runs'[q].phase = runs[q].phase /\ runs'[q].job = runs[q].job
               /\ RunOK(q)'
    BY <1>1, <1>0 DEF BudgetInv, TypeOK, Beat, Run, RunOK
  <2> QED
    BY <1>1, <2>1, <2>2, <2>3, NothingCharged DEF Beat
<1>2. CASE LoseHeartbeat(r)
  <2>1. TypeOK'
    <3>1. runs' \in [Runners -> Run]
      BY <1>2, <1>0 DEF BudgetInv, TypeOK, LoseHeartbeat, Run
    <3>2. faults' \in Nat
      BY <1>2 DEF BudgetInv, TypeOK, LoseHeartbeat, Disturb
    <3> QED
      BY <1>2, <3>1, <3>2 DEF BudgetInv, TypeOK, LoseHeartbeat
  <2>2. ASSUME NEW q \in Runners
        PROVE  /\ runs'[q].phase = runs[q].phase /\ runs'[q].job = runs[q].job
               /\ RunOK(q)'
    BY <1>2, <1>0 DEF BudgetInv, TypeOK, LoseHeartbeat, Run, RunOK
  <2> QED
    BY <1>2, <2>1, <2>2, NothingCharged DEF LoseHeartbeat
<1>3. CASE Finish(r)
  <2>1. PICK res \in {"ok", "permanent", "error"} :
          runs' = [runs EXCEPT ![r].phase = "writing", ![r].result = res,
                               ![r].runAt = Backoff[runs[r].attempt]]
    BY <1>3 DEF Finish
  <2>2. Backoff[runs[r].attempt] \in Int
    BY <1>0, <1>3, BoundAssumption DEF Finish, RunOK
  <2>3. TypeOK'
    BY <1>0, <1>3, <2>1, <2>2 DEF BudgetInv, TypeOK, Finish, Run, Phases, Results
  <2>4. ASSUME NEW q \in Runners
        PROVE  /\ runs'[q].phase = "handling" =>
                    runs[q].phase = "handling" /\ runs'[q].job = runs[q].job
               /\ RunOK(q)'
    BY <1>0, <2>1 DEF BudgetInv, TypeOK, Run, RunOK
  <2> QED
    BY <1>3, <2>3, <2>4, NothingCharged DEF Finish
<1>4. CASE Return(r) \/ WriteResult(r) \/ LoseWrite(r)
  <2>1. /\ runs' = [runs EXCEPT ![r] = Idle]
        /\ spent' = spent
        /\ faults' \in Nat /\ moves' = moves /\ procs' = procs
    BY <1>4 DEF Return, WriteResult, LoseWrite, Disturb, BudgetInv, TypeOK
  <2>2. ASSUME NEW i \in Jobs
        PROVE  /\ jobs'[i] \in Doc
               /\ jobs'[i].attempts = jobs[i].attempts
               /\ jobs'[i].status = "absent" => jobs[i].status = "absent"
    <3>1. jobs[i] \in Doc
      BY DEF BudgetInv, TypeOK
    <3>2. CASE WriteResult(r) /\ i = runs[r].job
      <4>1. runs[r].result # "none"
        BY <1>0, <3>2 DEF WriteResult, RunOK
      <4>2. jobs'[i] = Outcome(jobs[i], runs[r])
        BY <3>2 DEF WriteResult, BudgetInv, TypeOK
      <4>3. Outcome(jobs[i], runs[r]).status # "absent"
        <5>1. CASE runs[r].result = "ok"
          BY <3>1, <5>1 DEF Outcome, Completed, Doc
        <5>2. CASE runs[r].result = "error"
          BY <3>1, <5>2 DEF Outcome, Retried, Doc
        <5>3. CASE runs[r].result \in {"permanent", "exhausted"}
          BY <3>1, <5>3 DEF Outcome, Failed, Doc
        <5> QED
          BY <1>0, <4>1, <5>1, <5>2, <5>3 DEF Run, Results
      <4> QED
        BY <1>0, <3>1, <4>1, <4>2, <4>3, OutcomeLemma
    <3>3. CASE ~ (WriteResult(r) /\ i = runs[r].job)
      BY <1>4, <3>1, <3>3
      DEF Return, WriteResult, LoseWrite, BudgetInv, TypeOK
    <3> QED
      BY <3>2, <3>3
  <2>3. jobs' \in [Jobs -> Doc]
    BY <1>4, <2>2 DEF Return, WriteResult, LoseWrite, BudgetInv, TypeOK
  <2>4. TypeOK'
    BY <2>1, <2>3, IdleLemma DEF BudgetInv, TypeOK
  <2>5. ASSUME NEW q \in Runners
        PROVE  /\ runs'[q].phase = "handling" =>
                    runs[q].phase = "handling" /\ runs'[q].job = runs[q].job
               /\ RunOK(q)'
    BY <2>1, IdleLemma DEF BudgetInv, TypeOK, RunOK
  <2> QED
    BY <2>1, <2>2, <2>4, <2>5, NothingCharged
<1> QED
  BY <1>1, <1>2, <1>3, <1>4

LEMMA ProcessBudget ==
  ASSUME BudgetInv, NEW p \in Procs,
         Stop(p) \/ Exit(p) \/ Crash(p) \/ Restart(p)
  PROVE  BudgetInv'
<1>1. jobs' = jobs /\ spent' = spent /\ moves' = moves
  BY DEF Stop, Exit, Crash, Restart
<1>2. faults' \in Nat
  BY DEF Stop, Exit, Crash, Restart, Disturb, BudgetInv, TypeOK
<1>3. procs' \in [Procs -> {"up", "draining", "down"}]
  BY DEF Stop, Exit, Crash, Restart, BudgetInv, TypeOK
<1>4. /\ runs' \in [Runners -> Run]
      /\ \A r \in Runners : runs'[r] = runs[r] \/ runs'[r] = Idle
  BY IdleLemma DEF Stop, Exit, Crash, Restart, BudgetInv, TypeOK
<1>5. TypeOK'
  BY <1>1, <1>2, <1>3, <1>4 DEF BudgetInv, TypeOK
<1>6. \A r \in Runners : RunOK(r)'
  BY <1>4, IdleLemma DEF BudgetInv, RunOK
<1> QED
  BY <1>1, <1>4, <1>5, <1>6, IdleLemma, NothingCharged

LEMMA TickBudget ==
  ASSUME BudgetInv, Tick
  PROVE  BudgetInv'
<1>1. ASSUME NEW j \in Jobs
      PROVE  /\ jobs'[j] \in Doc
             /\ jobs'[j].attempts = jobs[j].attempts
             /\ jobs'[j].status = jobs[j].status
  <2>1. jobs[j] \in Doc
    BY DEF BudgetInv, TypeOK
  <2>2. jobs'[j] = [jobs[j] EXCEPT !.runAt = Nearer(@, -Late), !.lease = Nearer(@, 0)]
    BY DEF Tick
  <2> QED
    BY <2>1, <2>2, DocLemma DEF Doc
<1>2. ASSUME NEW r \in Runners
      PROVE  /\ runs'[r] \in Run
             /\ runs'[r].phase = runs[r].phase /\ runs'[r].job = runs[r].job
             /\ runs'[r].attempt = runs[r].attempt
             /\ runs'[r].result = runs[r].result
  <2>1. runs[r] \in Run
    BY DEF BudgetInv, TypeOK
  <2>2. runs'[r] = [runs[r] EXCEPT !.beat = Nearer(@, 0), !.runAt = Nearer(@, -Late)]
    BY DEF Tick
  <2>3. Nearer(runs[r].beat, 0) \in Nat /\ Nearer(runs[r].runAt, -Late) \in Int
    BY <2>1, TimeAssumption DEF Run, Nearer
  <2> QED
    BY <2>1, <2>2, <2>3 DEF Run
<1>3. jobs' \in [Jobs -> Doc] /\ runs' \in [Runners -> Run]
  BY <1>1, <1>2 DEF Tick
<1>4. TypeOK'
  BY <1>3 DEF Tick, BudgetInv, TypeOK
<1>5. \A r \in Runners : RunOK(r)'
  BY <1>2 DEF BudgetInv, RunOK
<1>6. spent' = spent
  BY DEF Tick
<1> QED
  BY <1>1, <1>2, <1>4, <1>5, <1>6, NothingCharged

LEMMA InitBudget == Init => BudgetInv
<1> SUFFICES ASSUME Init PROVE BudgetInv
  OBVIOUS
<1>1. Absent \in Doc /\ Absent.attempts = 0
  BY DEF Absent, Doc, Statuses
<1>2. TypeOK
  BY <1>1, IdleLemma DEF Init, TypeOK
<1>3. \A r \in Runners : RunOK(r)
  BY IdleLemma DEF Init, RunOK
<1>4. ASSUME NEW j \in Jobs PROVE Charged(j)
  <2>1. Handling(j) = {}
    BY IdleLemma DEF Init, Handling
  <2>2. Cardinality(Handling(j)) = 0
    BY <2>1, FS_EmptySet
  <2>3. spent[j] = 0 /\ jobs[j].attempts = 0
    BY <1>1 DEF Init
  <2> QED
    BY <2>2, <2>3, BoundAssumption DEF Charged
<1> QED
  BY <1>2, <1>3, <1>4 DEF BudgetInv

LEMMA NextBudget == BudgetInv /\ [Next]_vars => BudgetInv'
<1> SUFFICES ASSUME BudgetInv, [Next]_vars PROVE BudgetInv'
  OBVIOUS
<1>1. CASE UNCHANGED vars
  BY <1>1 DEF vars, BudgetInv, TypeOK, RunOK, Charged, Handling
<1>2. CASE Next
  BY <1>2, QueryBudget, ClaimBudget, RescheduleBudget, RunBudget,
     ProcessBudget, TickBudget
  DEF Next
<1> QED
  BY <1>1, <1>2

\* The documents of the queue and the state of its workers keep their types:
\* in particular, no interleaving of stale goroutines makes the attempts of a
\* job negative (Reschedule decrements them without looking).
THEOREM TypeCorrect == Spec => []TypeOK
<1>1. BudgetInv => TypeOK
  BY DEF BudgetInv
<1> QED
  BY <1>1, InitBudget, NextBudget, PTL DEF Spec

\* The handler of a job runs at most MaxAttempts times, executions that only
\* rescheduled it not counted (worker.go:179, jobs.go:144).
THEOREM BudgetKept == Spec => []RetryBudget
<1>1. BudgetInv => RetryBudget
  BY DEF BudgetInv, RetryBudget, Charged
<1> QED
  BY <1>1, InitBudget, NextBudget, PTL DEF Spec

-----------------------------------------------------------------------------
(* The inductive invariant behind ExclusiveExecution.                      *)

\* A goroutine at work on a job holds it on a lease that outlasts the time
\* to its next heartbeat.
Holds(r) ==
  runs[r].phase \in {"handling", "writing"} =>
    /\ runs[r].heart = "on"
    /\ jobs[runs[r].job].status = "running"
    /\ jobs[runs[r].job].lease > runs[r].beat

LeaseInv ==
  /\ \A r \in Runners : runs[r].beat <= HeartbeatInterval
  /\ \A r \in Runners : Holds(r)
  /\ ExclusiveExecution

\* A job that can be claimed has nobody at work on it.
LEMMA ClaimableFree ==
  ASSUME TypeOK, LeaseInv, NEW j \in Jobs, Claimable(j), NEW r \in Runners
  PROVE  ~ Works(r, j)
BY DEF TypeOK, Doc, Run, LeaseInv, Holds, Claimable, Works

\* What a claim does to the document and to the slot.
LEMMA ClaimedLemma ==
  ASSUME NEW j \in Jobs, NEW doc \in Doc
  PROVE  /\ Claimed(doc).status = "running" /\ Claimed(doc).lease = Lease
         /\ Started(j, doc.attempts + 1).job = j
         /\ Started(j, doc.attempts + 1).heart = "on"
         /\ Started(j, doc.attempts + 1).beat = HeartbeatInterval
BY DEF Claimed, Started, Doc

LEMMA ClaimLease ==
  ASSUME TypeOK, LeaseInv, NEW r \in Runners, Claim(r) \/ LoseClaim(r)
  PROVE  LeaseInv'
<1>1. PICK j \in Jobs :
        /\ Claimable(j)
        /\ jobs' = [jobs EXCEPT ![j] = Claimed(jobs[j])]
        /\ \/ runs' = runs
           \/ runs' = [runs EXCEPT ![r] = Started(j, jobs[j].attempts + 1)]
  BY DEF Claim, LoseClaim, Earliest
<1>2. jobs[j] \in Doc
  BY DEF TypeOK
<1>3. jobs'[j].status = "running" /\ jobs'[j].lease = Lease
  BY <1>1, <1>2, ClaimedLemma DEF TypeOK
<1>4. ASSUME NEW q \in Runners, NEW i \in Jobs, Works(q, i), runs'[q] = runs[q]
      PROVE  i # j /\ jobs'[i] = jobs[i]
  BY <1>1, <1>4, ClaimableFree DEF TypeOK
<1>5. ASSUME NEW q \in Runners
      PROVE  \/ runs'[q] = runs[q]
             \/ /\ q = r
                /\ runs'[q].job = j /\ runs'[q].heart = "on"
                /\ runs'[q].beat = HeartbeatInterval
  BY <1>1, <1>2, ClaimedLemma DEF TypeOK
<1>6. ASSUME NEW q \in Runners PROVE runs'[q].beat <= HeartbeatInterval
  BY <1>5, IntervalLemma DEF LeaseInv
<1>7. ASSUME NEW q \in Runners PROVE Holds(q)'
  <2>1. CASE runs'[q] = runs[q]
    <3>1. runs[q].job \in Jobs
      BY DEF TypeOK, Run
    <3> QED
      BY <1>4, <2>1, <3>1 DEF Holds, LeaseInv, Works
  <2>2. CASE runs'[q] # runs[q]
    BY <1>3, <1>5, <2>2, IntervalLemma DEF Holds
  <2> QED
    BY <2>1, <2>2
<1>8. ExclusiveExecution'
  <2> SUFFICES ASSUME NEW i \in Jobs, NEW q \in Runners, NEW q2 \in Runners,
                      Works(q, i)', Works(q2, i)'
               PROVE  q = q2
    BY DEF ExclusiveExecution
  <2>1. CASE runs'[q] = runs[q] /\ runs'[q2] = runs[q2]
    BY <2>1 DEF LeaseInv, ExclusiveExecution, Works
  <2>2. CASE runs'[q] # runs[q] /\ runs'[q2] = runs[q2]
    <3>1. i = j
      BY <1>5, <2>2 DEF Works
    <3> QED
      BY <1>4, <2>2, <3>1 DEF Works
  <2>3. CASE runs'[q] = runs[q] /\ runs'[q2] # runs[q2]
    <3>1. i = j
      BY <1>5, <2>3 DEF Works
    <3> QED
      BY <1>4, <2>3, <3>1 DEF Works
  <2>4. CASE runs'[q] # runs[q] /\ runs'[q2] # runs[q2]
    BY <1>5, <2>4
  <2> QED
    BY <2>1, <2>2, <2>3, <2>4
<1> QED
  BY <1>6, <1>7, <1>8 DEF LeaseInv

\* Steps of which no goroutine takes up work on a job, and which leave alone
\* the jobs that others are at work on.
LEMMA OthersLease ==
  ASSUME TypeOK, LeaseInv,
         \A r \in Runners : runs'[r].beat <= HeartbeatInterval,
         \A r \in Runners :
           runs'[r].phase \in {"handling", "writing"} =>
             /\ runs[r].phase \in {"handling", "writing"}
             /\ runs'[r].job = runs[r].job
             /\ runs'[r].heart = runs[r].heart
             /\ jobs'[runs[r].job].status = jobs[runs[r].job].status
             /\ jobs'[runs[r].job].lease > runs'[r].beat
  PROVE  LeaseInv'
<1>1. \A r \in Runners : Holds(r)'
  BY DEF Holds, LeaseInv
<1>2. ExclusiveExecution'
  BY DEF LeaseInv, ExclusiveExecution, Works
<1> QED
  BY <1>1, <1>2 DEF LeaseInv

LEMMA QueryLease ==
  ASSUME TypeOK, LeaseInv
  PROVE  /\ \A j \in Jobs, d \in Delays : Enqueue(j, d) => LeaseInv'
         /\ \A e \in Events, K \in SUBSET Kinds : CancelByEvent(e, K) => LeaseInv'
<1>1. ASSUME NEW j \in Jobs, NEW d \in Delays, Enqueue(j, d) PROVE LeaseInv'
  <2>1. ASSUME NEW r \in Runners, runs[r].phase \in {"handling", "writing"}
        PROVE  jobs'[runs[r].job] = jobs[runs[r].job]
    BY <1>1, <2>1 DEF Enqueue, LeaseInv, Holds, TypeOK, Run
  <2> QED
    BY <1>1, <2>1, OthersLease DEF Enqueue, LeaseInv, Holds
<1>2. ASSUME NEW e \in Events, NEW K \in SUBSET Kinds, CancelByEvent(e, K)
      PROVE  LeaseInv'
  <2>1. ASSUME NEW r \in Runners, runs[r].phase \in {"handling", "writing"}
        PROVE  jobs'[runs[r].job] = jobs[runs[r].job]
    BY <1>2, <2>1 DEF CancelByEvent, Cancelled, LeaseInv, Holds, TypeOK, Run
  <2> QED
    BY <1>2, <2>1, OthersLease DEF CancelByEvent, LeaseInv, Holds
<1> QED
  BY <1>1, <1>2

LEMMA BeatLease ==
  ASSUME TypeOK, LeaseInv, NEW r \in Runners, Beat(r)
  PROVE  LeaseInv'
<1>0. PICK j \in Jobs : j = runs[r].job
  BY DEF TypeOK, Run
<1>1. runs[r] \in Run /\ jobs[j] \in Doc
  BY DEF TypeOK
<1>2. CASE jobs[j].status = "running"
  <2>1. /\ jobs' = [jobs EXCEPT ![j] = [jobs[j] EXCEPT !.lease = Lease]]
        /\ runs' = [runs EXCEPT ![r] = [runs[r] EXCEPT !.beat = HeartbeatInterval]]
    BY <1>0, <1>2 DEF Beat
  <2>2. jobs'[j].status = "running" /\ jobs'[j].lease = Lease
    BY <1>1, <1>2, <2>1 DEF TypeOK, Doc
  <2>3. ASSUME NEW q \in Runners
        PROVE  /\ runs'[q].phase = runs[q].phase /\ runs'[q].job = runs[q].job
               /\ runs'[q].heart = runs[q].heart
               /\ runs'[q].beat <= HeartbeatInterval
    BY <1>1, <2>1, IntervalLemma DEF TypeOK, Run, LeaseInv
  <2>4. ASSUME NEW q \in Runners, runs[q].phase \in {"handling", "writing"}
        PROVE  /\ jobs'[runs[q].job].status = jobs[runs[q].job].status
               /\ jobs'[runs[q].job].lease > runs'[q].beat
    <3>0. runs[q].job \in Jobs /\ runs[q].beat \in Nat /\ runs'[q].beat \in Nat
      BY <1>1, <2>1, IntervalLemma DEF TypeOK, Run
    <3>1. CASE runs[q].job = j
      BY <1>2, <2>2, <2>3, <3>0, <3>1, IntervalLemma
    <3>2. CASE runs[q].job # j
      <4>1. q # r /\ runs'[q] = runs[q] /\ jobs'[runs[q].job] = jobs[runs[q].job]
        BY <1>0, <2>1, <3>0, <3>2 DEF TypeOK
      <4> QED
        BY <2>4, <4>1 DEF LeaseInv, Holds
    <3> QED
      BY <3>1, <3>2
  <2> QED
    BY <2>3, <2>4, OthersLease
<1>3. CASE jobs[j].status # "running"
  <2>1. /\ jobs' = jobs
        /\ runs' = [runs EXCEPT ![r] = [runs[r] EXCEPT !.heart = "off", !.beat = 0]]
    BY <1>0, <1>1, <1>3 DEF Beat, TypeOK, Run
  <2>2. runs[r].phase = "rescheduled"
    BY <1>0, <1>3 DEF Beat, LeaseInv, Holds
  <2>3. ASSUME NEW q \in Runners
        PROVE  \/ runs'[q] = runs[q]
               \/ runs'[q].phase = "rescheduled" /\ runs'[q].beat = 0
    BY <1>1, <2>1, <2>2 DEF TypeOK, Run
  <2>4. \A q \in Runners : runs'[q].beat <= HeartbeatInterval
    BY <2>3, IntervalLemma DEF LeaseInv
  <2> QED
    BY <2>1, <2>3, <2>4, OthersLease DEF LeaseInv, Holds
<1> QED
  BY <1>2, <1>3

LEMMA RunLease ==
  ASSUME TypeOK, LeaseInv, NEW r \in Runners,
         Finish(r) \/ Reschedule(r) \/ Return(r) \/ WriteResult(r) \/ LoseWrite(r)
  PROVE  LeaseInv'
<1>0. runs[r] \in Run /\ runs[r].job \in Jobs
  BY DEF TypeOK, Run
<1>1. CASE Finish(r)
  <2>1. ASSUME NEW q \in Runners
        PROVE  /\ runs'[q].job = runs[q].job /\ runs'[q].heart = runs[q].heart
               /\ runs'[q].beat = runs[q].beat
               /\ runs'[q].phase = runs[q].phase \/ runs[q].phase = "handling"
    BY <1>0, <1>1 DEF Finish, TypeOK, Run
  <2> QED
    BY <1>1, <2>1, OthersLease DEF Finish, LeaseInv, Holds
<1>2. CASE Reschedule(r) \/ Return(r) \/ WriteResult(r) \/ LoseWrite(r)
  <2>1. /\ runs'[r].phase \notin {"handling", "writing"}
        /\ runs'[r].beat <= HeartbeatInterval
        /\ \A q \in Runners \ {r} : runs'[q] = runs[q]
    BY <1>0, <1>2, IdleLemma, IntervalLemma
    DEF Reschedule, Return, WriteResult, LoseWrite, TypeOK, Run, LeaseInv, Idle
  <2>2. ASSUME NEW q \in Runners, q # r, runs[q].phase \in {"handling", "writing"}
        PROVE  jobs'[runs[q].job] = jobs[runs[q].job]
    <3>1. runs[q].job \in Jobs
      BY DEF TypeOK, Run
    <3>2. CASE Reschedule(r) \/ WriteResult(r)
      <4>1. runs[q].job # runs[r].job
        BY <1>0, <2>2, <3>2 DEF LeaseInv, ExclusiveExecution, Works, Reschedule, WriteResult
      <4> QED
        BY <1>0, <3>1, <3>2, <4>1 DEF Reschedule, WriteResult, TypeOK
    <3>3. CASE Return(r) \/ LoseWrite(r)
      BY <3>3 DEF Return, LoseWrite
    <3> QED
      BY <1>2, <3>2, <3>3
  <2>3. ASSUME NEW q \in Runners PROVE runs'[q].beat <= HeartbeatInterval
    BY <2>1 DEF LeaseInv
  <2> QED
    BY <2>1, <2>2, <2>3, OthersLease DEF LeaseInv, Holds
<1> QED
  BY <1>1, <1>2

LEMMA ProcessLease ==
  ASSUME TypeOK, LeaseInv, NEW p \in Procs,
         Stop(p) \/ Exit(p) \/ Crash(p) \/ Restart(p)
  PROVE  LeaseInv'
<1>1. jobs' = jobs /\ \A r \in Runners : runs'[r] = runs[r] \/ runs'[r] = Idle
  BY DEF Stop, Exit, Crash, Restart, TypeOK
<1>2. Idle.beat <= HeartbeatInterval /\ Idle.phase = "idle"
  BY IntervalLemma DEF Idle
<1> QED
  BY <1>1, <1>2, OthersLease DEF LeaseInv, Holds

\* A tick shortens the lease and the time to the next heartbeat alike, and
\* does not happen while a heartbeat is overdue.
LEMMA TickLease ==
  ASSUME TypeOK, LeaseInv, Tick
  PROVE  LeaseInv'
<1>1. ASSUME NEW r \in Runners
      PROVE  /\ runs'[r].phase = runs[r].phase /\ runs'[r].job = runs[r].job
             /\ runs'[r].heart = runs[r].heart
             /\ runs'[r].beat = Nearer(runs[r].beat, 0)
             /\ runs[r].beat \in Nat /\ runs[r].job \in Jobs
  <2>1. runs[r] \in Run
    BY DEF TypeOK
  <2> QED
    BY <2>1 DEF Tick, Run
<1>2. ASSUME NEW j \in Jobs
      PROVE  /\ jobs'[j].status = jobs[j].status
             /\ jobs'[j].lease = Nearer(jobs[j].lease, 0)
             /\ jobs[j].lease \in Nat
  <2>1. jobs[j] \in Doc
    BY DEF TypeOK
  <2> QED
    BY <2>1 DEF Tick, Doc
<1>3. \A r \in Runners : runs'[r].beat <= HeartbeatInterval
  BY <1>1, IntervalLemma DEF Nearer, LeaseInv
<1>4. ASSUME NEW r \in Runners, runs[r].phase \in {"handling", "writing"}
      PROVE  jobs'[runs[r].job].lease > runs'[r].beat
  <2>1. runs[r].beat > 0 /\ jobs[runs[r].job].lease > runs[r].beat
    BY <1>4 DEF Tick, OnTime, LeaseInv, Holds
  <2> QED
    BY <1>1, <1>2, <2>1 DEF Nearer
<1> QED
  BY <1>1, <1>2, <1>3, <1>4, OthersLease

LEMMA InitLease == Init => LeaseInv
<1>1. Idle.beat <= HeartbeatInterval /\ Idle.phase = "idle"
  BY IntervalLemma DEF Idle
<1> QED
  BY <1>1 DEF Init, LeaseInv, Holds, ExclusiveExecution, Works

\* The assumption of the theorems below: no heartbeat fails or is late.
PromptHeartbeats == "heartbeat" \notin Faults

LEMMA NextLease ==
  PromptHeartbeats /\ TypeOK /\ LeaseInv /\ [Next]_vars => LeaseInv'
<1> SUFFICES ASSUME PromptHeartbeats, TypeOK, LeaseInv, [Next]_vars PROVE LeaseInv'
  OBVIOUS
<1>1. CASE UNCHANGED vars
  BY <1>1 DEF vars, LeaseInv, Holds, ExclusiveExecution, Works
<1>2. CASE Next
  <2>1. \A r \in Runners : ~ LoseHeartbeat(r)
    BY DEF PromptHeartbeats, LoseHeartbeat, Disturb
  <2> QED
    BY <1>2, <2>1, QueryLease, ClaimLease, BeatLease, RunLease, ProcessLease, TickLease
    DEF Next
<1> QED
  BY <1>1, <1>2

\* When heartbeats are on time, no job is executed twice at a time, whatever
\* crashes, stops and lost writes happen (docs/11 section 2, worker.go:214).
THEOREM Exclusive ==
  ASSUME PromptHeartbeats
  PROVE  Spec => []ExclusiveExecution
<1>1. LeaseInv => ExclusiveExecution
  BY DEF LeaseInv
<1>2. Spec => []TypeOK
  BY TypeCorrect
<1>3. TypeOK /\ LeaseInv /\ [Next]_vars => LeaseInv'
  BY NextLease
<1> QED
  BY <1>1, <1>2, <1>3, InitLease, PTL DEF Spec

\* When heartbeats are on time, no write of a worker overwrites a final status,
\* although Complete, Fail and Retry look for the job by its id alone.
THEOREM Final ==
  ASSUME PromptHeartbeats
  PROVE  Spec => TerminalIsFinal
<1>1. ASSUME TypeOK, LeaseInv, [Next]_vars,
             NEW j \in Jobs, jobs[j].status \in Terminal
      PROVE  jobs'[j].status = jobs[j].status
  <2> USE <1>1
  <2>0. jobs[j] \in Doc /\ jobs[j].status \notin {"absent", "pending", "running"}
    BY DEF TypeOK, Terminal
  <2>1. CASE UNCHANGED vars
    BY <2>1 DEF vars
  <2>2. ASSUME NEW i \in Jobs, NEW d \in Delays, Enqueue(i, d)
        PROVE  jobs'[j] = jobs[j]
    BY <2>0, <2>2 DEF Enqueue, TypeOK
  <2>3. ASSUME NEW e \in Events, NEW K \in SUBSET Kinds, CancelByEvent(e, K)
        PROVE  jobs'[j] = jobs[j]
    BY <2>0, <2>3 DEF CancelByEvent, Cancelled
  <2>4. ASSUME NEW r \in Runners, Claim(r) \/ LoseClaim(r)
        PROVE  jobs'[j] = jobs[j]
    BY <2>0, <2>4 DEF Claim, LoseClaim, Earliest, Claimable, TypeOK
  <2>5. ASSUME NEW r \in Runners, Beat(r)
        PROVE  jobs'[j] = jobs[j]
    BY <2>0, <2>5 DEF Beat, TypeOK
  <2>6. ASSUME NEW r \in Runners, Reschedule(r) \/ WriteResult(r)
        PROVE  jobs'[j] = jobs[j]
    <3>1. runs[r].job # j
      BY <2>0, <2>6 DEF Reschedule, WriteResult, LeaseInv, Holds
    <3> QED
      BY <2>6, <3>1 DEF Reschedule, WriteResult, TypeOK
  <2>7. ASSUME NEW r \in Runners,
               LoseHeartbeat(r) \/ Finish(r) \/ Return(r) \/ LoseWrite(r)
        PROVE  jobs'[j] = jobs[j]
    BY <2>7 DEF LoseHeartbeat, Finish, Return, LoseWrite
  <2>8. ASSUME NEW p \in Procs, Stop(p) \/ Exit(p) \/ Crash(p) \/ Restart(p)
        PROVE  jobs'[j] = jobs[j]
    BY <2>8 DEF Stop, Exit, Crash, Restart
  <2>9. CASE Tick
    BY <2>0, <2>9 DEF Tick, Doc
  <2> QED
    BY <2>1, <2>2, <2>3, <2>4, <2>5, <2>6, <2>7, <2>8, <2>9 DEF Next
<1>2. TypeOK /\ LeaseInv /\ [Next]_vars
        => [\A j \in Jobs : jobs[j].status \in Terminal
                              => jobs'[j].status = jobs[j].status]_vars
  BY <1>1
<1>3. TypeOK /\ LeaseInv /\ [Next]_vars => LeaseInv'
  BY NextLease
<1> QED
  BY <1>2, <1>3, TypeCorrect, InitLease, PTL DEF Spec, TerminalIsFinal

-----------------------------------------------------------------------------
(* The queue implements the life of a job.                                 *)

\* The result of an execution in progress is open, so that no handler passes
\* for a job that has used up its attempts.
OpenResult == \A r \in Runners : runs[r].phase = "handling" => runs[r].result = "none"

SimInv == BudgetInv /\ LeaseInv /\ OpenResult

-----------------------------------------------------------------------------
(* Stages.                                                                 *)

\* Goroutine r makes job j an executing one.
Executes(r, j) == Works(r, j) /\ runs[r].result # "exhausted"

\* Whoever works on a job has a running one before him (the lease).
LEMMA WorkingLemma ==
  ASSUME SimInv, NEW r \in Runners, NEW j \in Jobs, Works(r, j)
  PROVE  jobs[j].status = "running" /\ \A q \in Runners : Works(q, j) => q = r
BY DEF SimInv, LeaseInv, Holds, Works, ExclusiveExecution

\* The stage of a job that nobody executes is told by its status, before a
\* step and after it.
LEMMA RestingLemma ==
  ASSUME NEW j \in Jobs, \A r \in Runners : ~ Executes(r, j)
  PROVE  /\ jobs[j].status = "absent" => Stage(j) = "absent"
         /\ jobs[j].status \in {"pending", "running"} => Stage(j) = "waiting"
         /\ jobs[j].status \in Terminal => Stage(j) = "ended"
BY DEF Stage, Executing, Executes, Terminal

LEMMA RestingNext ==
  ASSUME NEW j \in Jobs, \A r \in Runners : ~ Executes(r, j)'
  PROVE  /\ jobs'[j].status \in {"pending", "running"} => Stage(j)' = "waiting"
         /\ jobs'[j].status \in Terminal => Stage(j)' = "ended"
BY DEF Stage, Executing, Executes, Terminal

LEMMA ExecutingLemma ==
  ASSUME NEW j \in Jobs, NEW r \in Runners
  PROVE  /\ Executes(r, j) => Stage(j) = "executing"
         /\ Executes(r, j)' => Stage(j)' = "executing"
BY DEF Stage, Executing, Executes

\* A job whose status stays, and whose goroutines do, keeps its stage.
LEMMA SameStage ==
  ASSUME NEW j \in Jobs, jobs'[j].status = jobs[j].status,
         \A r \in Runners : Executes(r, j)' <=> Executes(r, j)
  PROVE  Stage(j)' = Stage(j)
BY DEF Stage, Executing, Executes

\* What happens to goroutine r and to job j is all that happens.
LEMMA OtherJobs ==
  ASSUME NEW r \in Runners, NEW j \in Jobs,
         \A q \in Runners \ {r} : runs'[q] = runs[q],
         \A i \in Jobs \ {j} : jobs'[i].status = jobs[i].status,
         \A i \in Jobs \ {j} : ~ Executes(r, i) /\ ~ Executes(r, i)'
  PROVE  \A i \in Jobs \ {j} : Stage(i)' = Stage(i)
<1> SUFFICES ASSUME NEW i \in Jobs \ {j} PROVE Stage(i)' = Stage(i)
  OBVIOUS
<1>1. \A q \in Runners : Executes(q, i)' <=> Executes(q, i)
  BY DEF Executes, Works
<1> QED
  BY <1>1, SameStage

-----------------------------------------------------------------------------
(* Steps of JobLifecycle.                                                  *)

\* The jobs of S move, the others stay.
LEMMA MoveLemma ==
  ASSUME NEW S \in SUBSET Jobs, S # {}, NEW from, NEW to,
         \A j \in S : Stage(j) = from /\ Stage(j)' = to,
         \A j \in Jobs \ S : Stage(j)' = Stage(j)
  PROVE  Lifecycle!Move(S, from, to)
BY DEF Lifecycle!Move

\* No job moves.
LEMMA StutterLemma ==
  ASSUME \A j \in Jobs : Stage(j)' = Stage(j), UNCHANGED spent
  PROVE  UNCHANGED Lifecycle!vars
BY DEF Lifecycle!vars

LEMMA SubmitStep ==
  ASSUME SimInv, NEW j \in Jobs, NEW d \in Delays, Enqueue(j, d)
  PROVE  Lifecycle!Next
<1>1. /\ jobs[j].status = "absent" /\ jobs'[j].status = "pending"
      /\ \A i \in Jobs \ {j} : jobs'[i] = jobs[i]
      /\ UNCHANGED <<runs, spent>>
  BY DEF Enqueue, SimInv, BudgetInv, TypeOK
<1>2. \A r \in Runners : ~ Executes(r, j) /\ ~ Executes(r, j)'
  BY <1>1, WorkingLemma DEF Executes, Works
<1>3. Stage(j) = "absent" /\ Stage(j)' = "waiting"
  BY <1>1, <1>2, RestingLemma, RestingNext
<1>4. \A i \in Jobs \ {j} : Stage(i)' = Stage(i)
  BY <1>1, SameStage DEF Executes, Works
<1>5. Lifecycle!Move({j}, "absent", "waiting")
  BY <1>3, <1>4, MoveLemma
<1> QED
  BY <1>1, <1>5 DEF Lifecycle!Next, Lifecycle!Submit

LEMMA CancelStep ==
  ASSUME SimInv, NEW e \in Events, NEW K \in SUBSET Kinds, CancelByEvent(e, K)
  PROVE  Lifecycle!Next
<1> DEFINE S == Cancelled(e, K)
<1>1. /\ S # {} /\ S \in SUBSET Jobs
      /\ \A j \in S : jobs[j].status = "pending" /\ jobs'[j].status = "canceled"
      /\ \A j \in Jobs \ S : jobs'[j] = jobs[j]
      /\ UNCHANGED <<runs, spent>>
  BY DEF CancelByEvent, Cancelled, SimInv, BudgetInv, TypeOK, Doc
<1> HIDE DEF S
<1>2. \A j \in S, r \in Runners : ~ Executes(r, j) /\ ~ Executes(r, j)'
  BY <1>1, WorkingLemma DEF Executes, Works
<1>3. \A j \in S : Stage(j) = "waiting" /\ Stage(j)' = "ended"
  BY <1>1, <1>2, RestingLemma, RestingNext DEF Terminal
<1>4. \A j \in Jobs \ S : Stage(j)' = Stage(j)
  BY <1>1, SameStage DEF Executes, Works
<1>5. Lifecycle!Move(S, "waiting", "ended")
  BY <1>1, <1>3, <1>4, MoveLemma
<1> QED
  BY <1>1, <1>5 DEF Lifecycle!Next, Lifecycle!GiveUp

\* A claim executes the job, or finds its attempts used up; or it is lost.
LEMMA ClaimStep ==
  ASSUME SimInv, NEW r \in Runners, Claim(r) \/ LoseClaim(r)
  PROVE  Lifecycle!Next \/ UNCHANGED Lifecycle!vars
<1>1. PICK j \in Jobs :
        /\ Claimable(j)
        /\ jobs' = [jobs EXCEPT ![j] = Claimed(jobs[j])]
        /\ \/ runs' = runs /\ UNCHANGED spent
           \/ /\ runs' = [runs EXCEPT ![r] = Started(j, jobs[j].attempts + 1)]
              /\ spent' = IF Exhausted(jobs[j].attempts + 1) THEN spent
                          ELSE [spent EXCEPT ![j] = @ + 1]
  BY DEF Claim, LoseClaim, Earliest
<1>2. jobs[j] \in Doc /\ runs[r].phase = "idle"
  BY DEF SimInv, BudgetInv, TypeOK, Claim, LoseClaim
<1>3. /\ jobs[j].status \in {"pending", "running"} /\ jobs'[j].status = "running"
      /\ \A i \in Jobs \ {j} : jobs'[i] = jobs[i]
  BY <1>1, <1>2, ClaimedLemma DEF Claimable, SimInv, BudgetInv, TypeOK
<1>4. \A q \in Runners : ~ Works(q, j)
  BY <1>1, ClaimableFree DEF SimInv, BudgetInv
<1>5. Stage(j) = "waiting"
  BY <1>3, <1>4, RestingLemma DEF Executes
<1>6. CASE runs' = runs /\ UNCHANGED spent
  <2>1. \A i \in Jobs : jobs'[i].status = jobs[i].status \/ i = j
    BY <1>3
  <2>2. Stage(j)' = "waiting"
    BY <1>3, <1>4, <1>6, RestingNext DEF Executes, Works
  <2>3. \A i \in Jobs \ {j} : Stage(i)' = Stage(i)
    BY <1>6, <2>1, SameStage DEF Executes, Works
  <2> QED
    BY <1>5, <1>6, <2>2, <2>3, StutterLemma
<1>7. CASE /\ runs' = [runs EXCEPT ![r] = Started(j, jobs[j].attempts + 1)]
           /\ spent' = IF Exhausted(jobs[j].attempts + 1) THEN spent
                       ELSE [spent EXCEPT ![j] = @ + 1]
  <2>1. /\ runs'[r] = Started(j, jobs[j].attempts + 1) /\ runs'[r].job = j
        /\ \A q \in Runners \ {r} : runs'[q] = runs[q]
    BY <1>2, <1>7, ClaimedLemma DEF SimInv, BudgetInv, TypeOK
  <2>2. \A i \in Jobs \ {j} : Stage(i)' = Stage(i)
    BY <1>2, <1>3, <2>1, OtherJobs DEF Executes, Works
  <2>3. CASE Exhausted(jobs[j].attempts + 1)
    <3>1. runs'[r].result = "exhausted" /\ UNCHANGED spent
      BY <1>7, <2>1, <2>3 DEF Started
    <3>2. \A q \in Runners : ~ Executes(q, j)'
      BY <1>4, <2>1, <3>1 DEF Executes, Works
    <3>3. Stage(j)' = "waiting"
      BY <1>3, <3>2, RestingNext
    <3> QED
      BY <1>5, <2>2, <3>1, <3>3, StutterLemma
  <2>4. CASE ~ Exhausted(jobs[j].attempts + 1)
    <3>1. runs'[r].phase = "handling" /\ runs'[r].result = "none"
      BY <2>1, <2>4 DEF Started
    <3>2. Stage(j)' = "executing"
      BY <2>1, <3>1, ExecutingLemma DEF Executes, Works
    <3>3. Lifecycle!Move({j}, "waiting", "executing")
      BY <1>5, <2>2, <3>2, MoveLemma
    <3>4. spent[j] < MaxAttempts /\ spent' = [spent EXCEPT ![j] = @ + 1]
      BY <1>2, <1>7, <2>4, BoundAssumption
      DEF Exhausted, SimInv, BudgetInv, Charged, TypeOK, Doc
    <3> QED
      BY <3>3, <3>4 DEF Lifecycle!Next, Lifecycle!Execute
  <2> QED
    BY <2>3, <2>4
<1> QED
  BY <1>1, <1>6, <1>7

\* Steps by which no status changes, and nobody takes up or lays down a job.
LEMMA QuietLemma ==
  ASSUME SimInv,
         \/ \E r \in Runners : Beat(r) \/ Finish(r) \/ Return(r)
         \/ \E p \in Procs : Stop(p) \/ Exit(p) \/ Restart(p)
         \/ Tick
  PROVE  /\ UNCHANGED spent
         /\ \A j \in Jobs : jobs'[j].status = jobs[j].status
         /\ \A j \in Jobs, q \in Runners : Executes(q, j)' <=> Executes(q, j)
<1>1. UNCHANGED spent
  BY DEF Beat, Finish, Return, Stop, Exit, Restart, Tick
<1>2. ASSUME NEW j \in Jobs PROVE jobs'[j].status = jobs[j].status
  <2>1. jobs[j] \in Doc
    BY DEF SimInv, BudgetInv, TypeOK
  <2>2. CASE \E r \in Runners : Beat(r)
    BY <2>1, <2>2 DEF Beat, SimInv, BudgetInv, TypeOK, Doc
  <2>3. CASE Tick
    BY <2>1, <2>3 DEF Tick, Doc
  <2> QED
    BY <2>2, <2>3 DEF Finish, Return, Stop, Exit, Restart
<1>3. ASSUME NEW j \in Jobs, NEW q \in Runners PROVE Executes(q, j)' <=> Executes(q, j)
  <2>1. runs \in [Runners -> Run] /\ runs[q] \in Run /\ Idle.phase = "idle"
    BY IdleLemma DEF SimInv, BudgetInv, TypeOK
  <2>2. CASE \E r \in Runners : Beat(r)
    BY <2>1, <2>2 DEF Beat, Executes, Works, Run
  <2>3. CASE \E r \in Runners : Finish(r)
    <3>1. PICK r \in Runners, res \in {"ok", "permanent", "error"} :
            /\ runs[r].phase = "handling"
            /\ runs' = [runs EXCEPT ![r].phase = "writing", ![r].result = res,
                                    ![r].runAt = Backoff[runs[r].attempt]]
      BY <2>3 DEF Finish
    <3>2. CASE q = r
      <4>1. runs'[q].phase = "writing" /\ runs'[q].result = res /\ runs'[q].job = runs[q].job
        BY <2>1, <3>1, <3>2 DEF Run
      <4>2. runs[q].phase = "handling" /\ runs[q].result = "none"
        BY <3>1, <3>2 DEF SimInv, OpenResult
      <4> QED
        BY <4>1, <4>2 DEF Executes, Works
    <3>3. CASE q # r
      BY <2>1, <3>1, <3>3 DEF Executes, Works
    <3> QED
      BY <3>2, <3>3
  <2>4. CASE \E r \in Runners : Return(r)
    BY <2>1, <2>4 DEF Return, Executes, Works
  <2>5. CASE Tick
    BY <2>1, <2>5 DEF Tick, Executes, Works, Run
  <2>6. CASE UNCHANGED runs
    BY <2>6 DEF Executes, Works
  <2> QED
    BY <2>2, <2>3, <2>4, <2>5, <2>6 DEF Stop, Exit, Restart
<1> QED
  BY <1>1, <1>2, <1>3

LEMMA QuietStep ==
  ASSUME SimInv,
         \/ \E r \in Runners : Beat(r) \/ Finish(r) \/ Return(r)
         \/ \E p \in Procs : Stop(p) \/ Exit(p) \/ Restart(p)
         \/ Tick
  PROVE  UNCHANGED Lifecycle!vars
BY QuietLemma, SameStage, StutterLemma

\* The goroutine of slot r, the one at work on job j, lays it down.
LEMMA LayDownLemma ==
  ASSUME SimInv, NEW r \in Runners, NEW j \in Jobs, Works(r, j),
         runs'[r].phase \in {"idle", "rescheduled"},
         \A q \in Runners \ {r} : runs'[q] = runs[q],
         \A i \in Jobs \ {j} : jobs'[i].status = jobs[i].status
  PROVE  /\ Stage(j) = IF runs[r].result = "exhausted" THEN "waiting" ELSE "executing"
         /\ jobs'[j].status \in {"pending", "running"} => Stage(j)' = "waiting"
         /\ jobs'[j].status \in Terminal => Stage(j)' = "ended"
         /\ \A i \in Jobs \ {j} : Stage(i)' = Stage(i)
<1>1. jobs[j].status = "running" /\ \A q \in Runners : Works(q, j) => q = r
  BY WorkingLemma
<1>2. \A q \in Runners : ~ Executes(q, j)'
  BY <1>1 DEF Executes, Works
<1>3. Stage(j) = IF runs[r].result = "exhausted" THEN "waiting" ELSE "executing"
  <2>1. CASE runs[r].result = "exhausted"
    <3>1. \A q \in Runners : ~ Executes(q, j)
      BY <1>1, <2>1 DEF Executes
    <3> QED
      BY <1>1, <2>1, <3>1, RestingLemma
  <2>2. CASE runs[r].result # "exhausted"
    BY <2>2, ExecutingLemma DEF Executes
  <2> QED
    BY <2>1, <2>2
<1>4. \A i \in Jobs \ {j} : Stage(i)' = Stage(i)
  BY OtherJobs DEF Executes, Works
<1> QED
  BY <1>2, <1>3, <1>4, RestingNext

LEMMA RescheduleStep ==
  ASSUME SimInv, NEW r \in Runners, Reschedule(r)
  PROVE  Lifecycle!Next
<1> SUFFICES ASSUME NEW j \in Jobs, j = runs[r].job PROVE Lifecycle!Next
  BY DEF SimInv, BudgetInv, TypeOK, Run
<1>1. /\ runs[r] \in Run /\ jobs[j] \in Doc /\ spent[j] \in Nat
      /\ Works(r, j) /\ runs[r].result = "none"
  BY DEF Reschedule, Works, SimInv, OpenResult, BudgetInv, TypeOK, Run
<1>2. PICK d \in Delays : jobs' = [jobs EXCEPT ![j] = Rescheduled(jobs[j], d)]
  BY DEF Reschedule
<1>3. Rescheduled(jobs[j], d).status = "pending"
  BY <1>1 DEF Rescheduled, Doc
<1>4. /\ jobs'[j].status = "pending" /\ \A i \in Jobs \ {j} : jobs'[i] = jobs[i]
      /\ runs'[r].phase = "rescheduled" /\ \A q \in Runners \ {r} : runs'[q] = runs[q]
      /\ spent' = [spent EXCEPT ![j] = spent[j] - 1]
  BY <1>1, <1>2, <1>3 DEF Reschedule, SimInv, BudgetInv, TypeOK, Run
<1>5. /\ Stage(j) = "executing" /\ Stage(j)' = "waiting"
      /\ \A i \in Jobs \ {j} : Stage(i)' = Stage(i)
  BY <1>1, <1>4, LayDownLemma
<1> QED
  <2>1. Lifecycle!Move({j}, "executing", "waiting")
    BY <1>5, MoveLemma
  <2> QED
    BY <1>4, <2>1 DEF Lifecycle!Next, Lifecycle!Postpone

LEMMA WriteStep ==
  ASSUME SimInv, NEW r \in Runners, WriteResult(r) \/ LoseWrite(r)
  PROVE  Lifecycle!Next \/ UNCHANGED Lifecycle!vars
<1> SUFFICES ASSUME NEW j \in Jobs, j = runs[r].job
             PROVE  Lifecycle!Next \/ UNCHANGED Lifecycle!vars
  BY DEF SimInv, BudgetInv, TypeOK, Run
<1>1. /\ runs[r] \in Run /\ jobs[j] \in Doc /\ Works(r, j) /\ UNCHANGED spent
      /\ runs[r].result \in {"ok", "error", "permanent", "exhausted"}
  BY DEF WriteResult, LoseWrite, Works, SimInv, BudgetInv, TypeOK, Run, Results, RunOK
<1>2. jobs[j].status = "running"
  BY <1>1, WorkingLemma
<1>3. runs'[r].phase = "idle" /\ \A q \in Runners \ {r} : runs'[q] = runs[q]
  BY IdleLemma DEF WriteResult, LoseWrite, SimInv, BudgetInv, TypeOK
<1>4. \A i \in Jobs \ {j} : jobs'[i] = jobs[i]
  BY DEF WriteResult, LoseWrite, SimInv, BudgetInv, TypeOK
<1>5. \/ jobs'[j].status = CASE runs[r].result = "ok" -> "done"
                            [] runs[r].result = "error" -> "pending"
                            [] OTHER -> "failed"
      \/ jobs'[j].status = "running"
  <2>1. CASE WriteResult(r)
    <3>1. jobs'[j] = Outcome(jobs[j], runs[r])
      BY <2>1 DEF WriteResult, SimInv, BudgetInv, TypeOK
    <3>2. /\ Completed(jobs[j]).status = "done" /\ Failed(jobs[j]).status = "failed"
          /\ Retried(jobs[j], runs[r].runAt).status = "pending"
      BY <1>1 DEF Completed, Failed, Retried, Doc
    <3> QED
      BY <1>1, <3>1, <3>2 DEF Outcome
  <2>2. CASE LoseWrite(r)
    BY <1>2, <2>2 DEF LoseWrite
  <2> QED
    BY <2>1, <2>2
<1>6. /\ Stage(j) = IF runs[r].result = "exhausted" THEN "waiting" ELSE "executing"
      /\ jobs'[j].status \in {"pending", "running"} => Stage(j)' = "waiting"
      /\ jobs'[j].status \in Terminal => Stage(j)' = "ended"
      /\ \A i \in Jobs \ {j} : Stage(i)' = Stage(i)
  BY <1>1, <1>3, <1>4, LayDownLemma
<1>7. CASE Stage(j) = "executing" /\ Stage(j)' = "waiting"
  <2>1. Lifecycle!Move({j}, "executing", "waiting")
    BY <1>6, <1>7, MoveLemma
  <2>2. {j} \in SUBSET Jobs
    OBVIOUS
  <2> QED
    BY <1>1, <2>1, <2>2 DEF Lifecycle!Next, Lifecycle!Release
<1>8. CASE Stage(j) = "executing" /\ Stage(j)' = "ended"
  <2>1. Lifecycle!Move({j}, "executing", "ended")
    BY <1>6, <1>8, MoveLemma
  <2>2. {j} \in SUBSET Jobs
    OBVIOUS
  <2> QED
    BY <1>1, <2>1, <2>2 DEF Lifecycle!Next, Lifecycle!Settle
<1>9. CASE Stage(j) = "waiting" /\ Stage(j)' = "ended"
  <2>1. Lifecycle!Move({j}, "waiting", "ended")
    BY <1>6, <1>9, MoveLemma
  <2>2. {j} \in SUBSET Jobs
    OBVIOUS
  <2> QED
    BY <1>1, <2>1, <2>2 DEF Lifecycle!Next, Lifecycle!GiveUp
<1>10. CASE Stage(j) = "waiting" /\ Stage(j)' = "waiting"
  BY <1>1, <1>6, <1>10, StutterLemma
<1> QED
  BY <1>5, <1>6, <1>7, <1>8, <1>9, <1>10 DEF Terminal

\* The jobs that the goroutines of a process were at are released together.
LEMMA CrashStep ==
  ASSUME SimInv, NEW p \in Procs, Crash(p)
  PROVE  Lifecycle!Next \/ UNCHANGED Lifecycle!vars
<1> DEFINE S == {j \in Jobs : \E r \in Runners : r[1] = p /\ Executes(r, j)}
<1>1. /\ \A r \in Runners : runs'[r] = IF r[1] = p THEN Idle ELSE runs[r]
      /\ Idle.phase = "idle" /\ UNCHANGED <<jobs, spent>>
  BY IdleLemma DEF Crash
<1>2. ASSUME NEW j \in S PROVE Stage(j) = "executing" /\ Stage(j)' = "waiting"
  <2>1. PICK r \in Runners : r[1] = p /\ Executes(r, j)
    OBVIOUS
  <2>2. jobs[j].status = "running" /\ \A q \in Runners : Works(q, j) => q = r
    BY <2>1, WorkingLemma DEF Executes
  <2>3. \A q \in Runners : ~ Executes(q, j)'
    BY <1>1, <2>1, <2>2 DEF Executes, Works
  <2> QED
    BY <1>1, <2>1, <2>2, <2>3, RestingNext, ExecutingLemma
<1>3. ASSUME NEW j \in Jobs \ S PROVE Stage(j)' = Stage(j)
  <2>1. \A q \in Runners : Executes(q, j)' <=> Executes(q, j)
    BY <1>1 DEF Executes, Works
  <2> QED
    BY <1>1, <2>1, SameStage
<1>4. S \in SUBSET Jobs
  OBVIOUS
<1> HIDE DEF S
<1>5. CASE S # {}
  <2>1. Lifecycle!Move(S, "executing", "waiting")
    BY <1>2, <1>3, <1>4, <1>5, MoveLemma
  <2> QED
    BY <1>1, <1>4, <2>1 DEF Lifecycle!Next, Lifecycle!Release
<1>6. CASE S = {}
  BY <1>1, <1>3, <1>6, StutterLemma
<1> QED
  BY <1>5, <1>6

-----------------------------------------------------------------------------
(* The refinement.                                                         *)

LEMMA InitStep == Init => Lifecycle!Init
<1> SUFFICES ASSUME Init PROVE Lifecycle!Init
  OBVIOUS
<1>1. \A r \in Runners, j \in Jobs : ~ Executes(r, j)
  BY IdleLemma DEF Init, Executes, Works
<1>2. \A j \in Jobs : Stage(j) = "absent"
  BY <1>1, RestingLemma DEF Init, Absent
<1> QED
  BY <1>2 DEF Lifecycle!Init, Init

LEMMA NextStep == PromptHeartbeats /\ SimInv /\ [Next]_vars => [Lifecycle!Next]_(Lifecycle!vars)
<1> SUFFICES ASSUME PromptHeartbeats, SimInv, [Next]_vars
             PROVE  Lifecycle!Next \/ UNCHANGED Lifecycle!vars
  OBVIOUS
<1>1. CASE UNCHANGED vars
  BY <1>1, SameStage, StutterLemma DEF vars, Executes, Works
<1>2. CASE Next
  <2>1. \A r \in Runners : ~ LoseHeartbeat(r)
    BY DEF PromptHeartbeats, LoseHeartbeat, Disturb
  <2> QED
    BY <1>2, <2>1, SubmitStep, CancelStep, ClaimStep, QuietStep, RescheduleStep, WriteStep,
       CrashStep
    DEF Next
<1> QED
  BY <1>1, <1>2

LEMMA InitOpen == Init => OpenResult
BY IdleLemma DEF Init, OpenResult

LEMMA NextOpen == TypeOK /\ OpenResult /\ [Next]_vars => OpenResult'
<1> SUFFICES ASSUME TypeOK, OpenResult, [Next]_vars, NEW q \in Runners,
                    runs'[q].phase = "handling"
             PROVE  runs'[q].result = "none"
  BY DEF OpenResult
<1>1. runs \in [Runners -> Run] /\ runs[q] \in Run /\ Idle.phase = "idle"
  BY IdleLemma DEF TypeOK
<1>2. CASE UNCHANGED runs
  BY <1>2 DEF OpenResult
<1>3. ASSUME NEW r \in Runners, Claim(r) PROVE runs'[q].result = "none"
  <2>1. PICK j \in Jobs : runs' = [runs EXCEPT ![r] = Started(j, jobs[j].attempts + 1)]
    BY <1>3 DEF Claim
  <2> QED
    BY <1>1, <2>1 DEF Started, OpenResult
<1>4. ASSUME NEW r \in Runners,
             \/ Beat(r) \/ LoseHeartbeat(r) \/ Finish(r) \/ Reschedule(r) \/ Return(r)
             \/ WriteResult(r) \/ LoseWrite(r)
      PROVE  runs'[q].result = "none"
  BY <1>1, <1>4
  DEF Beat, LoseHeartbeat, Finish, Reschedule, Return, WriteResult, LoseWrite, OpenResult, Run
<1>5. ASSUME NEW p \in Procs, Crash(p) PROVE runs'[q].result = "none"
  BY <1>1, <1>5 DEF Crash, OpenResult
<1>6. CASE Tick
  BY <1>1, <1>6 DEF Tick, OpenResult, Run
<1> QED
  BY <1>2, <1>3, <1>4, <1>5, <1>6
  DEF Next, vars, Enqueue, CancelByEvent, LoseClaim, Stop, Exit, Restart

\* The queue implements the life of a job: with leases, retries, crashes, stops
\* and lost writes and claims, no step of it does what JobLifecycle forbids
\* (jobs.go, worker.go).
THEOREM Refinement ==
  ASSUME PromptHeartbeats
  PROVE  Spec => ImplementsLifecycle
<1>1. Init => SimInv
  BY InitBudget, InitLease, InitOpen DEF SimInv
<1>2. SimInv /\ [Next]_vars => SimInv'
  BY NextBudget, NextLease, NextOpen DEF SimInv, BudgetInv
<1>3. SimInv /\ [Next]_vars => [Lifecycle!Next]_(Lifecycle!vars)
  BY NextStep
<1> QED
  BY <1>1, <1>2, <1>3, InitStep, PTL DEF Spec, ImplementsLifecycle, Lifecycle!Spec

-----------------------------------------------------------------------------
(* Steps of JobContract.                                                   *)

\* Job j and who is at work on it change, all other jobs and goroutines stay.
LEMMA BecomeLemma ==
  ASSUME NEW j \in Jobs, NEW s, NEW h \in BOOLEAN,
         jobs'[j].status = s, Executing(j)' <=> h,
         \A i \in Jobs \ {j} : /\ jobs'[i].status = jobs[i].status
                               /\ Executing(i)' <=> Executing(i)
  PROVE  Contract!Become(j, s, h)
<1>1. [i \in Jobs |-> jobs'[i].status] = [[i \in Jobs |-> jobs[i].status] EXCEPT ![j] = s]
  OBVIOUS
<1>2. [i \in Jobs |-> Executing(i)'] = [[i \in Jobs |-> Executing(i)] EXCEPT ![j] = h]
  <2>1. \A i \in Jobs : Executing(i) \in BOOLEAN /\ Executing(i)' \in BOOLEAN
    BY DEF Executing
  <2>2. \A i \in Jobs : Executing(i)' = (IF i = j THEN h ELSE Executing(i))
    BY <2>1
  <2> QED
    BY <2>2, Zenon
<1> QED
  BY <1>1, <1>2 DEF Contract!Become

LEMMA DatedLemma ==
  ASSUME NEW j \in Jobs, \A i \in Jobs \ {j} : jobs'[i].runAt = jobs[i].runAt
  PROVE  Contract!Dated(j)
<1> DEFINE d == jobs'[j].runAt <= 0
<1>1. [i \in Jobs |-> jobs'[i].runAt <= 0]
        = [[i \in Jobs |-> jobs[i].runAt <= 0] EXCEPT ![j] = d]
  OBVIOUS
<1>2. d \in BOOLEAN
  OBVIOUS
<1> HIDE DEF d
<1> QED
  BY <1>1, <1>2 DEF Contract!Dated

LEMMA DatesKept ==
  ASSUME \A i \in Jobs : jobs'[i].runAt = jobs[i].runAt
  PROVE  UNCHANGED [i \in Jobs |-> jobs[i].runAt <= 0]
OBVIOUS

\* Nobody is at work on a job that nobody executes; whoever executes it is.
LEMMA HeldLemma ==
  ASSUME NEW j \in Jobs
  PROVE  /\ Executing(j) <=> \E r \in Runners : Executes(r, j)
         /\ Executing(j)' <=> \E r \in Runners : Executes(r, j)'
BY DEF Executing, Executes

\* Nobody takes up or lays down a job but goroutine r the job j.
LEMMA OthersHeld ==
  ASSUME NEW r \in Runners, NEW j \in Jobs,
         \A q \in Runners \ {r} : runs'[q] = runs[q],
         \A i \in Jobs \ {j} : ~ Executes(r, i) /\ ~ Executes(r, i)'
  PROVE  \A i \in Jobs \ {j} : Executing(i)' <=> Executing(i)
<1> SUFFICES ASSUME NEW i \in Jobs \ {j} PROVE Executing(i)' <=> Executing(i)
  OBVIOUS
<1>1. \A q \in Runners : Executes(q, i)' <=> Executes(q, i)
  BY DEF Executes, Works
<1> QED
  BY <1>1, HeldLemma

LEMMA SameHeld ==
  ASSUME \A i \in Jobs, q \in Runners : Executes(q, i)' <=> Executes(q, i)
  PROVE  \A i \in Jobs : Executing(i)' <=> Executing(i)
BY HeldLemma

\* No status changes, and nobody takes up or lays down a job.
LEMMA QuietHeld ==
  ASSUME \A i \in Jobs : jobs'[i].status = jobs[i].status,
         \A i \in Jobs : Executing(i)' <=> Executing(i)
  PROVE  UNCHANGED <<[i \in Jobs |-> jobs[i].status], [i \in Jobs |-> Executing(i)]>>
<1>1. \A i \in Jobs : Executing(i) \in BOOLEAN /\ Executing(i)' \in BOOLEAN
  BY DEF Executing
<1>2. \A i \in Jobs : Executing(i)' = Executing(i)
  BY <1>1
<1>3. [i \in Jobs |-> Executing(i)'] = [i \in Jobs |-> Executing(i)]
  BY <1>2, Zenon
<1> QED
  BY <1>3

LEMMA EnqueueContract ==
  ASSUME SimInv, NEW j \in Jobs, NEW d \in Delays, Enqueue(j, d)
  PROVE  Contract!Next
<1>1. /\ jobs[j].status = "absent" /\ jobs'[j].status = "pending"
      /\ \A i \in Jobs \ {j} : jobs'[i] = jobs[i]
      /\ UNCHANGED runs
  BY DEF Enqueue, SimInv, BudgetInv, TypeOK
<1>2. \A r \in Runners : ~ Executes(r, j) /\ ~ Executes(r, j)'
  BY <1>1, WorkingLemma DEF Executes, Works
<1>3. ~ Executing(j)'
  BY <1>2, HeldLemma
<1>4. \A i \in Jobs, q \in Runners : Executes(q, i)' <=> Executes(q, i)
  BY <1>1 DEF Executes, Works
<1>5. \A i \in Jobs \ {j} : Executing(i)' <=> Executing(i)
  BY <1>4, SameHeld
<1>6. Contract!Become(j, "pending", FALSE)
  BY <1>1, <1>3, <1>5, BecomeLemma
<1>7. Contract!Dated(j)
  BY <1>1, DatedLemma
<1>8. Contract!Enqueue(j)
  BY <1>1, <1>6, <1>7 DEF Contract!Enqueue
<1> QED
  BY <1>8 DEF Contract!Next

LEMMA CancelContract ==
  ASSUME SimInv, NEW e \in Events, NEW K \in SUBSET Kinds, CancelByEvent(e, K)
  PROVE  Contract!Next
<1>1. /\ UNCHANGED runs
      /\ \A i \in Jobs : jobs'[i].runAt = jobs[i].runAt
      /\ \A i \in Jobs : \/ jobs'[i].status = jobs[i].status
                         \/ jobs[i].status = "pending" /\ jobs'[i].status = "canceled"
  BY DEF CancelByEvent, Cancelled, SimInv, BudgetInv, TypeOK, Doc
<1>2. \A i \in Jobs, q \in Runners : Executes(q, i)' <=> Executes(q, i)
  BY <1>1 DEF Executes, Works
<1>3. [i \in Jobs |-> Executing(i)'] = [i \in Jobs |-> Executing(i)]
  <2>1. \A i \in Jobs : Executing(i) \in BOOLEAN /\ Executing(i)' \in BOOLEAN
    BY DEF Executing
  <2>2. \A i \in Jobs : Executing(i)' = Executing(i)
    BY <1>2, <2>1, SameHeld
  <2> QED
    BY <2>2, Zenon
<1>4. [i \in Jobs |-> jobs'[i].status] \in [Jobs -> Contract!Statuses]
  <2>1. \A i \in Jobs : jobs[i].status \in Statuses
    BY DEF SimInv, BudgetInv, TypeOK, Doc
  <2> QED
    BY <1>1, <2>1 DEF Contract!Statuses, Statuses
<1>5. Contract!Cancel
  BY <1>1, <1>3, <1>4, DatesKept DEF Contract!Cancel
<1> QED
  BY <1>5 DEF Contract!Next

\* A claim takes the job up, unless its attempts are used up or its answer is
\* lost.
LEMMA ClaimContract ==
  ASSUME SimInv, NEW r \in Runners, Claim(r) \/ LoseClaim(r)
  PROVE  Contract!Next
<1>1. PICK j \in Jobs :
        /\ Claimable(j)
        /\ jobs' = [jobs EXCEPT ![j] = Claimed(jobs[j])]
        /\ \/ runs' = runs
           \/ runs' = [runs EXCEPT ![r] = Started(j, jobs[j].attempts + 1)]
  BY DEF Claim, LoseClaim, Earliest
<1>2. jobs[j] \in Doc /\ runs[r].phase = "idle"
  BY DEF SimInv, BudgetInv, TypeOK, Claim, LoseClaim
<1>3. /\ jobs'[j].status = "running" /\ jobs'[j].runAt = jobs[j].runAt
      /\ \A i \in Jobs \ {j} : jobs'[i] = jobs[i]
  <2>1. Claimed(jobs[j]).runAt = jobs[j].runAt
    BY <1>2 DEF Claimed, Doc
  <2> QED
    BY <1>1, <1>2, <2>1, ClaimedLemma DEF SimInv, BudgetInv, TypeOK
<1>4. \A q \in Runners : ~ Works(q, j)
  BY <1>1, ClaimableFree DEF SimInv, BudgetInv
<1>5. ~ Executing(j)
  BY <1>4, HeldLemma DEF Executes
<1>6. Contract!Takeable(j)
  BY <1>1, <1>5 DEF Contract!Takeable, Claimable
<1>7. \A q \in Runners \ {r} : runs'[q] = runs[q]
  BY <1>1, <1>2 DEF SimInv, BudgetInv, TypeOK
<1>8. \A i \in Jobs \ {j} : ~ Executes(r, i) /\ ~ Executes(r, i)'
  <2>1. runs'[r] = runs[r] \/ runs'[r].job = j
    BY <1>1, <1>2, ClaimedLemma DEF SimInv, BudgetInv, TypeOK
  <2> QED
    BY <1>2, <2>1 DEF Executes, Works
<1>9. \A i \in Jobs \ {j} : Executing(i)' <=> Executing(i)
  BY <1>7, <1>8, OthersHeld
<1>10. UNCHANGED [i \in Jobs |-> jobs[i].runAt <= 0]
  BY <1>3, DatesKept
<1>11. CASE Executing(j)'
  <2>1. Contract!Become(j, "running", TRUE)
    BY <1>3, <1>9, <1>11, BecomeLemma
  <2>2. Contract!TakeUp(j)
    BY <1>6, <1>10, <2>1 DEF Contract!TakeUp
  <2> QED
    BY <2>2 DEF Contract!Next
<1>12. CASE ~ Executing(j)'
  <2>1. Contract!Become(j, "running", FALSE)
    BY <1>3, <1>9, <1>12, BecomeLemma
  <2>2. Contract!ClaimInVain(j)
    BY <1>6, <1>10, <2>1 DEF Contract!ClaimInVain
  <2> QED
    BY <2>2 DEF Contract!Next
<1> QED
  BY <1>11, <1>12

LEMMA QuietContract ==
  ASSUME SimInv,
         \/ \E r \in Runners : Beat(r) \/ Finish(r) \/ Return(r)
         \/ \E p \in Procs : Stop(p) \/ Exit(p) \/ Restart(p)
  PROVE  UNCHANGED Contract!vars
<1>1. /\ \A i \in Jobs : jobs'[i].status = jobs[i].status
      /\ \A i \in Jobs, q \in Runners : Executes(q, i)' <=> Executes(q, i)
  BY QuietLemma
<1>2. \A i \in Jobs : jobs'[i].runAt = jobs[i].runAt
  <2>1. CASE \E r \in Runners : Beat(r)
    BY <2>1 DEF Beat, SimInv, BudgetInv, TypeOK, Doc
  <2> QED
    BY <2>1 DEF Finish, Return, Stop, Exit, Restart
<1>3. \A i \in Jobs : Executing(i)' <=> Executing(i)
  BY <1>1, SameHeld
<1> QED
  BY <1>1, <1>2, <1>3, QuietHeld, DatesKept DEF Contract!vars

LEMMA TickContract ==
  ASSUME SimInv, Tick
  PROVE  Contract!Next
<1>1. /\ \A i \in Jobs : jobs'[i].status = jobs[i].status
      /\ \A i \in Jobs, q \in Runners : Executes(q, i)' <=> Executes(q, i)
  BY QuietLemma
<1>2. \A i \in Jobs : Executing(i)' <=> Executing(i)
  BY <1>1, SameHeld
<1>3. ASSUME NEW i \in Jobs, jobs[i].runAt <= 0 PROVE jobs'[i].runAt <= 0
  <2>1. jobs[i] \in Doc /\ jobs'[i].runAt = Nearer(jobs[i].runAt, -Late)
    BY DEF SimInv, BudgetInv, TypeOK, Tick, Doc
  <2> QED
    BY <1>3, <2>1 DEF Nearer, Doc
<1>4. Contract!Pass
  <2>1. [i \in Jobs |-> jobs'[i].runAt <= 0] \in [Jobs -> BOOLEAN]
    OBVIOUS
  <2> QED
    BY <1>1, <1>2, <1>3, <2>1, QuietHeld DEF Contract!Pass
<1> QED
  BY <1>4 DEF Contract!Next

\* The goroutine of slot r, the one at work on job j, lays it down.
LEMMA LaidDown ==
  ASSUME SimInv, NEW r \in Runners, NEW j \in Jobs, Works(r, j),
         runs'[r].phase \in {"idle", "rescheduled"},
         \A q \in Runners \ {r} : runs'[q] = runs[q]
  PROVE  /\ jobs[j].status = "running"
         /\ Executing(j) <=> runs[r].result # "exhausted"
         /\ ~ Executing(j)'
         /\ \A i \in Jobs \ {j} : Executing(i)' <=> Executing(i)
<1>1. jobs[j].status = "running" /\ \A q \in Runners : Works(q, j) => q = r
  BY WorkingLemma
<1>2. \A q \in Runners : ~ Executes(q, j)'
  BY <1>1 DEF Executes, Works
<1>3. \A q \in Runners : Executes(q, j) <=> q = r /\ runs[r].result # "exhausted"
  BY <1>1 DEF Executes
<1>4. \A i \in Jobs \ {j} : ~ Executes(r, i) /\ ~ Executes(r, i)'
  BY DEF Executes, Works
<1> QED
  BY <1>1, <1>2, <1>3, <1>4, HeldLemma, OthersHeld

LEMMA RescheduleContract ==
  ASSUME SimInv, NEW r \in Runners, Reschedule(r)
  PROVE  Contract!Next
<1> SUFFICES ASSUME NEW j \in Jobs, j = runs[r].job PROVE Contract!Next
  BY DEF SimInv, BudgetInv, TypeOK, Run
<1>1. runs[r] \in Run /\ jobs[j] \in Doc /\ Works(r, j) /\ runs[r].result = "none"
  BY DEF Reschedule, Works, SimInv, OpenResult, BudgetInv, TypeOK, Run
<1>2. PICK d \in Delays : jobs' = [jobs EXCEPT ![j] = Rescheduled(jobs[j], d)]
  BY DEF Reschedule
<1>3. Rescheduled(jobs[j], d).status = "pending"
  BY <1>1 DEF Rescheduled, Doc
<1>4. /\ jobs'[j].status = "pending" /\ \A i \in Jobs \ {j} : jobs'[i] = jobs[i]
      /\ runs'[r].phase = "rescheduled" /\ \A q \in Runners \ {r} : runs'[q] = runs[q]
  BY <1>1, <1>2, <1>3 DEF Reschedule, SimInv, BudgetInv, TypeOK, Run
<1>5. /\ jobs[j].status = "running" /\ Executing(j) /\ ~ Executing(j)'
      /\ \A i \in Jobs \ {j} : Executing(i)' <=> Executing(i)
  BY <1>1, <1>4, LaidDown
<1>6. Contract!Become(j, "pending", FALSE)
  BY <1>4, <1>5, BecomeLemma
<1>7. Contract!Dated(j)
  BY <1>4, DatedLemma
<1>8. Contract!PutBack(j)
  BY <1>5, <1>6, <1>7 DEF Contract!PutBack, Contract!AtWork
<1> QED
  BY <1>8 DEF Contract!Next

LEMMA WriteContract ==
  ASSUME SimInv, NEW r \in Runners, WriteResult(r)
  PROVE  Contract!Next
<1> SUFFICES ASSUME NEW j \in Jobs, j = runs[r].job PROVE Contract!Next
  BY DEF SimInv, BudgetInv, TypeOK, Run
<1>1. /\ runs[r] \in Run /\ jobs[j] \in Doc /\ Works(r, j)
      /\ runs[r].result \in {"ok", "error", "permanent", "exhausted"}
  BY DEF WriteResult, Works, SimInv, BudgetInv, TypeOK, Run, Results, RunOK
<1>2. /\ runs'[r].phase = "idle" /\ \A q \in Runners \ {r} : runs'[q] = runs[q]
      /\ jobs'[j] = Outcome(jobs[j], runs[r])
      /\ \A i \in Jobs \ {j} : jobs'[i] = jobs[i]
  BY IdleLemma DEF WriteResult, SimInv, BudgetInv, TypeOK
<1>3. /\ jobs[j].status = "running" /\ ~ Executing(j)'
      /\ Executing(j) <=> runs[r].result # "exhausted"
      /\ \A i \in Jobs \ {j} : Executing(i)' <=> Executing(i)
  BY <1>1, <1>2, LaidDown
<1>4. /\ Completed(jobs[j]).status = "done" /\ Completed(jobs[j]).runAt = jobs[j].runAt
      /\ Failed(jobs[j]).status = "failed" /\ Failed(jobs[j]).runAt = jobs[j].runAt
      /\ Retried(jobs[j], runs[r].runAt).status = "pending"
  BY <1>1 DEF Completed, Failed, Retried, Doc
<1>5. CASE runs[r].result = "error"
  <2>1. jobs'[j].status = "pending"
    BY <1>2, <1>4, <1>5 DEF Outcome
  <2>2. Contract!Become(j, "pending", FALSE)
    BY <1>2, <1>3, <2>1, BecomeLemma
  <2>3. Contract!Dated(j)
    BY <1>2, DatedLemma
  <2>4. Contract!PutBack(j)
    BY <1>3, <1>5, <2>2, <2>3 DEF Contract!PutBack, Contract!AtWork
  <2> QED
    BY <2>4 DEF Contract!Next
<1>6. CASE runs[r].result \in {"ok", "permanent"}
  <2>1. PICK s \in {"done", "failed"} : jobs'[j].status = s /\ jobs'[j].runAt = jobs[j].runAt
    BY <1>2, <1>4, <1>6 DEF Outcome
  <2>2. Contract!Become(j, s, FALSE)
    BY <1>2, <1>3, <2>1, BecomeLemma
  <2>3. UNCHANGED [i \in Jobs |-> jobs[i].runAt <= 0]
    BY <1>2, <2>1, DatesKept
  <2>4. Contract!Settle(j)
    BY <1>3, <1>6, <2>2, <2>3 DEF Contract!Settle, Contract!AtWork
  <2> QED
    BY <2>4 DEF Contract!Next
<1>7. CASE runs[r].result = "exhausted"
  <2>1. jobs'[j].status = "failed" /\ jobs'[j].runAt = jobs[j].runAt
    BY <1>2, <1>4, <1>7 DEF Outcome
  <2>2. Contract!Become(j, "failed", FALSE)
    BY <1>2, <1>3, <2>1, BecomeLemma
  <2>3. UNCHANGED [i \in Jobs |-> jobs[i].runAt <= 0]
    BY <1>2, <2>1, DatesKept
  <2>4. Contract!GiveUp(j)
    BY <1>3, <1>7, <2>2, <2>3 DEF Contract!GiveUp
  <2> QED
    BY <2>4 DEF Contract!Next
<1> QED
  BY <1>1, <1>5, <1>6, <1>7

\* Goroutines end, or are cut off, and the documents stay as they are.
LEMMA AbandonContract ==
  ASSUME UNCHANGED jobs,
         \A i \in Jobs, q \in Runners : Executes(q, i)' => Executes(q, i)
  PROVE  Contract!Next
<1>1. \A i \in Jobs : Executing(i)' => Executing(i)
  BY HeldLemma
<1>2. [i \in Jobs |-> Executing(i)'] \in [Jobs -> BOOLEAN]
  BY DEF Executing
<1>3. UNCHANGED <<[i \in Jobs |-> jobs[i].status], [i \in Jobs |-> jobs[i].runAt <= 0]>>
  OBVIOUS
<1>4. Contract!Abandon
  BY <1>1, <1>2, <1>3 DEF Contract!Abandon
<1> QED
  BY <1>4 DEF Contract!Next

LEMMA LoseContract ==
  ASSUME SimInv,
         \/ \E r \in Runners : LoseWrite(r)
         \/ \E p \in Procs : Crash(p)
  PROVE  Contract!Next
<1>1. \A q \in Runners : runs'[q] = runs[q] \/ runs'[q].phase = "idle"
  BY IdleLemma DEF LoseWrite, Crash, SimInv, BudgetInv, TypeOK
<1>2. \A i \in Jobs, q \in Runners : Executes(q, i)' => Executes(q, i)
  BY <1>1 DEF Executes, Works
<1>3. UNCHANGED jobs
  BY DEF LoseWrite, Crash
<1> QED
  BY <1>2, <1>3, AbandonContract

LEMMA InitContract == Init => Contract!Init
<1> SUFFICES ASSUME Init PROVE Contract!Init
  OBVIOUS
<1>1. \A i \in Jobs, r \in Runners : ~ Executes(r, i)
  BY IdleLemma DEF Init, Executes, Works
<1>2. \A i \in Jobs : Executing(i) = FALSE
  BY <1>1 DEF Executing, Executes
<1>3. [i \in Jobs |-> Executing(i)] = [i \in Jobs |-> FALSE]
  BY <1>2, Zenon
<1>4. [i \in Jobs |-> jobs[i].status] = [i \in Jobs |-> "absent"]
  BY DEF Init, Absent
<1>5. [i \in Jobs |-> jobs[i].runAt <= 0] \in [Jobs -> BOOLEAN]
  OBVIOUS
<1> QED
  BY <1>3, <1>4, <1>5 DEF Contract!Init

LEMMA NextContract == PromptHeartbeats /\ SimInv /\ [Next]_vars => [Contract!Next]_(Contract!vars)
<1> SUFFICES ASSUME PromptHeartbeats, SimInv, [Next]_vars
             PROVE  Contract!Next \/ UNCHANGED Contract!vars
  OBVIOUS
<1>1. CASE UNCHANGED vars
  <2>1. \A i \in Jobs : jobs'[i] = jobs[i] /\ (Executing(i)' <=> Executing(i))
    BY <1>1 DEF vars, Executing, Works
  <2> QED
    BY <2>1, QuietHeld, DatesKept DEF Contract!vars
<1>2. CASE Next
  <2>1. \A r \in Runners : ~ LoseHeartbeat(r)
    BY DEF PromptHeartbeats, LoseHeartbeat, Disturb
  <2> QED
    BY <1>2, <2>1, EnqueueContract, CancelContract, ClaimContract, QuietContract,
       TickContract, RescheduleContract, WriteContract, LoseContract
    DEF Next
<1> QED
  BY <1>1, <1>2

\* What the use cases take for granted of a job holds of the queue, whatever
\* processes crash or stop and whatever is lost on the way, as long as
\* heartbeats are in time (handler.go:51-113, worker.go:195-210).
THEOREM ContractKept ==
  ASSUME PromptHeartbeats
  PROVE  Spec => ImplementsContract
<1>1. Init => SimInv
  BY InitBudget, InitLease, InitOpen DEF SimInv
<1>2. SimInv /\ [Next]_vars => SimInv'
  BY NextBudget, NextLease, NextOpen DEF SimInv, BudgetInv
<1>3. SimInv /\ [Next]_vars => [Contract!Next]_(Contract!vars)
  BY NextContract
<1> QED
  BY <1>1, <1>2, <1>3, InitContract, PTL DEF Spec, ImplementsContract, Contract!Spec

=============================================================================
