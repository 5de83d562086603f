------------------------------ MODULE Reminders ------------------------------
(***************************************************************************)
(* The reminders of one event (internal/manager/usecase/reminder.go): the  *)
(* planning that follows its creation and every edit, and the jobs that    *)
(* post what was planned.                                                  *)
(*                                                                         *)
(* Requests are goroutines; each access to the database or the Provider is *)
(* one step.  The job queue is seen from outside, as JobContract has it:   *)
(* the executions of a job come one after another, and one that is cut off *)
(* is repeated, at once (the wait before it is left out).                  *)
(***************************************************************************)
EXTENDS ReminderPolicy

CONSTANTS
  Reqs,        \* the goroutines of the requests
  Policies,    \* the policies and the dates an event may be given
  Dates,
  Targets,     \* the channels a reminder is posted to, in their order
  OneAtATime,  \* requests do not overlap
  Prompt,      \* no time passes while a request plans
  MayClose,    \* the event may be closed
  Faults,      \* what may go wrong: "request", "post", "cut"
  CutPhases,   \* the phases in which an execution may be cut off
  MaxFaults,   \* bound: how often something goes wrong in a behaviour
  MaxEdits,    \* bound: how many edits and closings there are
  MaxSeq,      \* bound: the highest sequence number
  Horizon      \* bound: the time at which the clock stops

ASSUME EventAssumption ==
  /\ Policies \subseteq Policy /\ \A p \in Policies : Valid(p)
  /\ Dates \subseteq 1..Horizon
  /\ Reqs # {}
  /\ Targets \in Seq(STRING)

ASSUME LimitAssumption ==
  /\ {OneAtATime, Prompt, MayClose} \subseteq BOOLEAN
  /\ Faults \subseteq {"request", "post", "cut"}
  /\ CutPhases \subseteq {"read", "post", "end"}
  /\ {MaxFaults, MaxEdits, MaxSeq, Horizon} \subseteq Nat

VARIABLES
  now,      \* the clock
  ev,       \* the event: its status, start and policy
  jobs,     \* the reminder jobs by sequence number (the dedupe key)
  execs,    \* what the worker that executes a job is doing
  log,      \* the collection reminder_logs
  posts,    \* how often a reminder of a time was posted to a channel
  reqs,     \* what the goroutine of each request is doing
  planned,  \* history: the times planned, once a planning has come to its end
  edits, faults

vars == <<now, ev, jobs, execs, log, posts, reqs, planned, edits, faults>>

-----------------------------------------------------------------------------

Seqs == 1..MaxSeq

Event == [open : BOOLEAN, starts : Dates, policy : Policies]

NoJob == [status |-> "absent", at |-> 0]

\* A reminder job: its status and the time it was planned for.
Job == [status : {"absent", "pending", "running", "done", "canceled"}, at : 0..Horizon]

NoExec == [phase |-> "none", left |-> <<>>]

\* left: the channels not posted to yet.
Exec == [phase : {"none", "read", "post", "end"},
         left : {SubSeq(Targets, i, Len(Targets)) : i \in 1..(Len(Targets) + 1)}]

\* ev is the request's copy of the event, clock its time, left the times it
\* has yet to enqueue and seq the number of the next one.
Idle(e) == [step |-> "idle", ev |-> e, clock |-> 0, left |-> <<>>, seq |-> 1]

Request == [step : {"idle", "save", "clock", "cancel", "number", "check",
                    "enqueue", "refused"},
            ev : Event, clock : 0..Horizon,
            left : UNION {[1..n -> 1..Horizon] : n \in 0..MaxReminders}, seq : Nat]

Unplanned == [known |-> FALSE, times |-> {}]

\* Create has inserted the event and comes to the planning.
Init ==
  /\ now = 0
  /\ ev \in [open : {TRUE}, starts : Dates, policy : Policies]
  /\ jobs = [s \in Seqs |-> NoJob]
  /\ execs = [s \in Seqs |-> NoExec]
  /\ log = {}
  /\ posts = [x \in ToSet(Targets) \X (1..Horizon) |-> 0]
  /\ \E r \in Reqs :
       reqs = [q \in Reqs |-> IF q = r THEN [Idle(ev) EXCEPT !.step = "clock"]
                                       ELSE Idle(ev)]
  /\ planned = Unplanned
  /\ edits = 0
  /\ faults = 0

\* One more fault of a kind that may happen.
Fault(kind) == kind \in Faults /\ faults < MaxFaults /\ faults' = faults + 1

-----------------------------------------------------------------------------
(* The requests.                                                           *)

Goto(r, step) == reqs' = [reqs EXCEPT ![r].step = step]

\* A request starts with the event it has read, changed as asked.
Begin(r, changed) ==
  /\ reqs[r].step = "idle"
  /\ OneAtATime => \A q \in Reqs : reqs[q].step = "idle"
  /\ ev.open
  /\ edits < MaxEdits
  /\ edits' = edits + 1
  /\ reqs' = [reqs EXCEPT ![r] = [Idle(changed) EXCEPT !.step = "save"]]
  /\ UNCHANGED <<now, ev, jobs, execs, log, posts, planned, faults>>

\* Update accepts a policy that is valid on its own.
Update(r) ==
  \E p \in Policies, d \in Dates : Begin(r, [ev EXCEPT !.policy = p, !.starts = d])

Close(r) == MayClose /\ Begin(r, [ev EXCEPT !.open = FALSE])

SaveEvent(r) ==
  /\ reqs[r].step = "save"
  /\ ev' = reqs[r].ev
  /\ planned' = Unplanned
  /\ Goto(r, "clock")
  /\ UNCHANGED <<now, jobs, execs, log, posts, edits, faults>>

ReadClock(r) ==
  /\ reqs[r].step = "clock"
  /\ reqs' = [reqs EXCEPT ![r].step = "cancel", ![r].clock = now]
  /\ UNCHANGED <<now, ev, jobs, execs, log, posts, planned, edits, faults>>

\* Mutant of CancelPending: those that are being sent are canceled too.
CancelRunningToo(r) ==
  LET e == reqs[r].ev IN
  /\ reqs[r].step = "cancel"
  /\ jobs' = [s \in Seqs |-> IF jobs[s].status \in {"pending", "running"}
                             THEN [jobs[s] EXCEPT !.status = "canceled"]
                             ELSE jobs[s]]
  /\ \/ ~e.open /\ Goto(r, "idle")
     \/ /\ e.open /\ Schedulable(e.policy, reqs[r].clock, e.starts)
        /\ reqs' = [reqs EXCEPT ![r].step = "number",
                      ![r].left = Schedule(e.policy, reqs[r].clock, e.starts)]
  /\ UNCHANGED <<now, ev, execs, log, posts, planned, edits, faults>>

\* Pending reminders are canceled, whatever comes after.  Then the times are
\* worked out; a closed event has none, and too many are an error.
CancelPending(r) ==
  LET e == reqs[r].ev IN
  /\ reqs[r].step = "cancel"
  /\ jobs' = [s \in Seqs |-> IF jobs[s].status = "pending"
                             THEN [jobs[s] EXCEPT !.status = "canceled"]
                             ELSE jobs[s]]
  /\ \/ ~e.open /\ Goto(r, "idle")
     \/ e.open /\ ~Schedulable(e.policy, reqs[r].clock, e.starts) /\ Goto(r, "refused")
     \/ /\ e.open /\ Schedulable(e.policy, reqs[r].clock, e.starts)
        /\ reqs' = [reqs EXCEPT ![r].step = "number",
                      ![r].left = Schedule(e.policy, reqs[r].clock, e.starts)]
  /\ UNCHANGED <<now, ev, execs, log, posts, planned, edits, faults>>

\* Mutant of NextSequence: the numbers start again from 1.
FirstSequence == 1

\* Numbers go on after the highest one, whatever became of that job.
NextSequence == Max({0} \cup {s \in Seqs : jobs[s].status # "absent"}) + 1

ReadSequence(r) ==
  /\ reqs[r].step = "number"
  /\ reqs' = [reqs EXCEPT ![r].step = "check", ![r].seq = NextSequence]
  /\ UNCHANGED <<now, ev, jobs, execs, log, posts, planned, edits, faults>>

SentAt(t) == \E l \in log : l.at = t

\* The next time is passed over if a reminder of that time has been sent.
CheckSent(r) ==
  /\ reqs[r].step = "check" /\ reqs[r].left # <<>>
  /\ IF SentAt(Head(reqs[r].left))
     THEN reqs' = [reqs EXCEPT ![r].left = Tail(@)]
     ELSE Goto(r, "enqueue")
  /\ UNCHANGED <<now, ev, jobs, execs, log, posts, planned, edits, faults>>

\* A job with this number already there counts as success.
Enqueue(r) ==
  LET s == reqs[r].seq IN
  /\ reqs[r].step = "enqueue" /\ s \in Seqs
  /\ jobs' = IF jobs[s].status = "absent"
             THEN [jobs EXCEPT ![s] = [status |-> "pending", at |-> Head(reqs[r].left)]]
             ELSE jobs
  /\ reqs' = [reqs EXCEPT ![r].step = "check", ![r].seq = s + 1, ![r].left = Tail(@)]
  /\ UNCHANGED <<now, ev, execs, log, posts, planned, edits, faults>>

EndPlanning(r) ==
  LET e == reqs[r].ev IN
  /\ reqs[r].step = "check" /\ reqs[r].left = <<>>
  /\ planned' = [known |-> TRUE, times |-> Promised(e.policy, reqs[r].clock, e.starts)]
  /\ Goto(r, "idle")
  /\ UNCHANGED <<now, ev, jobs, execs, log, posts, edits, faults>>

\* The error has been returned.
Refused(r) ==
  /\ reqs[r].step = "refused"
  /\ Goto(r, "idle")
  /\ UNCHANGED <<now, ev, jobs, execs, log, posts, planned, edits, faults>>

\* A call of the request fails, or its process dies.  Nothing resumes it.
Abort(r) ==
  /\ reqs[r].step \notin {"idle", "refused"}
  /\ Fault("request")
  /\ Goto(r, "idle")
  /\ UNCHANGED <<now, ev, jobs, execs, log, posts, planned, edits>>

-----------------------------------------------------------------------------
(* The executions of the jobs.                                             *)

ExecTo(s, phase) == execs' = [execs EXCEPT ![s].phase = phase]

\* Mutant of Claimable: a job whose worker died is not taken up again.
ClaimablePending(s) == jobs[s].status = "pending"

\* A pending job, or one whose last execution stopped before its end.
Claimable(s) ==
  /\ execs[s].phase = "none"
  /\ jobs[s].status \in {"pending", "running"}

Claim(s) ==
  /\ Claimable(s) /\ jobs[s].at <= now
  /\ jobs' = [jobs EXCEPT ![s].status = "running"]
  /\ execs' = [execs EXCEPT ![s] = [phase |-> "read", left |-> Targets]]
  /\ UNCHANGED <<now, ev, log, posts, reqs, planned, edits, faults>>

\* Mutant of SentSequence: Send does not look at the log.
NeverSent(s) == FALSE

SentSequence(s) == \E l \in log : l.seq = s

\* Nothing is posted for an event that is closed or has started, nor twice for
\* a number.  Only executions of this job write the log of its number, so that
\* reading the event and the log is one step.
ReadEvent(s) ==
  /\ execs[s].phase = "read"
  /\ ExecTo(s, IF ~ev.open \/ ev.starts <= now \/ SentSequence(s) THEN "end" ELSE "post")
  /\ UNCHANGED <<now, ev, jobs, log, posts, reqs, planned, edits, faults>>

Posted(s) ==
  /\ execs[s].phase = "post" /\ execs[s].left # <<>>
  /\ execs' = [execs EXCEPT ![s].left = Tail(@)]

Post(s) ==
  /\ Posted(s)
  /\ posts' = [posts EXCEPT ![<<Head(execs[s].left), jobs[s].at>>] = @ + 1]
  /\ UNCHANGED <<now, ev, jobs, log, reqs, planned, edits, faults>>

\* A post that fails is noted in the log and not repeated.
PostFails(s) ==
  /\ Posted(s)
  /\ Fault("post")
  /\ UNCHANGED <<now, ev, jobs, log, posts, reqs, planned, edits>>

\* The log is written once all channels have been posted to.
AppendLog(s) ==
  /\ execs[s].phase = "post" /\ execs[s].left = <<>>
  /\ log' = log \cup {[seq |-> s, at |-> jobs[s].at]}
  /\ ExecTo(s, "end")
  /\ UNCHANGED <<now, ev, jobs, posts, reqs, planned, edits, faults>>

Complete(s) ==
  /\ execs[s].phase = "end"
  /\ jobs' = [jobs EXCEPT ![s].status = "done"]
  /\ execs' = [execs EXCEPT ![s] = NoExec]
  /\ UNCHANGED <<now, ev, log, posts, reqs, planned, edits, faults>>

\* A call fails and the job waits for its next attempt; or the worker dies, or
\* cannot write that the job is done, and the job stays running until another
\* worker finds its lease run out.
Cut(s) ==
  /\ execs[s].phase \in CutPhases
  /\ Fault("cut")
  /\ \/ /\ execs[s].phase # "end"
        /\ jobs' = [jobs EXCEPT ![s].status = "pending"]
     \/ UNCHANGED jobs
  /\ execs' = [execs EXCEPT ![s] = NoExec]
  /\ UNCHANGED <<now, ev, log, posts, reqs, planned, edits>>

-----------------------------------------------------------------------------

Planning(r) == reqs[r].step \in {"cancel", "number", "check", "enqueue"}

Tick ==
  /\ now < Horizon
  /\ Prompt => \A r \in Reqs : ~Planning(r)
  /\ now' = now + 1
  /\ UNCHANGED <<ev, jobs, execs, log, posts, reqs, planned, edits, faults>>

Plan(r) ==
  \/ SaveEvent(r) \/ ReadClock(r) \/ CancelPending(r) \/ ReadSequence(r)
  \/ CheckSent(r) \/ Enqueue(r) \/ EndPlanning(r) \/ Refused(r)

Send(s) == Claim(s) \/ ReadEvent(s) \/ Post(s) \/ AppendLog(s) \/ Complete(s)

Next ==
  \/ \E r \in Reqs : Update(r) \/ Close(r) \/ Plan(r) \/ Abort(r)
  \/ \E s \in Seqs : Send(s) \/ PostFails(s) \/ Cut(s)
  \/ Tick

Spec == Init /\ [][Next]_vars

\* Workers poll on and finish what they have begun.  Nothing makes time pass.
FairSpec == Spec /\ \A s \in Seqs : WF_vars(Send(s))

-----------------------------------------------------------------------------
(* Properties.                                                             *)

\* The types; in particular a plan never holds more times than the limit.
TypeOK ==
  /\ now \in 0..Horizon
  /\ ev \in Event
  /\ jobs \in [Seqs -> Job]
  /\ execs \in [Seqs -> Exec]
  /\ log \subseteq [seq : Seqs, at : 1..Horizon]
  /\ posts \in [ToSet(Targets) \X (1..Horizon) -> Nat]
  /\ reqs \in [Reqs -> Request]
  /\ planned \in [known : BOOLEAN, times : SUBSET (1..Horizon)]
  /\ edits \in 0..MaxEdits
  /\ faults \in 0..MaxFaults

\* Once an event is planned, exactly the future times its policy promised have
\* a pending reminder, and one each: none was swallowed by the unique key, none
\* of an earlier policy is left (scheduleReminders, Schedule).
PlanInForce ==
  planned.known /\ ev.open =>
    \A t \in (now + 1)..Horizon :
      Cardinality({s \in Seqs : jobs[s].status = "pending" /\ jobs[s].at = t})
        = IF t \in planned.times THEN 1 ELSE 0

\* No channel is told the same time twice, through repeated executions and
\* through plannings that come back to a time (Send, SentAt).
PostedOnce == \A x \in DOMAIN posts : posts[x] <= 1

\* A reminder that is due and has not been passed over goes out, whatever cuts
\* its executions off, unless it is canceled or the event closes or starts
\* (Worker.run, Send).
DueIsSent ==
  \A s \in Seqs :
    (/\ jobs[s].status \in {"pending", "running"} /\ jobs[s].at <= now
     /\ execs[s].phase # "end")
      ~> \/ \E l \in log : l.seq = s
         \/ jobs[s].status = "canceled"
         \/ ~ev.open
         \/ ev.starts <= now

\* The jobs as the queue has them.
Contract ==
  INSTANCE JobContract WITH
    Jobs   <- Seqs,
    status <- [s \in Seqs |-> jobs[s].status],
    due    <- [s \in Seqs |-> jobs[s].at <= now],
    held   <- [s \in Seqs |-> execs[s].phase # "none"]

\* reminder.go:23-70, jobs.go:81, 195: however plannings, executions and closings
\* meet, nothing becomes of the reminder jobs that JobContract, which JobQueue keeps
\* too, does not allow.
ReminderJobsAsAgreed == Contract!Spec

=============================================================================
