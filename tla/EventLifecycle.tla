--------------------------- MODULE EventLifecycle ---------------------------
(***************************************************************************)
(* One event from its creation to the archive                              *)
(* (internal/manager/usecase/event.go on the collection of                 *)
(* internal/manager/store/mongo/events.go, and the event_auto_end and      *)
(* archive_channel handlers of internal/manager/scheduler/handler.go).     *)
(*                                                                         *)
(* As in Participation, a request is a goroutine, every call it makes on   *)
(* the database or the Provider is a step, and the steps of requests       *)
(* interleave; a request keeps the event as it has read it, and the steps  *)
(* it has yet to take.                                                     *)
(*                                                                         *)
(* Of the dates of the event only AutoEndAt is kept, as the time left.     *)
(* The reminders of the event are one job, pending or not.                 *)
(***************************************************************************)
EXTENDS Integers, Sequences

CONSTANTS
  Reqs,         \* goroutines that serve requests or run jobs
  Ops,          \* the operations users call: a subset of UserOps
  Dates,        \* the times until AutoEndAt that users choose
  MayAdvance,   \* whether users bring the date forward
  OneAtATime,   \* whether operations that write the event never overlap
  Faults,       \* a subset of {"error", "crash"}
  FaultyOps,    \* the operations of which a step may fail
  MaxFaults,    \* bound: failed steps in a behaviour
  MaxCalls      \* bound: operations users call in a behaviour

UserOps == {"update", "end", "cancel"}
JobOps  == {"auto_end", "archive_channel"}
AllOps  == {"create"} \cup UserOps \cup JobOps

ASSUME LifecycleAssumption ==
  /\ Ops \subseteq UserOps
  /\ Dates \subseteq Nat /\ Dates # {}
  /\ {MayAdvance, OneAtATime} \subseteq BOOLEAN
  /\ Faults \subseteq {"error", "crash"}
  /\ FaultyOps \subseteq AllOps
  /\ MaxFaults \in Nat /\ MaxCalls \in Nat

VARIABLES
  doc,      \* the event document
  chat,     \* the event channel, kept by the Provider
  shown,    \* the announcement: with or without its buttons
  jobs,     \* the jobs of the event
  reqs,     \* what each request is doing
  called,   \* how many operations users have called
  faults    \* how many steps have failed

vars == <<doc, chat, shown, jobs, reqs, called, faults>>

-----------------------------------------------------------------------------

Closed == {"ended", "canceled"}
ChannelStates == {"none", "live", "archived"}

\* channel is Channel.ChannelID and Channel.Archived, posted Messages.
EventDoc == [status : {"none", "open"} \cup Closed, ends : Nat,
             channel : ChannelStates, posted : BOOLEAN]

JobKinds == {"reminder", "auto_end", "archive_channel"}

Job == [status : {"absent", "pending", "running", "done", "canceled"}, runAt : Nat]

Steps == {"insert", "organizer", "channel", "set_channel", "post", "set_messages",
          "drop_reminders", "remind", "plan_end", "abort", "read", "write", "redraw",
          "drop_jobs", "plan_archive", "check", "postpone", "look", "archive",
          "set_archived", "finish"}

Request == [op : AllOps \cup {"none"}, todo : Seq(Steps), snap : EventDoc]

NoEvent == [status |-> "none", ends |-> 0, channel |-> "none", posted |-> FALSE]

Idle == [op |-> "none", todo |-> << >>, snap |-> NoEvent]

Init ==
  /\ doc = NoEvent
  /\ chat = "none" /\ shown = "none"
  /\ jobs = [k \in JobKinds |-> [status |-> "absent", runAt |-> 0]]
  /\ reqs = [r \in Reqs |-> Idle]
  /\ called = 0 /\ faults = 0

-----------------------------------------------------------------------------
(* What each operation has to do.                                          *)

Creation ==
  <<"insert", "organizer", "channel", "set_channel", "post", "set_messages",
    "drop_reminders", "remind", "plan_end">>

Edit == <<"write", "redraw", "drop_reminders", "remind">>

\* Mutant of Closing: the pending jobs are left alone.
ClosingKeepingJobs == <<"write", "redraw", "plan_archive">>

Closing == <<"write", "redraw", "drop_jobs", "plan_archive">>

\* abortProvision leaves the channel to the archive job if it knows of one.
Cleanup(snap) ==
  <<"abort">> \o (IF snap.channel # "none" THEN <<"plan_archive">> ELSE << >>)

StatusAfter(op) == IF op = "cancel" THEN "canceled" ELSE "ended"

\* Events.Update writes the fields of the event as the request knows it, but
\* not its channel and messages.
Saved(d, snap) == [d EXCEPT !.status = snap.status, !.ends = snap.ends]

\* CancelByEvent: the pending jobs of the given kinds.
Dropped(K) ==
  [k \in JobKinds |-> IF k \in K /\ jobs[k].status = "pending"
                      THEN [jobs[k] EXCEPT !.status = "canceled"] ELSE jobs[k]]

\* enqueue: the job that is there already stays as it is.
Enqueued(k, runAt) ==
  IF jobs[k].status = "absent"
  THEN [jobs EXCEPT ![k] = [status |-> "pending", runAt |-> runAt]]
  ELSE jobs

-----------------------------------------------------------------------------
(* The steps of a request.                                                 *)

At(r, step) == reqs[r].todo # << >> /\ Head(reqs[r].todo) = step

End(r) == reqs' = [reqs EXCEPT ![r] = Idle]

\* Done with the step; the last step of a request ends it.
Advance(r, snap) ==
  IF Len(reqs[r].todo) = 1 THEN End(r)
  ELSE reqs' = [reqs EXCEPT ![r].todo = Tail(@), ![r].snap = snap]

GoOn(r, todo, snap) == reqs' = [reqs EXCEPT ![r].todo = todo, ![r].snap = snap]

\* Nothing else that writes the event is in progress.
Alone(op) ==
  OneAtATime /\ op # "archive_channel" =>
    \A q \in Reqs : reqs[q].op \in {"none", "archive_channel"}

Start(r, op, todo, snap) ==
  /\ reqs[r] = Idle
  /\ Alone(op)
  /\ reqs' = [reqs EXCEPT ![r] = [op |-> op, todo |-> todo, snap |-> snap]]

\* Create, with the date d.
CallCreate(r, d) ==
  /\ doc.status = "none" /\ \A q \in Reqs : reqs[q].op # "create"
  /\ Start(r, "create", Creation, [NoEvent EXCEPT !.status = "open", !.ends = d])
  /\ UNCHANGED <<doc, chat, shown, jobs, called, faults>>

\* A command given in the event channel, by which the event is found.
CallCommand(r, op) ==
  /\ op \in Ops /\ called < MaxCalls /\ called' = called + 1
  /\ doc.channel # "none"
  /\ Start(r, op, <<"read">>, NoEvent)
  /\ UNCHANGED <<doc, chat, shown, jobs, faults>>

Insert(r) ==
  /\ At(r, "insert")
  /\ doc' = reqs[r].snap
  /\ Advance(r, reqs[r].snap)
  /\ UNCHANGED <<chat, shown, jobs, called, faults>>

\* The participation of the organizer is in Participation.
RegisterOrganizer(r) ==
  /\ At(r, "organizer")
  /\ Advance(r, reqs[r].snap)
  /\ UNCHANGED <<doc, chat, shown, jobs, called, faults>>

CreateChannel(r) ==
  /\ At(r, "channel")
  /\ chat' = "live"
  /\ Advance(r, [reqs[r].snap EXCEPT !.channel = "live"])
  /\ UNCHANGED <<doc, shown, jobs, called, faults>>

SetChannel(r) ==
  /\ At(r, "set_channel") \/ At(r, "set_archived")
  /\ doc' = [doc EXCEPT !.channel = IF At(r, "set_archived") THEN "archived" ELSE "live"]
  /\ Advance(r, reqs[r].snap)
  /\ UNCHANGED <<chat, shown, jobs, called, faults>>

PostAnnouncements(r) ==
  /\ At(r, "post")
  /\ shown' = "open"
  /\ Advance(r, [reqs[r].snap EXCEPT !.posted = TRUE])
  /\ UNCHANGED <<doc, chat, jobs, called, faults>>

\* Mutant of SetMessages: the whole event is written as the request knows it.
SetMessagesAndAll(r) ==
  /\ At(r, "set_messages")
  /\ doc' = reqs[r].snap
  /\ Advance(r, reqs[r].snap)
  /\ UNCHANGED <<chat, shown, jobs, called, faults>>

SetMessages(r) ==
  /\ At(r, "set_messages")
  /\ doc' = [doc EXCEPT !.posted = TRUE]
  /\ Advance(r, reqs[r].snap)
  /\ UNCHANGED <<chat, shown, jobs, called, faults>>

\* Mutant of DropReminders: CancelByEvent with no kinds, which means all.
DropAllJobs(r) ==
  /\ At(r, "drop_reminders")
  /\ jobs' = Dropped(JobKinds)
  /\ Advance(r, reqs[r].snap)
  /\ UNCHANGED <<doc, chat, shown, called, faults>>

\* scheduleReminders: first the pending reminders are canceled, ...
DropReminders(r) ==
  /\ At(r, "drop_reminders")
  /\ jobs' = Dropped({"reminder"})
  /\ Advance(r, reqs[r].snap)
  /\ UNCHANGED <<doc, chat, shown, called, faults>>

\* ... then new ones are enqueued, unless the policy yields none.
Remind(r) ==
  /\ At(r, "remind")
  /\ \/ UNCHANGED jobs
     \/ /\ reqs[r].snap.status = "open"
        /\ jobs' = [jobs EXCEPT !["reminder"].status = "pending"]
  /\ Advance(r, reqs[r].snap)
  /\ UNCHANGED <<doc, chat, shown, called, faults>>

PlanEnd(r) ==
  /\ At(r, "plan_end")
  /\ jobs' = Enqueued("auto_end", reqs[r].snap.ends)
  /\ Advance(r, reqs[r].snap)
  /\ UNCHANGED <<doc, chat, shown, called, faults>>

\* abortProvision: the event is canceled, as the request knows it.
AbortProvision(r) ==
  LET snap == [reqs[r].snap EXCEPT !.status = "canceled"] IN
  /\ At(r, "abort")
  /\ doc' = Saved(doc, snap)
  /\ Advance(r, snap)
  /\ UNCHANGED <<chat, shown, jobs, called, faults>>

\* Update applies to an open event; any valid date may be chosen.
ReadToUpdate(r) ==
  /\ At(r, "read") /\ reqs[r].op = "update"
  /\ IF doc.status = "open"
     THEN \E d \in Dates :
            /\ MayAdvance \/ d >= doc.ends
            /\ GoOn(r, Edit, [doc EXCEPT !.ends = d])
     ELSE End(r)
  /\ UNCHANGED <<doc, chat, shown, jobs, called, faults>>

\* Close does nothing with an event that is closed.
ReadToClose(r) ==
  LET op == reqs[r].op
      rest == Tail(reqs[r].todo)
  IN
  /\ At(r, "read") /\ op \in {"end", "cancel", "auto_end"}
  /\ IF doc.status = "open"
     THEN GoOn(r, Closing \o rest, [doc EXCEPT !.status = StatusAfter(op)])
     ELSE Advance(r, doc)
  /\ UNCHANGED <<doc, chat, shown, jobs, called, faults>>

SaveEvent(r) ==
  /\ At(r, "write")
  /\ doc' = Saved(doc, reqs[r].snap)
  /\ Advance(r, reqs[r].snap)
  /\ UNCHANGED <<chat, shown, jobs, called, faults>>

\* refreshMessages and closeMessages: the announcement that is known of.
Redraw(r) ==
  LET snap == reqs[r].snap IN
  /\ At(r, "redraw")
  /\ shown' = CASE ~ snap.posted -> shown
                [] snap.posted /\ snap.status = "open" -> "open"
                [] snap.posted /\ snap.status # "open" -> "closed"
  /\ Advance(r, snap)
  /\ UNCHANGED <<doc, chat, jobs, called, faults>>

DropJobs(r) ==
  /\ At(r, "drop_jobs")
  /\ jobs' = Dropped({"reminder", "auto_end"})
  /\ Advance(r, reqs[r].snap)
  /\ UNCHANGED <<doc, chat, shown, called, faults>>

PlanArchive(r) ==
  /\ At(r, "plan_archive")
  /\ jobs' = IF reqs[r].snap.channel # "none" THEN Enqueued("archive_channel", 0) ELSE jobs
  /\ Advance(r, reqs[r].snap)
  /\ UNCHANGED <<doc, chat, shown, called, faults>>

-----------------------------------------------------------------------------
(* The jobs.                                                               *)

FirstStep(k) == IF k = "auto_end" THEN "check" ELSE "look"

\* Mutant of Claimable: a job is taken up though somebody is at it.
ClaimableTwice(k) ==
  \/ jobs[k] = [status |-> "pending", runAt |-> 0]
  \/ jobs[k].status = "running"

\* Due, or left behind as running.
Claimable(k) ==
  \/ jobs[k] = [status |-> "pending", runAt |-> 0]
  \/ jobs[k].status = "running" /\ \A q \in Reqs : reqs[q].op # k

RunJob(r, k) ==
  /\ Claimable(k)
  /\ jobs' = [jobs EXCEPT ![k].status = "running"]
  /\ Start(r, k, <<FirstStep(k)>>, NoEvent)
  /\ UNCHANGED <<doc, chat, shown, called, faults>>

\* Mutant of CheckEnd: an event that was put off is left alone.
CheckEndOnce(r) ==
  /\ At(r, "check")
  /\ GoOn(r, IF doc.status = "open" /\ doc.ends = 0 THEN <<"read", "finish">>
             ELSE <<"finish">>, doc)
  /\ UNCHANGED <<doc, chat, shown, jobs, called, faults>>

\* autoEnd: nothing to do, postponed, or Close.
CheckEnd(r) ==
  /\ At(r, "check")
  /\ GoOn(r, CASE doc.status # "open" -> <<"finish">>
               [] doc.status = "open" /\ doc.ends > 0 -> <<"postpone">>
               [] doc.status = "open" /\ doc.ends = 0 -> <<"read", "finish">>, doc)
  /\ UNCHANGED <<doc, chat, shown, jobs, called, faults>>

PostponeEnd(r) ==
  /\ At(r, "postpone")
  /\ jobs' = [jobs EXCEPT !["auto_end"] = [status |-> "pending", runAt |-> reqs[r].snap.ends]]
  /\ End(r)
  /\ UNCHANGED <<doc, chat, shown, called, faults>>

\* Mutant of LookAtChannel: the archive is recorded before it is made.
LookAndRecordFirst(r) ==
  /\ At(r, "look")
  /\ GoOn(r, IF doc.channel = "live" THEN <<"set_archived", "archive", "finish">>
             ELSE <<"finish">>, doc)
  /\ UNCHANGED <<doc, chat, shown, jobs, called, faults>>

\* ArchiveChannel: nothing to do without a channel, or with an archived one.
LookAtChannel(r) ==
  /\ At(r, "look")
  /\ GoOn(r, IF doc.channel = "live" THEN <<"archive", "set_archived", "finish">>
             ELSE <<"finish">>, doc)
  /\ UNCHANGED <<doc, chat, shown, jobs, called, faults>>

Archive(r) ==
  /\ At(r, "archive")
  /\ chat' = "archived"
  /\ Advance(r, reqs[r].snap)
  /\ UNCHANGED <<doc, shown, jobs, called, faults>>

FinishJob(r) ==
  /\ At(r, "finish")
  /\ jobs' = [jobs EXCEPT ![reqs[r].op].status = "done"]
  /\ End(r)
  /\ UNCHANGED <<doc, chat, shown, called, faults>>

\* The last of the reminders is sent.
SendReminders ==
  /\ jobs["reminder"].status = "pending"
  /\ jobs' = [jobs EXCEPT !["reminder"].status = "done"]
  /\ UNCHANGED <<doc, chat, shown, reqs, called, faults>>

-----------------------------------------------------------------------------
(* The environment.                                                        *)

\* A job that fails is pending again.
Retried(r) ==
  IF reqs[r].op \in JobOps
  THEN [jobs EXCEPT ![reqs[r].op] = [status |-> "pending", runAt |-> 0]] ELSE jobs

Disturb(kind, r) ==
  /\ kind \in Faults /\ reqs[r].op \in FaultyOps
  /\ faults < MaxFaults /\ faults' = faults + 1

\* The next call of r returns an error.  Within provision this leads to the
\* cleanup, of which the errors are passed over; messages are redrawn on a best
\* effort.  Of the announcements the first may have been posted.  When the result
\* of a job cannot be written, the job is left behind as running.
Fail(r) ==
  LET req == reqs[r] IN
  /\ Disturb("error", r)
  /\ CASE \E s \in {"channel", "set_channel", "post", "set_messages"} : At(r, s)
            -> GoOn(r, Cleanup(req.snap), req.snap)
       [] At(r, "abort") \/ At(r, "redraw")
            -> Advance(r, req.snap)
       [] OTHER -> End(r)
  /\ shown' \in IF At(r, "post") THEN {shown, "open"} ELSE {shown}
  /\ jobs' = IF At(r, "redraw") \/ At(r, "finish") THEN jobs ELSE Retried(r)
  /\ UNCHANGED <<doc, chat, called>>

\* The process dies, or the deadline of the request passes: every further call
\* of r fails, the cleanup included.  A job is left behind as running.
Crash(r) ==
  /\ Disturb("crash", r)
  /\ End(r)
  /\ UNCHANGED <<doc, chat, shown, jobs, called>>

Nearer(t) == IF t > 0 THEN t - 1 ELSE 0

Tick ==
  /\ doc' = [doc EXCEPT !.ends = Nearer(@)]
  /\ jobs' = [k \in JobKinds |-> [jobs[k] EXCEPT !.runAt = Nearer(@)]]
  /\ reqs' = [r \in Reqs |-> [reqs[r] EXCEPT !.snap.ends = Nearer(@)]]
  /\ UNCHANGED <<chat, shown, called, faults>>

-----------------------------------------------------------------------------

Step(r) ==
  \/ Insert(r)
  \/ RegisterOrganizer(r)
  \/ CreateChannel(r)
  \/ SetChannel(r)
  \/ PostAnnouncements(r)
  \/ SetMessages(r)
  \/ DropReminders(r)
  \/ Remind(r)
  \/ PlanEnd(r)
  \/ AbortProvision(r)
  \/ ReadToUpdate(r)
  \/ ReadToClose(r)
  \/ SaveEvent(r)
  \/ Redraw(r)
  \/ DropJobs(r)
  \/ PlanArchive(r)
  \/ CheckEnd(r)
  \/ PostponeEnd(r)
  \/ LookAtChannel(r)
  \/ Archive(r)
  \/ FinishJob(r)

Next ==
  \/ \E r \in Reqs, d \in Dates : CallCreate(r, d)
  \/ \E r \in Reqs, op \in UserOps : CallCommand(r, op)
  \/ \E r \in Reqs, k \in JobOps : RunJob(r, k)
  \/ \E r \in Reqs : Step(r)
  \/ \E r \in Reqs : Fail(r)
  \/ \E r \in Reqs : Crash(r)
  \/ SendReminders
  \/ Tick

Spec == Init /\ [][Next]_vars

\* Requests go on, time passes, and the workers take up due jobs.
Fairness ==
  /\ WF_vars(Tick)
  /\ \A k \in JobOps : WF_vars(\E r \in Reqs : RunJob(r, k))
  /\ \A r \in Reqs : WF_vars(Step(r))

FairSpec == Spec /\ Fairness

-----------------------------------------------------------------------------
(* Properties.                                                             *)

TypeOK ==
  /\ doc \in EventDoc
  /\ chat \in ChannelStates
  /\ shown \in {"none", "open", "closed"}
  /\ jobs \in [JobKinds -> Job]
  /\ reqs \in [Reqs -> Request]
  /\ called \in 0..MaxCalls /\ faults \in 0..MaxFaults

Quiescent == \A r \in Reqs : reqs[r].op = "none"

\* docs/04 section 2.3.2: an event that was ended or canceled is never open again,
\* whatever edits are under way.
NeverReopened == [][doc.status \in Closed => doc'.status \in Closed]_vars

\* docs/11 section 4.4: the channel of a closed event, if the event document knows
\* which one it is, gets archived through crashes and retries.  event.go:64: so
\* does that of an event that could not be set up.
ClosedGetsArchived ==
  doc.status \in Closed /\ doc.channel # "none" ~> chat # "live"

\* Once all is done, a closed event has no reminders and no automatic end to
\* come, and its announcement no buttons (closeMessages in usecase/event.go; the
\* buttons under the posts of reminders are not modelled).
ClosedIsQuiet ==
  Quiescent /\ doc.status \in Closed =>
    /\ \A k \in {"reminder", "auto_end"} : jobs[k].status # "pending"
    /\ shown # "open"

\* docs/11 section 5: an open event has a job that ends it at the date it has now.
OpenHasEnd ==
  Quiescent /\ doc.status = "open" =>
    jobs["auto_end"].status = "pending" /\ jobs["auto_end"].runAt <= doc.ends

\* docs/11 section 4.3: however often the date is put off, the event ends.
EventEnds == doc.status = "open" ~> doc.status \in Closed

\* Somebody runs job k.
Taken(k) == \E r \in Reqs : reqs[r].op = k

\* The two jobs, of one document each, as the queue has them.
Contract ==
  INSTANCE JobContract WITH
    Jobs   <- JobOps,
    status <- [k \in JobOps |-> jobs[k].status],
    due    <- [k \in JobOps |-> jobs[k].runAt = 0],
    held   <- [k \in JobOps |-> Taken(k)]

\* handler.go:86-118, jobs.go:81: an automatic end or an archive is executed by one
\* goroutine at a time, at its time, only that goroutine settles it, and nothing else becomes of it that
\* JobContract, which JobQueue keeps too, does not allow.
EventJobsAsAgreed == Contract!Spec

=============================================================================
