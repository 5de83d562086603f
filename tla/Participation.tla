--------------------------- MODULE Participation ---------------------------
(***************************************************************************)
(* Joining, peeking at and leaving one event                               *)
(* (internal/manager/usecase/participation.go on the collections of        *)
(* internal/manager/store/mongo/participations.go and events.go, and the   *)
(* peek_expire handler of internal/manager/scheduler/handler.go).          *)
(*                                                                         *)
(* A request is a goroutine that runs one operation for one user.  Every   *)
(* call it makes on the database or the Provider is a step, and the steps  *)
(* of requests interleave.  A request keeps what it has read, and the      *)
(* steps it has yet to take.  A step of which the call fails, or in which  *)
(* the process dies, ends the request (Abort).  Messages are left out,     *)
(* redrawing the announcement included.                                    *)
(*                                                                         *)
(* The peek_expire jobs are the queue of JobQueue seen from outside, as    *)
(* JobContract has it: a due job is run by one request at a time, and run  *)
(* again when it fails or its process dies (the runs keep the number of    *)
(* failures below MaxAttempts).                                            *)
(***************************************************************************)
EXTENDS Integers, Sequences, FiniteSets

CONSTANTS
  Users,
  Organizer,      \* the user who created the event
  Reqs,           \* goroutines that serve requests or run jobs
  Ops,            \* the operations users call: a subset of AllOps
  PeekDuration,   \* WorkspaceSettings.PeekDuration, in units of time
  OneAtATime,     \* whether the requests for one user, the expiry of a peek
                  \* included, come one after another
  FaultyOps,      \* the operations of which a step may fail
  MaxFaults,      \* bound: failed steps, lost channels in a behaviour
  MaxRequests,    \* bound: operations users call in a behaviour
  MayClose,       \* whether the event may be closed
  MayLose         \* whether its channel may be deleted by hand

AllOps == {"join", "peek", "leave", "remove"}

ASSUME PartiesAssumption ==
  /\ Organizer \in Users
  /\ IsFiniteSet(Users) /\ IsFiniteSet(Reqs)
  /\ Ops \subseteq AllOps
  /\ FaultyOps \subseteq AllOps \cup {"expire"}
  /\ {OneAtATime, MayClose, MayLose} \subseteq BOOLEAN

ASSUME NumbersAssumption ==
  /\ PeekDuration \in Nat \ {0}
  /\ MaxFaults \in Nat /\ MaxRequests \in Nat

VARIABLES
  open,       \* the event is open
  lost,       \* the event channel was deleted by hand
  part,       \* the participation record of each user
  count,      \* Event.ParticipantCount
  channel,    \* the members of the event channel, kept by the Provider
  peekJobs,   \* the peek_expire job of each user and PeekCount
  reqs,       \* what each request is doing
  called,     \* how many operations have been called
  faults      \* how many steps have failed

event == <<open, lost>>
bounds == <<called, faults>>
vars == <<open, lost, part, count, channel, peekJobs, reqs, called, faults>>

-----------------------------------------------------------------------------

Roles == {"participant", "peeker"}
PartStatuses == {"none", "active", "expired", "removed", "left"}

\* No ExpiresAt.  An expiry is the time left until it, 0 when it has passed.
NoExpiry == -1

NoPart == [status |-> "none", role |-> "participant", expires |-> NoExpiry, peeks |-> 0]

\* PeekCount grows by at most one for each operation.
PartRecord == [status : PartStatuses, role : Roles,
               expires : NoExpiry..PeekDuration, peeks : 0..MaxRequests]

\* Of each user, one job for each value of PeekCount (the dedupe key).
PeekKeys == Users \X (1..MaxRequests)

PeekJob == [status : {"absent", "pending", "running", "done", "canceled"},
            runAt : 0..PeekDuration]

NoJob == [status |-> "absent", runAt |-> 0]

Steps == {"read", "upsert", "after", "add", "cancel", "enqueue", "remove",
          "status", "count", "check", "postpone", "finish"}

Kinds == {"none", "joined", "peeked", "promoted", "already_participant",
          "already_peeking"}

\* kind is the transition decided first, settled the one of the record that
\* Upsert found; snap the record as last read; peeks the key of a
\* job.
Request == [op : AllOps \cup {"none", "expire"}, user : Users, todo : Seq(Steps),
            kind : Kinds, settled : Kinds, snap : PartRecord,
            peeks : 0..MaxRequests]

Idle == [op |-> "none", user |-> Organizer, todo |-> << >>, kind |-> "none",
         settled |-> "none", snap |-> NoPart, peeks |-> 0]

\* Create has registered the organizer and made the channel.
Init ==
  /\ open = TRUE /\ lost = FALSE
  /\ part = [u \in Users |->
               IF u = Organizer THEN [NoPart EXCEPT !.status = "active"] ELSE NoPart]
  /\ count = 1
  /\ channel = {Organizer}
  /\ peekJobs = [k \in PeekKeys |-> NoJob]
  /\ reqs = [r \in Reqs |-> Idle]
  /\ called = 0 /\ faults = 0

-----------------------------------------------------------------------------
(* domain/participation.go                                                 *)

IsActive(p) == p.status = "active"

ActiveParticipant(p) == IsActive(p) /\ p.role = "participant"
ActivePeeker(p) == IsActive(p) /\ p.role = "peeker"

\* Mutant of PeekExpired: a strict comparison, with the expiry still to pass.
PeekExpiredLater(p) == p.role = "peeker" /\ p.expires < 0

PeekExpired(p) == p.role = "peeker" /\ p.expires = 0

DecideTransition(p, op) ==
  CASE ActiveParticipant(p)                -> "already_participant"
    [] ActivePeeker(p) /\ op = "join"      -> "promoted"
    [] ActivePeeker(p) /\ op = "peek"      -> "already_peeking"
    [] ~ IsActive(p) /\ op = "join"        -> "joined"
    [] ~ IsActive(p) /\ op = "peek"        -> "peeked"

\* Mutant of SideEffects: whoever joins is taken to be in the channel already.
SideEffectsNoAdd(kind) ==
  CASE kind = "joined"   -> <<"count">>
    [] kind = "promoted" -> <<"count", "cancel">>
    [] kind = "peeked"   -> <<"add", "enqueue">>

\* What Apply does once the record is written.
SideEffects(kind) ==
  CASE kind = "joined"   -> <<"add", "count">>
    [] kind = "promoted" -> <<"count", "cancel">>
    [] kind = "peeked"   -> <<"add", "enqueue">>

\* Mutant of Detachment: the place in the channel is kept.
DetachmentInPlace(op, p) ==
  <<"status">>
    \o (IF p.role = "participant" THEN <<"count">> ELSE << >>)
    \o (IF op = "expire" THEN <<"finish">> ELSE << >>)

\* Mutant of Detachment: participants are not counted down.
DetachmentUncounted(op, p) ==
  <<"remove", "status">> \o (IF op = "expire" THEN <<"finish">> ELSE << >>)

\* What Leave, Remove and ExpirePeek do with an active record p.
Detachment(op, p) ==
  <<"remove", "status">>
    \o (IF p.role = "participant" THEN <<"count">> ELSE << >>)
    \o (IF op = "expire" THEN <<"finish">> ELSE << >>)

\* Mutants of Upserted: a participant is not protected, and a promotion keeps the
\* expiry.
UpsertedAnyway(p, op) ==
  [status  |-> "active",
   role    |-> IF op = "join" THEN "participant" ELSE "peeker",
   expires |-> IF op = "join" THEN NoExpiry ELSE PeekDuration,
   peeks   |-> IF op = "join" THEN p.peeks ELSE p.peeks + 1]

UpsertedKeepingExpiry(p, op) ==
  IF ActiveParticipant(p) THEN p
  ELSE [UpsertedAnyway(p, op) EXCEPT
          !.expires = IF op = "join" THEN p.expires ELSE @]

\* The pipeline of Upsert: an active participant keeps role, expiry and count.
Upserted(p, op) ==
  IF ActiveParticipant(p) THEN p
  ELSE [status  |-> "active",
        role    |-> IF op = "join" THEN "participant" ELSE "peeker",
        expires |-> IF op = "join" THEN NoExpiry ELSE PeekDuration,
        peeks   |-> IF op = "join" THEN p.peeks ELSE p.peeks + 1]

DetachedStatus(op) ==
  CASE op = "leave" -> "left" [] op = "remove" -> "removed" [] op = "expire" -> "expired"

-----------------------------------------------------------------------------
(* The steps of a request.                                                 *)

At(r, step) == reqs[r].todo # << >> /\ Head(reqs[r].todo) = step

End(r) == reqs' = [reqs EXCEPT ![r] = Idle]

\* Done with the step; the last step of a request ends it.
Advance(r) ==
  IF Len(reqs[r].todo) = 1 THEN End(r) ELSE reqs' = [reqs EXCEPT ![r].todo = Tail(@)]

\* Nothing else is being done for u, if that is assumed.
Free(u) == OneAtATime => \A q \in Reqs : reqs[q].op # "none" => reqs[q].user # u

\* An operation begins by loading the event, which must be open.
Call(r, op, u) ==
  /\ reqs[r] = Idle /\ open
  /\ op \in Ops /\ called < MaxRequests
  /\ op = "leave" => u # Organizer
  /\ Free(u)
  /\ reqs' = [reqs EXCEPT ![r] =
                [Idle EXCEPT !.op = op, !.user = u, !.todo = <<"read">>]]
  /\ called' = called + 1
  /\ UNCHANGED <<event, part, count, channel, peekJobs, faults>>

\* Apply decides what to do from the record, and may have nothing to do.
ReadToApply(r) ==
  LET req == reqs[r]
      kind == DecideTransition(part[req.user], req.op)
  IN
  /\ At(r, "read") /\ req.op \in {"join", "peek"}
  /\ IF kind \in {"already_participant", "already_peeking"} THEN End(r)
     ELSE reqs' = [reqs EXCEPT ![r].kind = kind, ![r].todo = <<"upsert">>]
  /\ UNCHANGED <<event, part, count, channel, peekJobs, bounds>>

\* One FindOneAndUpdate, which returns the record it found.
Upsert(r) ==
  LET req == reqs[r] IN
  /\ At(r, "upsert")
  /\ part' = [part EXCEPT ![req.user] = Upserted(@, req.op)]
  /\ reqs' = [reqs EXCEPT ![r].settled = DecideTransition(part[req.user], req.op),
                          ![r].todo = <<"after">>]
  /\ UNCHANGED <<event, count, channel, peekJobs, bounds>>

\* The record is read again, and the side effects are left to the request
\* that found the record as it had read it.
ReadAfter(r) ==
  LET req == reqs[r] IN
  /\ At(r, "after")
  /\ IF req.settled # req.kind THEN End(r)
     ELSE reqs' = [reqs EXCEPT ![r].snap = part[req.user],
                               ![r].todo = SideEffects(req.kind)]
  /\ UNCHANGED <<event, part, count, channel, peekJobs, bounds>>

\* Close, in one step: the status, and the pending jobs of the event.
CloseEvent ==
  /\ open' = FALSE /\ UNCHANGED lost
  /\ peekJobs' = [k \in PeekKeys |-> IF peekJobs[k].status = "pending"
                                     THEN [peekJobs[k] EXCEPT !.status = "canceled"]
                                     ELSE peekJobs[k]]

\* Of a lost channel, ErrNotFound ends the request and closes the event, if it
\* is not closed yet.  The handler of a job passes over ErrNotFound, so that its
\* job is done.
ChannelLost(r) ==
  /\ At(r, "add") \/ At(r, "remove")
  /\ lost
  /\ IF open THEN CloseEvent ELSE UNCHANGED <<event, peekJobs>>
  /\ IF reqs[r].op = "expire"
     THEN reqs' = [reqs EXCEPT ![r].todo = <<"finish">>]
     ELSE End(r)
  /\ UNCHANGED <<part, count, channel, bounds>>

AddMember(r) ==
  /\ At(r, "add") /\ ~ lost
  /\ channel' = channel \cup {reqs[r].user}
  /\ Advance(r)
  /\ UNCHANGED <<event, part, count, peekJobs, bounds>>

\* addCount: $inc in the database.
Delta(req) == IF req.op \in {"join", "peek"} THEN 1 ELSE -1

AddCount(r) ==
  LET req == reqs[r] IN
  /\ At(r, "count")
  /\ count' = count + Delta(req)
  /\ Advance(r)
  /\ UNCHANGED <<event, part, channel, peekJobs, bounds>>

\* CancelByEvent with kind peek_expire: of every user of the event.
CancelPeekJobs(r) ==
  /\ At(r, "cancel")
  /\ peekJobs' = [k \in PeekKeys |-> IF peekJobs[k].status = "pending"
                                     THEN [peekJobs[k] EXCEPT !.status = "canceled"]
                                     ELSE peekJobs[k]]
  /\ Advance(r)
  /\ UNCHANGED <<event, part, count, channel, bounds>>

\* Mutant of EnqueuePeekJob: the key of the job does not tell peeks apart.
EnqueuePeekJobOnce(r) ==
  LET req == reqs[r]
      key == <<req.user, 1>> IN
  /\ At(r, "enqueue")
  /\ IF req.snap.expires # NoExpiry /\ peekJobs[key].status = "absent"
     THEN peekJobs' = [peekJobs EXCEPT ![key] =
                         [status |-> "pending", runAt |-> req.snap.expires]]
     ELSE UNCHANGED peekJobs
  /\ Advance(r)
  /\ UNCHANGED <<event, part, count, channel, bounds>>

\* Of the record as read after Upsert: nothing when it no longer expires, and
\* nothing when the job is there already.
EnqueuePeekJob(r) ==
  LET req == reqs[r]
      key == <<req.user, req.snap.peeks>> IN
  /\ At(r, "enqueue")
  /\ IF req.snap.expires # NoExpiry /\ peekJobs[key].status = "absent"
     THEN peekJobs' = [peekJobs EXCEPT ![key] =
                         [status |-> "pending", runAt |-> req.snap.expires]]
     ELSE UNCHANGED peekJobs
  /\ Advance(r)
  /\ UNCHANGED <<event, part, count, channel, bounds>>

\* Leave and Remove go on with the record if it is active.
ReadToDetach(r) ==
  LET req == reqs[r]
      p == part[req.user] IN
  /\ At(r, "read") /\ req.op \in {"leave", "remove"}
  /\ IF IsActive(p)
     THEN reqs' = [reqs EXCEPT ![r].snap = p, ![r].todo = Detachment(req.op, p)]
     ELSE End(r)
  /\ UNCHANGED <<event, part, count, channel, peekJobs, bounds>>

RemoveMember(r) ==
  /\ At(r, "remove") /\ ~ lost
  /\ channel' = channel \ {reqs[r].user}
  /\ Advance(r)
  /\ UNCHANGED <<event, part, count, peekJobs, bounds>>

\* SetStatus selects the record by its id alone and clears the expiry.
SetStatus(r) ==
  LET req == reqs[r] IN
  /\ At(r, "status")
  /\ part' = [part EXCEPT ![req.user].status = DetachedStatus(req.op),
                          ![req.user].expires = NoExpiry]
  /\ Advance(r)
  /\ UNCHANGED <<event, count, channel, peekJobs, bounds>>

-----------------------------------------------------------------------------
(* The peek_expire job of user u and PeekCount n.                          *)

\* Request r runs the job.
Runs(r, u, n) == reqs[r].op = "expire" /\ reqs[r].user = u /\ reqs[r].peeks = n

\* Mutant of Claimable: a job is taken up before its time.
ClaimableEarly(u, n) ==
  \/ peekJobs[<<u, n>>].status = "pending"
  \/ peekJobs[<<u, n>>].status = "running" /\ \A q \in Reqs : ~ Runs(q, u, n)

\* Due, or left behind as running.
Claimable(u, n) ==
  \/ peekJobs[<<u, n>>] = [status |-> "pending", runAt |-> 0]
  \/ peekJobs[<<u, n>>].status = "running" /\ \A q \in Reqs : ~ Runs(q, u, n)

RunPeekJob(r, u, n) ==
  /\ reqs[r] = Idle
  /\ Claimable(u, n) /\ Free(u)
  /\ peekJobs' = [peekJobs EXCEPT ![<<u, n>>].status = "running"]
  /\ reqs' = [reqs EXCEPT ![r] = [Idle EXCEPT !.op = "expire", !.user = u,
                                              !.peeks = n, !.todo = <<"check">>]]
  /\ UNCHANGED <<event, part, count, channel, bounds>>

\* ExpirePeek reads the record: expired, postponed, or nothing to do.
CheckExpiry(r) ==
  LET p == part[reqs[r].user]
      GoOn(todo) == reqs' = [reqs EXCEPT ![r].snap = p, ![r].todo = todo]
  IN
  /\ At(r, "check")
  /\ \/ /\ ActivePeeker(p) /\ PeekExpired(p)
        /\ GoOn(Detachment("expire", p))
     \/ /\ ActivePeeker(p) /\ ~ PeekExpired(p) /\ p.expires # NoExpiry
        /\ GoOn(<<"postpone">>)
     \/ /\ ~ ActivePeeker(p) \/ p.expires = NoExpiry
        /\ GoOn(<<"finish">>)
  /\ UNCHANGED <<event, part, count, channel, peekJobs, bounds>>

\* Reschedule: the job is to run when the expiry that was read has come.
PostponePeekJob(r) ==
  LET req == reqs[r] IN
  /\ At(r, "postpone")
  /\ peekJobs' = [peekJobs EXCEPT ![<<req.user, req.peeks>>] =
                     [status |-> "pending", runAt |-> req.snap.expires]]
  /\ End(r)
  /\ UNCHANGED <<event, part, count, channel, bounds>>

FinishPeekJob(r) ==
  /\ At(r, "finish")
  /\ peekJobs' = [peekJobs EXCEPT ![<<reqs[r].user, reqs[r].peeks>>].status = "done"]
  /\ End(r)
  /\ UNCHANGED <<event, part, count, channel, bounds>>

-----------------------------------------------------------------------------
(* The environment.                                                        *)

\* The next call of r fails, or its process dies.  A job is run again: it is
\* pending, or still running as far as the document shows.
Abort(r) ==
  LET req == reqs[r] IN
  /\ req.op \in FaultyOps
  /\ faults < MaxFaults /\ faults' = faults + 1
  /\ End(r)
  /\ IF req.op = "expire"
     THEN peekJobs' \in {peekJobs, [peekJobs EXCEPT ![<<req.user, req.peeks>>] =
                                      [status |-> "pending", runAt |-> 0]]}
     ELSE UNCHANGED peekJobs
  /\ UNCHANGED <<event, part, count, channel, called>>

Close ==
  /\ MayClose /\ open
  /\ CloseEvent
  /\ UNCHANGED <<part, count, channel, reqs, bounds>>

LoseChannel ==
  /\ MayLose /\ ~ lost
  /\ lost' = TRUE /\ channel' = {}
  /\ UNCHANGED <<open, part, count, peekJobs, reqs, bounds>>

Nearer(t) == IF t > 0 THEN t - 1 ELSE t

Tick ==
  /\ part' = [u \in Users |-> [part[u] EXCEPT !.expires = Nearer(@)]]
  /\ peekJobs' = [k \in PeekKeys |-> [peekJobs[k] EXCEPT !.runAt = Nearer(@)]]
  /\ reqs' = [r \in Reqs |-> [reqs[r] EXCEPT !.snap.expires = Nearer(@)]]
  /\ UNCHANGED <<event, count, channel, bounds>>

-----------------------------------------------------------------------------

Step(r) ==
  \/ ReadToApply(r)
  \/ Upsert(r)
  \/ ReadAfter(r)
  \/ ChannelLost(r)
  \/ AddMember(r)
  \/ AddCount(r)
  \/ CancelPeekJobs(r)
  \/ EnqueuePeekJob(r)
  \/ ReadToDetach(r)
  \/ RemoveMember(r)
  \/ SetStatus(r)
  \/ CheckExpiry(r)
  \/ PostponePeekJob(r)
  \/ FinishPeekJob(r)

Next ==
  \/ \E r \in Reqs, op \in AllOps, u \in Users : Call(r, op, u)
  \/ \E r \in Reqs, u \in Users, n \in 1..MaxRequests : RunPeekJob(r, u, n)
  \/ \E r \in Reqs : Step(r)
  \/ \E r \in Reqs : Abort(r)
  \/ Close
  \/ LoseChannel
  \/ Tick

Spec == Init /\ [][Next]_vars

\* Requests go on, time passes, and the workers take up due jobs.
Fairness ==
  /\ WF_vars(Tick)
  /\ WF_vars(\E r \in Reqs, u \in Users, n \in 1..MaxRequests : RunPeekJob(r, u, n))
  /\ \A r \in Reqs : WF_vars(Step(r))

FairSpec == Spec /\ Fairness

-----------------------------------------------------------------------------
(* Properties.                                                             *)

TypeOK ==
  /\ {open, lost} \subseteq BOOLEAN
  /\ part \in [Users -> PartRecord]
  /\ count \in Int
  /\ channel \subseteq Users
  /\ peekJobs \in [PeekKeys -> PeekJob]
  /\ reqs \in [Reqs -> Request]
  /\ called \in 0..MaxRequests /\ faults \in 0..MaxFaults

Quiescent == \A r \in Reqs : reqs[r].op = "none"

ActiveParticipants == {u \in Users : ActiveParticipant(part[u])}

\* participations.go:22: pressing "peek" never makes a peeker of somebody who
\* takes part, whatever else is in progress for the same user.
NoDemotion ==
  [][\A u \in Users : ActiveParticipant(part[u]) => ~ ActivePeeker(part'[u])]_vars

\* participations.go:95, 184: of active records exactly the peekers' expire, so
\* that no peeker is without an end and no participant has one.
ExpiryFitsRole ==
  \A u \in Users : IsActive(part[u]) =>
    (part[u].role = "peeker" <=> part[u].expires # NoExpiry)

\* docs/04 section 2.3: participantCount is the number of participants.
\* participation.go:42: pressing repeatedly has its side effects once.
CountMatches == Quiescent => count = Cardinality(ActiveParticipants)

\* domain/participation.go:90: active means a place in the event channel.
ActiveIsMember ==
  Quiescent /\ ~ lost => \A u \in Users : IsActive(part[u]) => u \in channel

\* Nobody keeps a place in the channel after leaving, expiring or removal.
MemberIsActive ==
  Quiescent => \A u \in channel : IsActive(part[u])

\* A promotion cancels the jobs of all peekers of the event (CancelPeekJobs):
\* what is said of peeks is said of events without one.
Canceled == \E k \in PeekKeys : peekJobs[k].status = "canceled"

\* docs/04 section 2.5.1: a peek ends when its time is up.  As long as the
\* event is open, there is a job that will see to it, if only one that is left
\* behind as running.
PeekHasJob ==
  Quiescent /\ open /\ ~ Canceled => \A u \in Users : ActivePeeker(part[u]) =>
    \E n \in 1..MaxRequests : peekJobs[<<u, n>>].status \in {"pending", "running"}

\* Every peek comes to an end, unless the event is closed first.
PeekersExpire ==
  \A u \in Users :
    ActivePeeker(part[u]) ~> ~ ActivePeeker(part[u]) \/ ~ open \/ Canceled

\* Somebody runs job k.
Taken(k) == \E r \in Reqs : Runs(r, k[1], k[2])

\* The jobs as the queue has them.
Contract ==
  INSTANCE JobContract WITH
    Jobs   <- PeekKeys,
    status <- [k \in PeekKeys |-> peekJobs[k].status],
    due    <- [k \in PeekKeys |-> peekJobs[k].runAt = 0],
    held   <- [k \in PeekKeys |-> Taken(k)]

\* handler.go:69-84, jobs.go:81: whatever requests, cancellations, failures and
\* lost channels come together, nothing becomes of the peek jobs that JobContract,
\* which JobQueue keeps too, does not allow.
PeekJobsAsAgreed == Contract!Spec

=============================================================================
