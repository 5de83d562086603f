# A TLA+ verification of Aso-bell

Aso-bell organises outings from a chat tool.  One *Manager* (Go, MongoDB) holds all
state and logic; a *Provider* (Slack or Discord) is paired with it over gRPC and owns
the channels and messages.  Users press buttons ("join", "peek") or give commands in
the channel of an event; the Manager's job workers do what is due later.

The modules here are translated from the Go sources under `src/`; docs are quoted only
where a property states what they promise.  Section 1 is the inventory, section 2 the
plan, sections 3 to 6 say what is modelled, checked, proved and left out.

## 1. Inventory

| Component | State | Operations | Hard behaviour | Correct when |
| --- | --- | --- | --- | --- |
| Job queue (`store/mongo/jobs.go`, `domain/job.go`) | `jobs` collection: status, runAt, attempts, leaseUntil, unique dedupeKey | Enqueue, Claim, Complete, Retry, Fail, Reschedule, ExtendLease, CancelByEvent | several processes claim; results are written by id alone; leases run out | one execution at a time, bounded attempts, ended jobs stay ended, every job ends |
| Job worker (`scheduler/worker.go`) | slots, one goroutine and one heartbeat for each job | poll, run, keepLease, complete / fail / retry | heartbeat against lease, crash, stop, lost writes | a stop leaves nothing half done, retries are bounded |
| Process life (`app/run.go`) | contexts, wait groups | Run, shutdown | order of stopping, timeout of the wait | jobs in progress can write their result |
| Job handlers (`scheduler/handler.go`) | none | reminder, peekExpire, autoEnd, archiveChannel | run late, twice, or after a change of what they are about | they re-read the state, and put themselves off |
| Participation (`usecase/participation.go`, `domain/participation.go`, `store/mongo/participations.go`) | one record for each user and event; `participantCount`; members of the channel; the announcement | Apply (join, peek), Leave, Remove, ExpirePeek | double presses, expiry against promotion, failing Provider calls | count, channel, jobs and announcement agree with the records |
| Event (`usecase/event.go`, `domain/event.go`, `store/mongo/events.go`) | event document, its channel and messages, its jobs | Create, Update, Close, ArchiveChannel, SetReminderPolicy | partial failure of long sequences, edits against ends | a closed event stays closed, is archived and quiet; an open one has an end |
| Reminders (`usecase/reminder.go`, `domain/reminder.go`) | reminder jobs by sequence, `reminder_logs` | scheduleReminders, Send | two schedulings at once, post without log | each planned time is sent once |
| Provider monitor (`providerclient/monitor.go`, `store/mongo/meta.go`) | observed state, recorded kind | Bootstrap, Refresh, Run | an exchanged Provider, counting of failures, restarts | the recorded kind never changes, and the status settles |
| Identity (`usecase/identity.go`, `store/mongo/accounts.go`) | link tokens, chat identities, console users, sessions, OAuth states | Issue, Confirm, Unlink, UnlinkChatUser | double click, failure after consumption, removal by id | a token links once, and the two it was meant for; only they remove the link |
| Workspaces (`usecase/workspace.go`, `rpc/manager.go`) | workspaces by kind and external id, settings | Sync, UpdateSettings, SetRecruitChannel | reports before the kind is known; read-modify-write of all settings | all are of the recorded kind |
| Bot (`bot/*`) | none | dispatch of commands, forms, reading of dates, what messages show | overlapping redraws, forms that are older than the event, dates without a year or an hour | messages agree with the event, what is typed means what the docs say, answers are true |
| Store on MongoDB (`store/mongo/*`) | collections, unique indexes | the operations of the repositories | order of queries, cursors, documents removed by age | keys are unique, a listing shows everything once |
| In-memory repository (`memstore/memstore.go`) | slices and maps under one lock | the same operations | where it differs from MongoDB the tests pass for nothing | it does only what MongoDB may do |
| Fake Provider (`provider/fake/*`) | channels, members, posts, pins | the calls of the Provider | - | used for the Provider in the models |
| Provider client, gRPC, config, shared libraries, commands | none of the domain | translation, wiring | - | - |

Interaction: the bot (called by the Provider over gRPC) calls the use cases; these write
MongoDB one document at a time (there are no transactions) and call the Provider; they
leave later work in the `jobs` collection; the workers claim it and call the use cases
again.  So the unit of atomicity is one MongoDB operation or one Provider call, and that is
the unit of a step, but for these.  A request's first read of the event comes with its
beginning in `Dispatcher` (`Update`, `EndCommand`) and `Participation` (`Call`), which loses nothing,
as a request may begin at any time and keeps what it has read.  Reads of things that nothing else in the module changes (the workspace,
the settings under `RecruitCommand`) are not steps of their own.  In `Dispatcher` the jobs an edit
or an end leaves behind are one step (`enqueue_archive`), or none; `Participation` has the end of
its event in one step (`Close`), and `EventLifecycle` the calls it consists of.

`PROJECT.json` lists the hazards of the code at their lines.

## 2. Plan

1. `JobQueue`, with `JobLifecycle` (what it promises) and `JobBackoff`; `JobQueueProofs`.  **done**
2. `Participation`: the records, the count, the channel, peek jobs; `ParticipationProofs`.  **done**
3. `EventLifecycle`: create, edit, close, automatic end, archive.  **done**
4. `Reminders`: sequence numbers and dedupe keys, planning by `scheduleReminders`, `Send`
   with its check, post and log, executed at least once as `JobQueue` allows.  **done**
5. `ReminderPolicy`: `Schedule` as the code's loop against a set definition; `JobBackoff`
   against its closed form.  **done**
6. `ProviderLink`: the recorded kind, the observed status, the workspaces taken over;
   `ProviderLinkProofs`.  **done**
7. `MongoStore` and `MemStore`: what the repositories promise, and the store of the tests as
   an implementation of it; `StoreProofs`.  **done**
8. `Accounts` on `MongoStore`: tokens, linking and unlinking; `AccountsProofs`.  **done**
9. `Dates`, `FakeProvider` and `Dispatcher`: commands and forms down to messages and
   channels; `DispatcherProofs`.  **done**
10. The step simulation of `ImplementsLifecycle`, in `JobQueueProofs`.  **done**
11. `EventProofs`: the types and the safety properties of `EventLifecycle`.  **done**
12. In `ParticipationProofs` the invariants of a state at rest and of the peek jobs;
    `RemindersProofs`: the policy, the types, `PlanInForce` and `PostedOnce`.  **done**
13. `JobContract`: what the queue and its users agree upon about a job, implemented by `JobQueue` and
    by the jobs of `Participation`, `EventLifecycle` and `Reminders`.  **done**
14. Open: the notation of paces and policies in the bot; the order in which the requests of
    `Participation` redraw the announcement.

## 3. Modules

**`JobQueue`** - `jobs` is the collection, one document for each dedupe key (the unique
index); `runs` is what the goroutine in each slot of each process does; `procs` whether a
process is up, draining or down.  `Claim`, `Beat`, `Finish`, `Reschedule`, `WriteResult`
and so on are the database operations and returns of `Worker.poll`, `run` and `keepLease`;
`LoseClaim`, `LoseHeartbeat`, `LoseWrite`, `Stop` and `Crash` are what goes wrong, each of a
kind that `Faults` allows and together at most `MaxFaults`.  A stop itself lets the write of an exhausted
job fail (`CanWrite`).  Time is relative: `runAt` and `lease` are times to go and `Tick`
brings everything one unit nearer.  `Tick` does not pass the moment at which a heartbeat
that is alive is due (`OnTime`): heartbeats are taken to be punctual unless the fault
`heartbeat` says otherwise, which also stands for a database call that takes longer than
half a lease.  An overdue `runAt` is remembered to `-Late` only; older jobs are claimed in any
order, a superset of the code's order.

**`JobLifecycle`** - the abstract specification: a job waits, executes once at a time, at
most `MaxAttempts` times, and ends for good.  `JobQueue` is shown to implement it by the
mapping `Stage`.

**`JobContract`** - where the queue meets those who use it.  Of each job it has the status in the
document, whether its `runAt` has come, and whether a handler is at work on it (`held`), and what
may become of the three: a job is taken up when it is due or left behind, with nobody at it; only
whoever is at work on it settles it or puts it back; a cancellation reaches pending jobs
only; handlers may be cut off at any time, and then the job stays running with nobody at it.
`JobQueue` implements it (`ImplementsContract`: a handler is at work while its goroutine
executes), and the jobs that the modules of the use cases keep in place of the queue implement
it as well (`PeekJobsAsAgreed`, `EventJobsAsAgreed`, `ReminderJobsAsAgreed`).  So these modules
and `JobQueue` are held to one agreement: in none of them does a job start before its time or
beside itself, end while nobody is at it but for want of attempts, or get canceled while it runs.
This bounds what may happen and does not say that all of it does in each module: a
claim whose answer is lost (`ClaimInVain`) and a job out of attempts (`GiveUp`) are met in
`JobQueue` only, so that the use cases are not checked against them.

**`JobBackoff`** - `domain.Backoff` as a recursive function in units of 30 seconds.

**`Participation`** - one event.  `part` is the collection of records, `count` the
`participantCount`, `channel` the members the Provider knows, `peekJobs` the peek_expire
jobs by user and `PeekCount`.  `reqs` holds the goroutines: `todo` is the list of the calls
a request has yet to make, `snap` the record it has read.  Each call is a step.  `Abort` is
a call that fails or a process that dies; a job is then pending again, or still running in its
document with nobody at it until another worker takes it up (`Claimable`).  The queue is seen from
outside, as `JobContract` has it.  A channel that is lost closes the event, and the handler of a job
passes over it (`ChannelLost`).  `Close` is one step here; `EventLifecycle` has its steps.  Messages are left out, the redrawing of
the announcement included.

**`EventLifecycle`** - one event document, its channel at the Provider (`chat`), the
announcement's buttons (`shown`), its jobs and the goroutines at work on it, in the same
form.  `Creation`, `Edit`, `Closing` and `Cleanup` are the sequences of calls of `Create`,
`Update`, `Close` and `abortProvision`.  `Fail` is a call that returns an error (within
provisioning the cleanup follows), `Crash` a process that dies or the deadline of a request,
after which the cleanup fails too.  A job whose call fails is pending again; one whose process
dies, or whose result cannot be written, stays running until it is taken up again.  Commands are given in the event's channel, so they need
the document to know the channel.

**`ReminderPolicy`** - `Valid` and `Schedule` of a policy as the code computes them, and
`Promised`, the same times as a set in the words of `docs/11-scheduler.md` 5.1.  The loop of
`intervalTimes` is what its first `k` rounds collect (`Collected`) and the first `k` at which
it is over (`LoopOver`); the sorted slice is `InOrder`.  A day is `Day` units long in every
zone.

**`Reminders`** - one event.  `jobs` holds the reminder jobs by sequence number, which is
their dedupe key; `log` is the collection `reminder_logs`, `posts` counts what reached each
channel.  A request reads the event, saves it, reads the clock, cancels and computes, reads
the next number, and goes through the times, asking the log and enqueueing; `Close` saves and
cancels with the same steps.  An execution (`execs`) is claimed, reads event and log, posts to
each channel, appends to the log, completes.  `Abort` ends a request anywhere, `Cut` an
execution in one of the `CutPhases`, `PostFails` is a refused post.  `planned` is history: the
times promised at the clock of the last planning that came to its end.

**`ProviderLink`** - the Manager and its Provider.  `provider` is the Provider itself, outside
the code; `mem` the state of the Monitor and `meta` its document in the database; `phase` is
where the goroutine of `watchProvider` is, from `load` over `poll` (Bootstrap), `sync`, `list`
and `store` (SyncFromProvider) to `watch` (Run).  Every call of the Provider and every access
to the database is a step, and the intervals and backoffs between them are left out.
`workspaces` is the collection by its key; `found` and `report` are what a synchronisation and
a ReportWorkspaces have yet to store.  A report may come in every phase in which the process runs,
as the server answers from the start and goes on when the goroutine has given up; it goes by
the kind in `mem`.  `unrecorded` is history: the workspaces stored while `meta` had no kind.  `Crash` and `Mismatch` end the process, `Start` begins
anew from `meta`; `GiveUp` is the error after which only the goroutine ends.

**`MongoStore`** - the contract of the repositories as the store on MongoDB keeps it.  `db` is
a set of documents for each collection, `ans` the answer to the last operation, `given` the
ids handed out so far, `now` the time.  An operation is one command of MongoDB; where MongoDB
leaves something open - a new id, the order of documents with equal keys, when old
documents are removed (`Reap`) - every outcome is allowed.  `KeysUnique` states the unique
indexes of `indexes.go`.

**`MemStore`** - `memstore.go`: slices in the order of insertion (`mem`), one counter of ids,
lookups that take the first match, lists sorted by counting (`Ranked`).  `Documents` turns the slices into the sets of `MongoStore`, and
`Mongo!Spec` is the refinement: each operation changes the documents and answers as the
same operation of `MongoStore` may.

**`Accounts`** - EXTENDS `MongoStore` with the requests of `usecase/identity.go`: `reqs` holds
the goroutines, and `step` the call each is about to make (`resolve`, `issue`; `consume`,
`workspace`, `link`; `list` or `get`, `unlink`).  `Abort` ends a request anywhere.  `issued` and `made` are
history: to whom each token was shown, and which token made which link.

**`Dates`** - `bot/datetime.go` on a calendar of a few days in two years: `ParseStartTime` and
`ParseEndTime` of what the patterns find in a text, and `StartMeant` and `EndMeant`, what the
docs say such a text means.

**`FakeProvider`** - the channels, posts and pins of the fake Provider; a name that a channel has
is refused to another until the first is archived.

**`Dispatcher`** - EXTENDS `Dates` and `FakeProvider` with the commands and forms of the bot and
the use cases behind them, seen from the messages: `Creation`, `Redraw`, `Closing`, `Archiving`
are sequences of calls as in `EventLifecycle`, which has the jobs and the failing database where
`Dispatcher` has names, refs, pins and the failing Provider.  `forms` is the form each user has
open, with what it showed (`shown`); `async` marks a creation out of a form, which goes on after
the form was answered and tells the user of its result (`Notify`).  An edit and an end read the
event when they begin (`ev`), and `EditEvent` and `CloseEvent` write that back with the change,
over what others have written meanwhile (`event.go:145` and `163`, `178` and `200`).  The posts of
reminders and the number of participants a message shows are not modelled.  `crossed` remembers
events that two requests have been about at a time.

The operators called mutants in the modules are variants of a definition with a plausible
bug, one for each property of a passing run: put in the place of the definition, the run
finds the property violated.  They are not used by the specifications.

## 4. Runs

| Run | Result | What it shows | Bounds |
| --- | --- | --- | --- |
| `queue` (`MCJobQueue.cfg`) | pass | `ExclusiveExecution`, `TerminalIsFinal`, `ImplementsLifecycle` and `ImplementsContract`, with punctual heartbeats | 2 jobs of different kinds, 2 processes with a slot, 2 attempts, lease 4, 2 faults |
| `queue_live` (`MCJobQueueLive.cfg`) | pass | `RetryBudget` also with a lost heartbeat, when stale workers overwrite each other, and `EveryJobEnds` under fairness, with a crash, a stop, a lost claim, heartbeat or write | the same, lease 2, 1 fault of any of the five kinds |
| `part` (`MCParticipation.cfg`) | pass | `NoDemotion`, `ExpiryFitsRole` under any interleaving and failure; the peek jobs keep to `JobContract` (`PeekJobsAsAgreed`); `PeekHasJob` and `PeekersExpire` as long as nobody has been promoted | 2 users, 2 requests at a time, 3 in all, 1 fault |
| `part_users` (`MCParticipationUsers.cfg`) | pass | count and channel agree with the records when the requests of one user and the expiry of his peek do not overlap and none fails | 3 users, 2 requests at a time, 6 in all: joins, peeks (which expire), leaves, removals, and the end of the event |
| `event` (`MCEventLifecycle.cfg`) | pass | `ClosedIsQuiet`, `OpenHasEnd`, `EventJobsAsAgreed`, `EventEnds` with operations one after another that put the date off or fail half-way | 2 goroutines, 3 commands, 2 faults |
| `event_close` (`MCEventLifecycleClose.cfg`) | pass | `NeverReopened`, `ClosedGetsArchived` with overlapping ends, creation and archive, failing or dying | 2 goroutines, 2 commands, 1 fault |
| `reminders` (`MCReminders.cfg`) | pass | `PlanInForce`, `PostedOnce`, `ReminderJobsAsAgreed`, `DueIsSent` for an event planned twice, with cut executions and failing requests | 3 policies, 2 dates, 2 channels, 1 edit or close, 1 fault |
| `provider` (`MCProviderLink.cfg`) | pass | `KindFixed`, `OneKind`: the recorded kind stays, and workspaces of two kinds do not come together, but for those reported while none was recorded, with reports at any time; `StatusSettles` | 2 kinds, 1 workspace, 3 failures to offline, 2 failing accesses, 2 crashes, 4 changes of the Provider |
| `stores` (`MCStores.cfg`) | pass | the store of the tests does only what MongoDB may do (`ImplementsMongo`), reads alike (`ReadsAgree`), and its pages join to the whole listing (`PagesJoin`) | 2 names, 3 operations on one group of collections, pages of 1 and 2 |
| `accounts` (`MCAccounts.cfg`) | pass | `TokenLinksOnce`, `LinkedByOwner`, `SpentTokenLinks`, `RemovedByOwner` and the unique keys, with overlapping, failing and late confirmations | 2 chat users, 2 console users, 2 tokens, 5 requests, 1 fault |
| `bot` (`MCDispatcher.cfg`) | pass | announcements, summary and pins agree with the event, names are not given up too early, an unchanged form changes nothing, dates mean what they say, answers are true | 2 goroutines, 1 user, 2 rooms, 2 taken names, 4 commands (a creation counts twice), 1 failing call |
| `event_reopen` (`MCEventLifecycleReopen.cfg`) | violation | an overlapping edit reopens an ended event | 1 edit, 1 end |

The violation is a finding of `PROJECT.json`, with the line of the doc that the code does not
keep.  It says where the properties of the passing runs stop: `NeverReopened` holds without an
overlapping edit.  `CountMatches` in `part_users` likewise has the presses of one user one after another.

Each module of one component has a type invariant (`TypeOK`, `AccountsTypeOK`, `BotTypeOK`).  They are in no
run of the list, because they are proved for every value of the constants (section 5).

The same models show further limits of the code that no run is kept for:

* A promotion cancels the peek_expire jobs of every peeker of the event, not only of the one who
  is promoted (`participation.go:320`); the others are then never expired, against
  `docs/04-domain-model.md` (lines 213 and 217).  `PeekHasJob` and `PeekersExpire` are therefore
  stated up to the first such cancellation (`Canceled`).
* A policy of too many reminders is refused only after it has been saved and the former
  reminders have been canceled (`event.go:169`, `reminder.go:30`), while
  `docs/11-scheduler.md` (line 123) has it refused when it is set.  The open event is left
  with no reminders at all; `PlanInForce` makes no claim then, as the planning did not come
  to its end.
* The same refusal in a creation comes when the event is open and announced: `Create` returns
  the error before it enqueues the automatic end (`event.go:114`), so the user is told of a
  failure while the event stays open.  The comment on `Create` (`event.go:63`) has a failure on
  the way abort the event.  `AnswersTrue` excepts this policy.
* An edit writes back status and policy as it has read them (`event.go:145` and `163`,
  `store/mongo/events.go:117`).  If it has read a new event that is open, and the creation fails
  and aborts the event before the edit writes, the event is open again, although its user is told
  of a failure.  If a form is sent, and `/asobell remind` saves a policy between the form's
  read and its write, the former policy comes back.  `AnswersTrue` (of a failure) and
  `UnchangedFormKeeps` (of the policy) therefore except events that two requests have been about
  at a time.  It is the fault of the run `event_reopen`; without the exception the run `bot` finds both.
* `MessagesAgree` speaks of events that no two requests have been about at a time, and of
  runs without failing calls: overlapping edits redraw in any order, an edit during a
  creation redraws nothing, as the refs are stored last, and the announcement of an aborted
  creation keeps its buttons for the same reason.
* A form sends all its fields: edits made since it was opened are overwritten.  It shows the
  end as a time of day only, so an event of more than a day is shortened by an edit that
  touches nothing (`UnchangedFormKeeps` is stated for events of a day at most).  The form of an
  event that has started is refused, though the domain lets an edit keep a past start.
* An `ends` of `+3h` without `when` in `/asobell edit` counts from now, while `docs/07-bot-ux.md`
  (section 1.2) has it relative to the start.  An end given as a date without a time is
  taken at 0:00, and so, for the date of the start, is one of the next year; 29 February without a
  year is refused in a year that does not have it.  `ParsedAsMeant` states the rules these
  cases follow from.
* The post of a reminder in the recruit channel has buttons (`reminder.go:167`), its id is in
  the log alone, and nothing redraws it: the buttons stay when the event is closed.  The
  handlers refuse them then.  `MessagesAgree` and `ClosedIsQuiet` speak of the announcements (and
  the summary) only.
* `CountMatches` fails when a user presses join and peek at once (`OneAtATime = FALSE`, 2
  requests): both find no record; the join, written second, settles as a promotion, which
  differs from what it decided, and so it skips its side effects (`participation.go:88`) as if
  another request had done them, though nobody has: the count misses a participant.
* `KindFixed` and `OneKind` fail with a Provider exchanged while the Manager runs
  (`SwapWhileUp`): `Refresh` records the new kind before it compares it (`monitor.go:129`,
  `monitor.go:215`), so that the mismatch is logged once, and after a restart the new kind is
  taken for the recorded one.  `docs/04-domain-model.md` (line 80) has the kind recorded at the
  first contact and unchangeable.
* `ReportWorkspaces` goes by the kind in the memory of the Monitor (`rpc/manager.go:55`), and the
  server answers whatever the watching goroutine does.  Before the first contact that kind is
  empty, and workspaces are stored under it, while `docs/16-grpc.md` (line 170) lets the two
  start in any order.  At the first contact it is observed before it is saved (`monitor.go:112`); if
  that save fails, the goroutine ends (`run.go:140`) and nothing is recorded, while reports go
  on being stored under the observed kind.  A Provider of another kind is then accepted at the
  next start, and workspaces of two kinds come together.  `OneKind` excepts both, the workspaces
  under the empty kind and those stored while none was recorded (`unrecorded`), and is violated
  without either exception; `docs/04-domain-model.md` (line 96) has the kind of every workspace
  the recorded one.
* At a later start a Provider of another kind may report before `Bootstrap` compares it; its
  workspaces are stored under the recorded kind, as the report does not say of which kind they
  are.  The properties speak of the kind a document states.
* `StatusSettles` says nothing of a watcher that has given up: one failed access to `meta` at
  start-up ends it (`run.go:140`), and the status stays what it was until the next start.
* `OpenHasEnd` fails with dates that are brought forward (`MayAdvance`, one edit): `Update`
  leaves the event_auto_end job where it is (`event.go:169`), while the table of
  `docs/11-scheduler.md` (line 104) has a change of date generate one.
* `ClosedGetsArchived` fails when Close itself fails (`FaultyOps = {"auto_end"}`): the status
  is written first, so the retry finds the event closed and returns (`event.go:196`), and
  the archive job is never enqueued.
* `PlanInForce` fails with two requests that overlap (`OneAtATime = FALSE`): both take the
  same number, the second job is refused by the key, and `enqueue` takes that for success.
* `PostedOnce` fails without `Prompt`: between the clock of a planning and its look at the log
  a reminder falls due, and it is planned again before its execution has written the
  log; both are posted.  It fails too when an execution is cut off between its first post
  and the log (`CutPhases = {"post"}`).  With `Prompt` no time planned can be in the log, so
  `SentAt` (`reminder.go:42`) matters only to slow plannings.
* A reminder that is due and not claimed yet, or waits for its retry, is canceled by an edit and
  not planned again, being past; `DueIsSent` lets it go.
* `heartbeat` in the faults of `queue` breaks `ExclusiveExecution`: a heartbeat that cannot
  extend the lease once gives up for good (`worker.go:238`), and a second worker executes the
  job beside the first.
* A stop loses the write that fails an exhausted job (`worker.go:180` uses the context of
  Run); the job is taken up again after its lease.
* A failure of `AddMember` (`FaultyOps = {"join"}` in `part_users`) leaves an active record
  without a place in the channel, and joining again does nothing.
* A peeker who joins while the expiry is between its read and its write (`participation.go:354`)
  is expired as a participant.
* End and cancel that overlap both find the event open, and the second overwrites status
  and reason of the first; the event stays closed.
* When `SetChannel` fails, the archive job of the aborted creation finds no channel in the
  event document and leaves the channel that was made: `ClosedGetsArchived` therefore speaks
  of channels that the document knows of.

*Bounds.*  Two processes are enough for every race about one job, as a race is between a
goroutine and one other that has taken the job over; two jobs are needed for the order of
claims and for cancelling by kind.  `MaxAttempts = 2` has a first, a last and an exhausted
attempt.  Lease 4 is the smallest with heartbeats strictly inside it; with lease 2, the
smallest the heartbeat divides, a lost heartbeat is soonest felt.  In Participation the
races are between two requests; a third request is needed to leave and come back.  In
EventLifecycle two operations race, or one with a job.  The counters `faults`, `moves`,
`called` are the only ones the code lets grow without end, and have a bound each.
In Reminders one edit after the creation gives two plannings, so numbers collide if they
can; the start, 3 or 4, leaves time before, between and after the reminders; `MaxReminders`
is 2, so that the third policy exceeds it from one date and is within it from later on, and
the clock stops with the latest start, when nothing can be posted any more.
In ProviderLink three failures in a row lead to offline, the code's default; two exchanges
with a crash before each, or a crash in the middle of a synchronisation and another after it,
fit the bounds.  With all of them used up and the watcher given up nothing happens any more,
so that run does not look for deadlocks.  One workspace is enough, as each is stored on its own;
two documents of two kinds for it are what `OneKind` rules out, and the theorem has any number.
In the stores an operation looks at the documents of one group of collections, so each group is
taken on its own; two operations make a state in which a key is taken, and a third meets it.
In Accounts five requests are two issues, two confirmations and a removal, so that a token can
be used twice, by the wrong user, late, or again after an unlink.  Requests are told apart only
by what they do, and `VIEW` leaves the last answer out of the state.
In the bot's run a creation and two more commands, or two creations, can overlap; two taken names
with three attempts leave one name free, so that the last attempt matters; `MayFail` has one call
of each kind that is handled differently (given up, tolerated, retried by the job, reported);
`Instants` are a time before the event and one after; the calendar has a leap day in its
second year only.  Nothing is left to do when the commands are used up, and the run does not look
for deadlocks.
`MaxAttempts` failures of one peek or lifecycle job are not reached there: a job that fails
that often ends as failed, as `JobQueue` shows.

*Fairness.*  Time passes; every process polls (a ticker, `worker.go:102`), and is started
again after it ended (the deployment's restart policy); handlers return (every Provider call
has a deadline), heartbeats fire, and a write is made or lost.  Claims are fair for all slots
together, not for each.  In Participation and EventLifecycle a request that has begun goes
on (a failure ends it), and the workers take up due jobs, which `EveryJobEnds` and the
queue's order by `runAt` justify.  In Reminders only the executions are fair: time may stand still, so that a due
reminder cannot be excused by a start that comes.  In ProviderLink the watching goroutine goes on (its calls have deadlines, its ticker ticks),
and a Manager that went down is started again.  Users' operations, reports and faults have no
fairness.  `MemStore`, `Accounts` and `Dispatcher` state safety only.

*Symmetry* is used in runs of safety properties only: of processes, goroutines, and users other
than the organizer.

## 5. Proofs

`JobQueueProofs` holds, for every value of the constants that their assumptions admit:

* `TypeCorrect` - `Spec => []TypeOK`.  `attempts` and `spent` stay in `Nat` although
  `Reschedule` decrements both, which needs the second invariant: a goroutine that handles
  a job holds one of its attempts.
* `BudgetKept` - `Spec => []RetryBudget`, whatever the faults.  The invariant `BudgetInv`
  adds to the types `RunOK` (the attempt of a handling goroutine is within `1..MaxAttempts`
  and not above the document's) and `Charged`: of each job, the goroutines handling it are no
  more than the executions charged, and those no more than its attempts.  Without the first
  part a reschedule could bring `spent` below zero; without the second the bound on
  attempts would say nothing of executions.
* `Exclusive` and `Final` - `[]ExclusiveExecution` and `TerminalIsFinal`, from the
  assumption `PromptHeartbeats` (the fault `heartbeat` does not occur; section 4 says
  what happens if it does).  The invariant `LeaseInv` says that the job
  of a working goroutine is running with the lease reaching at least as far as the next
  heartbeat, and that no two work on one job; so nothing can be claimed from a
  goroutine that works, and only its own write ends or revives a job.

`ParticipationProofs`.  The first three have no assumption but those on the sizes of the
constants: any number of users and of requests at a time, with or without overlap and failures,
any durations.

* `TypeCorrect` - `Spec => []TypeOK`.  The part that is not obvious is that `PeekCount`
  stays within the operations called, as it is part of the key of a job: the invariant
  `PeeksCounted` adds the presses of "peek" that are still to be written.
* `ExpiryKept` - `Spec => []ExpiryFitsRole`.  The writers are `Upsert`, `SetStatus` and the
  passing of time; that `SetStatus` only ever makes a record inactive needs to know which
  requests get there, which `RequestOK` says: `Remaining` names, for each kind of request
  and what it has settled or read, the calls that may still be ahead of it.
* `Undemoted` - `Spec => NoDemotion`, from the same invariant `PartInv`.
* `CountRight`, `ActivePlaced` and `PlacedActive` - `[]CountMatches`, `[]ActiveIsMember` and
  `[]MemberIsActive`, from `Undisturbed`: whatever people press, peeks that expire included, the
  requests for one user and the expiry of his peek come one after another, none breaks off, and
  nobody deletes the channel, as in the run `part_users`; section 4 says what happens
  otherwise.  All three speak of moments at which no request is under way, so that
  the invariant `CalmInv` has to say what is true at the others.  `Standing` is what a user's record
  makes of him, `Placed` that he has the place that goes with it, and `Doing` lists, for each call
  a request may have ahead, the standing and the place its user then has; `Owes` says which requests have written a record that is not in the count yet;
  and the count is the number of users who are active, but for those of owing
  requests (`Counted`).
* `PeekEnds` - `[]PeekHasJob`, from `"peek" \notin FaultyOps` alone: any overlap, any other
  failures, a channel deleted by hand.  The invariant `JobsInv`: a job that
  a request runs is running, and no other request runs it (`RunsMatch`); no job has a key beyond the user's `PeekCount`
  (`KeysInOrder`), so that the next one is not swallowed by the unique index; the job of a peek
  that goes on is neither done nor about to be (`NoneOver`); and somebody sees to every peek:
  a job that is pending or left behind as running, a request that is going to enqueue one, or a run that is going to put it
  off or to end the peek (`SeenTo`).  The last part alone is not inductive, as a job that finishes
  could be the one that was relied on.
* `PeekJobsContract` - `Spec => PeekJobsAsAgreed`, with no assumption on what overlaps, fails or dies.
  Of `JobsInv` it takes `RunsMatch` and `PartInv` only (`MatchInv`).  Every step of a request is sorted
  by what the queue sees of it: a job is enqueued, taken up, settled, put back, abandoned, or
  pending ones are canceled; that a settled job was running, and that nobody else was at it,
  is what `RunsMatch` is for.

`RemindersProofs`, for every policy and date, any number of requests, jobs and channels, and
whatever fails:

* `ScheduleKeepsPromise` - what `Schedule` returns is what the policy promises, each time once and
  in order: the loop of `intervalTimes` ends, its rounds are the multiples of the
  interval, and within the limit it stops for no other reason than the last reminder.
* `TypeCorrect` - `Spec => []TypeOK`, with the invariant `TypeInv` that what is running or done was
  due, and that a worker holds a running job.
* `PlanKept` - `[]PlanInForce`, from `Calm`: requests come one after another and no time passes while
  one plans, as in the run `reminders`.  The invariant `PlanInv` describes the request
  that is planning: the event it has is the saved one, its clock is now, the pending jobs are
  those of the promised times it has enqueued already, and the numbers from its next one on are
  free (`Fits`).
* `ToldOnce` - `[]PostedOnce`, from `Calm` and `Whole`: no execution is cut off between its first
  post and its log, and the channels differ.  `PostInv` adds that no two jobs that are not canceled
  are for one time, that nothing is posted before its time, and that what has been posted of a
  job is in the log or behind its worker (`Told`).  It needs `PlanInv`: a time is only
  enqueued anew while it is ahead, when nothing of it can have been posted.
* `ReminderJobsContract` - `Spec => ReminderJobsAsAgreed`, with no assumption, from `TypeInv`: a
  worker holds a running job, so that no cancellation of the pending ones can meet it.

`JobQueueProofs` has the refinements, too:

* `Refinement` - `Spec => ImplementsLifecycle`, from `PromptHeartbeats`.  To the two
  invariants it adds `OpenResult` (an execution in progress has no result yet), so that no
  handler passes for an exhausted job.  `Stage` makes a job execute while a goroutine works on
  it, and every action is shown to be a step of `JobLifecycle` or a stutter: a claim is
  `Execute`, or the end of an exhausted job's waiting; a write or a crash lays the job down,
  which `LeaseInv` makes the only place where it was being executed.
* `ContractKept` - `Spec => ImplementsContract`, from `PromptHeartbeats` and the same invariants.  A
  goroutine whose result is written, lost or never made leaves the job with nobody at it
  because no second goroutine works on it; and a claim finds nobody at work, because the lease
  of a job somebody works on has not run out.  `PeekJobsContract`, `EventJobsContract` and
  `ReminderJobsContract` are the same for the jobs of the use cases: what each module takes for
  granted of the queue, one execution at a time above all, is what is proved of the queue here.

`ProviderLinkProofs`, from `OrderlyProvider` (the Provider is exchanged only while the Manager is
down; section 4 says what happens otherwise), with reports at any time:

* `TypeCorrect`, `KindKept` and `KindForGood` - `[]TypeOK`, `[]OneKind` and `KindFixed`.  The
  invariant `PairInv` says in which phases memory and record agree on the kind
  (`MemFollowsMeta`), that the Provider is of that kind for as long as the Manager watches it
  (`MemFollowsProvider`), that a synchronisation stores what is of the recorded kind
  (`FoundIsRecorded`), and a report what is of the kind in memory or of none
  (`ReportIsObserved`).

`AccountsProofs`, without assumptions but those on the constants:

* `LinksOnce`, `OwnersLink`, `NoTokenInVain`, `KeysKept`, `OwnersUnlink`, each for a property of
  the run `accounts`, and `TypeCorrect` for `AccountsTypeOK`.  The invariant `LinkInv`: a token
  that a request has consumed and not yet turned into a link (`Holds`) is used up, is held by
  no other request and has made nothing (`HoldersOK`); what has made a link is used up
  (`MadeOK`); an id is given to one document only, so that the removal by id hits the link that
  was read or none (`RemoversOK`).

`EventProofs`:

* `TypeCorrect` - `Spec => []TypeOK`.  That `FinishJob` finishes a job of the event, and
  `todo` consists of calls only, takes the invariant `RequestOK`: the calls ahead of a request
  are calls of its operation (`CallsOf`), each followed by what may follow it (`NextCalls`).
  `Advanced`, `Turned`, `Ended` and `Begun` then speak of a request by its operation, its next
  call and what it has read, and no later proof sees a sequence.
* `StaysClosed` - `Spec => NeverReopened`, if operations that write the event
  come one after another or nobody edits it (the run `event_reopen` is what happens otherwise),
  with any failures.  The invariant `StatusInv` says what a request is about to write
  (`WritesOK`), that before the event is there only its creation is under way (`Unborn`,
  `InsertsOnce`), and that an edit without overlap writes an event that is open (`OneByOne`).
* `EndPlanned` and `ClosingCompletes` - `[]OpenHasEnd` and `[]ClosedIsQuiet`,
  from `Orderly`: operations one after another, dates only put off, only edits and the archiving
  failing, as in the run `event`, and a goroutine to serve a request.  Section 4 says what happens
  otherwise.  Of the request that may be writing the event (`Lead`), `OrderInv` says what it
  knows, and what it is still about to do where event, jobs and announcement do not yet agree
  (`EndAhead`, `PostedKnown`, `QuietAhead`); when it has ended they do.
* `EventJobsContract` - `Spec => EventJobsAsAgreed`, with no assumption on what overlaps, fails or dies.
  `MatchInv` adds to the types that the job a goroutine runs is running and nobody else runs it
  (`RunsMatch`).

`StoreProofs`, for any ids, names, counts and times; of each constant only what
`MemStoreAssumption` says is used:

* `StoreTyped` - `[]StoreInv`: the records have the fields they should have, no two of a
  collection have the same id, no id is greater than the counter, a map is keyed by the ids of
  its values.  It is inductive as it stands, and what makes a place in a slice stand for one
  document: with it replacing an element of a slice replaces one document of a set, and
  `slices.Delete` removes one (`UpdateIs`, `RemoveIs`).
* `ImplementsStore` - `Spec => ImplementsMongo`.  Each operation has a lemma (`UpsertWorkspaceStep`,
  `ClaimStep`, ...) that makes it a step of the operation of `MongoStore` with that name, with the
  same answer; where MongoDB may choose, among the jobs that are due first, the lemma shows
  that the store's choice is one of the allowed.
* `ReadsRight` - `[]ReadsAgree`.  `RankedIs` says of `Ranked` that it enumerates a finite set of
  places in a strict order, which rests on counting what comes before each (`EachRank`);
  `ListedByField` carries this over to the documents, for each of the listings.
* `PagesRight` - `[]PagesJoin`.  `AfterCursor`: because the ids differ, what a cursor leaves
  is the rest of the sorted list, from the next place on (`RankedOnly`: a list of the set in its
  order is the only one); `PageIs` says of a page where it ends.  `PagedIs` gives the function that
  follows the cursors in closed form, which shows that the recursive definition has a
  solution, and that there is no other by the least page on which two would differ.

`DispatcherProofs`, for any calendar whose years and days are in order (`DatesAssumption`), that
goes on to the last start anybody types (`CalendarAssumption`), any inputs, numbers of users,
goroutines, rooms and taken names, and whatever fails:

* `TypedAsMeant` - `[]ParsedAsMeant`.  A moment is a day of the calendar and a clock time in one
  way (`TimeParts`, `SameMoment`); `DateIsMeant` shows that the year the code puts in makes
  the date the next of its kind, `NextClock` the same of a clock time.
* `TypeCorrect` - `[]BotTypeOK`.  `TypeInv` says, as in `EventProofs`, that the calls ahead of a
  request are those of its operation in their order, and of a form that it is one the code
  has opened, for an event that was there; that an end is after its start wherever one is
  written.  `RefInv` says what a request knows: what it refers to has been posted and is about
  its event (`RefsOK`), channels exist, and how far a creation has come (`Progress`).
* `ToldTheTruth` - `AnswersTrue`, from `Progress`: a creation that is about to report a success has
  left the stored document `Complete`, and no later step of any request takes that back
  (`DocsGrow`); and from `FreshInv`: as long as no two requests have been about an event, what
  an edit or an end has read is what is stored, and the event of a creation that failed stays
  closed.  It needs `AgreeInv`, of which it takes that two requests about one event make it
  `crossed`, and `StepLeaves`: a step leaves the other events as they are.
* `NamesInUse` - `GivesUpNames`: the names tried have been in use (`TriedNames`), and a channel
  keeps its name.
* `FormKeeps` - `UnchangedFormKeeps`.  `AsShown`: reading back the date, time and end a form shows
  gives the start and the end again, as the date is one of the calendar with its year, and
  an end at most a day after the start is the next of its clock time.  `SentAsShown` carries it to
  the moment the edit is applied; that the policy written is the stored one is `FreshInv` again.
* `MessagesShow` - `[]MessagesAgree`, of announcements and summary.  While a request is at work messages and document do not
  agree; `AgreeInv` says for each call ahead where they differ: by which refs the posts are
  known (the creation has them, and stores them last; `RefsIn`), which messages have yet to be
  redrawn (`StaleIn`), which are pinned (`PinsIn`), and that a request alone with its event has
  read it as it is stored (`Knows`).  A step of one request is seen to leave the posts of
  every other event alone (`PostsGrow`), and to bring those of its own to what the next call
  expects; the announcement and the summary are told apart by what they show (`RefsDiffer`).

Each proof is a lemma for Init, one for the steps with a case for each action, and a
temporal step.  Every invariant and every action property of the passing runs is proved.  The
liveness properties (`EveryJobEnds`, `PeekersExpire`, `EventEnds`, `ClosedGetsArchived`,
`DueIsSent`, `StatusSettles`) are checked with TLC only, as fairness is out of the prover's reach,
and so is what the recursive definitions of `JobBackoff` compute, which needs induction over data.

## 6. Not modelled

* Wording of texts, the splitting of a command into words, the notation of paces and policies;
  time zones and summer time, which make an interval of whole days longer or shorter.
* Authentication, and sessions and OAuth states beyond their place in the store.
* The translation of documents to gRPC and MongoDB, and generated code (`src/gen`, half of the
  implementation's lines).
* In `EventLifecycle` reminders are one flag; `Reminders` has them.  The removal of ended jobs
  after 30 days is in `MongoStore`, and not in `JobQueue`.
* The two real Providers, which the repository only has as command stubs; the fake one stands
  for them.
* Reading of settings, start-up and wiring, the servers, health, and the console's files.
