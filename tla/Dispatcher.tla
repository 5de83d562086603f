------------------------------ MODULE Dispatcher ------------------------------
(***************************************************************************)
(* The commands and forms of the bot that make, change and end events      *)
(* (internal/manager/bot/dispatch.go, form.go), down to what becomes of    *)
(* the channels and messages at the Provider (usecase/event.go).           *)
(*                                                                         *)
(* A request is a goroutine, and todo the list of the calls it has yet to  *)
(* make; every call is a step.  A request about an event begins by reading *)
(* it, keeps what it has read, and writes that back with its change, over  *)
(* what others have written since.  Calls of the Provider may fail, before *)
(* or after they have had their effect; the database is taken to answer,   *)
(* EventLifecycle has its failures.  What a text means is in Dates, what a *)
(* policy of reminders plans in ReminderPolicy; here a policy either makes *)
(* too many reminders or does not.  Requests that only read, and texts     *)
(* that are refused at once, change nothing and are left out.              *)
(***************************************************************************)
EXTENDS Dates, FakeProvider

CONSTANTS
  Reqs,           \* goroutines
  Users, Origins, \* who gives commands, and in which rooms
  Titles,
  NewArgs, EditArgs,   \* the title, start and end users type with the commands
  Ends,           \* the ends they type into a form
  DefaultStartTime,
  MaxReminders,   \* MaxReminders of domain/reminder.go, of one a day
  Instants,       \* the times at which something happens
  MayFail,        \* the calls of the Provider that may fail
  MaxCalls, MaxFaults   \* bounds

ASSUME DispatcherAssumption ==
  /\ EditArgs \subseteq [title : Titles \cup {""}, when : Input, ends : Input]
  /\ NewArgs \subseteq [title : Titles, when : Input, ends : Input] /\ Ends \subseteq Input
  /\ DefaultStartTime \in 0..DayLen - 1
  /\ Origins \subseteq Rooms /\ Instants \subseteq Moments
  /\ {MaxReminders, MaxCalls, MaxFaults} \subseteq Nat

\* The calendar goes on to the last start that is typed.
ASSUME CalendarAssumption ==
  \A a \in NewArgs \cup EditArgs, t \in Instants :
    ParseStartTime(a.when, t, DefaultStartTime) \in Moments \cup {Never}

VARIABLES
  now,
  recruit,   \* the recruit channel in the settings of the workspace
  events,    \* the event documents, in the order of their ids
  archives,  \* events whose archive_channel job is pending
  forms,     \* the form each user has open
  reqs,      \* what each request is doing
  crossed,   \* events two requests have been about at a time; only the properties read it
  called, faults

vars == <<providerVars, now, recruit, events, archives, forms, reqs, crossed, called, faults>>

Policies == {"standard", "daily"}

Attempts == 3

NoRefs == [announcement |-> NoPost, recruit |-> NoPost, summary |-> NoPost]

\* What a user gives an event, and what follows from it.
Given == [title : Titles, starts : Moments, ends : Int, policy : Policies]

PostIds == {NoPost} \cup (Int \X Nat)

Event == [given : Given, open : BOOLEAN, organizer : Users, origin : Origins, channel : Nat,
          archived : BOOLEAN, refs : [announcement : PostIds, recruit : PostIds, summary : PostIds]]

Creation == <<"insert", "create_channel", "set_channel", "post_announcement",
              "pin_announcement", "post_recruit", "post_summary", "pin_summary",
              "set_messages", "plan">>
\* Mutant of Cleanup: a failure is only reported.
NoCleanup == << >>
Cleanup == <<"cancel">>
\* Mutant of Redraw: the announcement in the recruit channel stays as it was.
RedrawTwo == <<"redraw_announcement", "redraw_summary">>
Redraw == <<"redraw_announcement", "redraw_recruit", "redraw_summary">>
Edit == <<"edit">> \o Redraw
Closing == <<"close">> \o Redraw
           \o <<"unpin_announcement", "unpin_summary", "post_closing", "enqueue_archive">>
Archiving == <<"archive", "set_archived">>

\* No change to a field, and the change to an end that takes it away.
NoChange == [title |-> "", starts |-> Never, ends |-> Never, clear |-> FALSE, policy |-> ""]

Idle == [op |-> "none", user |-> "", async |-> FALSE, todo |-> << >>, event |-> None,
         ev |-> << >>, recruit |-> None, attempt |-> 1, change |-> NoChange, shown |-> << >>,
         failed |-> FALSE]

NoForm == [of |-> "none"]

Init ==
  /\ ProviderInit
  /\ now \in Instants /\ \A t \in Instants : now <= t
  /\ recruit = None
  /\ events = << >>
  /\ archives = {}
  /\ forms = [u \in Users |-> NoForm]
  /\ reqs = [r \in Reqs |-> Idle]
  /\ crossed = {} /\ called = 0 /\ faults = 0

-----------------------------------------------------------------------------
(* messages.go: what a message shows.                                      *)

Announcement(e, ev) ==
  [kind |-> "announcement", event |-> e, channel |-> ev.channel, buttons |-> ev.open,
   title |-> ev.given.title, starts |-> ev.given.starts, ends |-> ev.given.ends]

Summary(e, ev) ==
  [kind |-> "summary", event |-> e, title |-> ev.given.title,
   starts |-> ev.given.starts, ends |-> ev.given.ends]

-----------------------------------------------------------------------------
(* Requests.                                                               *)

Busy(e) == \E r \in Reqs : reqs[r].event = e

Begin(r, req) ==
  /\ reqs[r] = Idle
  /\ crossed' = crossed \cup (IF req.event # None /\ Busy(req.event) THEN {req.event} ELSE {})
  /\ reqs' = [reqs EXCEPT ![r] = req]

\* The bound: a command that makes an event counts twice, and sending a form is
\* part of the command that opened it.
Command == called < MaxCalls /\ called' = called + 1
Creating == called + 1 < MaxCalls /\ called' = called + 2

Call(r, req) ==
  /\ Begin(r, req)
  /\ UNCHANGED <<providerVars, now, recruit, events, archives, faults>>

Create(r, u, room, given, async) ==
  Call(r, [Idle EXCEPT !.op = "new", !.user = u, !.async = async, !.todo = Creation,
             !.recruit = recruit,
             !.ev = [given |-> given, open |-> TRUE, organizer |-> u, origin |-> room,
                     channel |-> None, archived |-> FALSE, refs |-> NoRefs]])

\* parseEventArgs; an end that is not typed is not set.
NewCommand(r, u, room, title, when, ends) ==
  LET starts == ParseStartTime(when, now, DefaultStartTime)
      end == IF ends = Unknown THEN Never ELSE ParseEndTime(ends, starts)
  IN  /\ starts # Never /\ (ends # Unknown => end # Never)
      /\ Create(r, u, room, [title |-> title, starts |-> starts, ends |-> end,
                             policy |-> "standard"], FALSE)
      /\ Creating /\ UNCHANGED forms

\* A command in the channel of event e, which its document tells.
InChannel(e) == events[e].channel # None

\* An edit begins by reading the event.
Update(r, u, e, change, shown) ==
  Call(r, [Idle EXCEPT !.op = "edit", !.user = u, !.todo = Edit, !.event = e,
             !.ev = events[e], !.change = change, !.shown = shown])

\* parseEditArgs; an end is counted from the new start if there is one, else from now.
EditCommand(r, u, e, title, when, ends) ==
  LET starts == ParseStartTime(when, now, DefaultStartTime)
      base == IF when = Unknown THEN now ELSE starts
      end == ParseEndTime(ends, base)
  IN  /\ InChannel(e)
      /\ title # "" \/ when # Unknown \/ ends # Unknown
      /\ when # Unknown => starts # Never
      /\ ends # Unknown => end # Never
      /\ Update(r, u, e, [NoChange EXCEPT !.title = title,
                            !.starts = IF when = Unknown THEN Never ELSE starts,
                            !.ends = IF ends = Unknown THEN Never ELSE end], << >>)
      /\ Command /\ UNCHANGED forms

\* setPace
RemindCommand(r, u, e, policy) ==
  /\ InChannel(e)
  /\ Update(r, u, e, [NoChange EXCEPT !.policy = policy], << >>)
  /\ Command /\ UNCHANGED forms

\* closeEvent, and the read with which Close begins.
EndCommand(r, u, e) ==
  /\ InChannel(e)
  /\ Call(r, [Idle EXCEPT !.op = "end", !.user = u, !.todo = Closing, !.event = e,
             !.ev = events[e]])
  /\ Command /\ UNCHANGED forms

\* SetRecruitChannel and ClearRecruitChannel, of which nothing else changes the settings.
RecruitCommand(room) ==
  /\ Command
  /\ recruit' = room
  /\ UNCHANGED <<providerVars, now, events, archives, forms, reqs, crossed, faults>>

-----------------------------------------------------------------------------
(* form.go                                                                 *)

DateField(t) == Calendar[DayOf(t)]

NewEventForm(room) ==
  [of |-> "new", event |-> None, room |-> room, title |-> "",
   date |-> DateField(now + DayLen), time |-> DefaultStartTime, ends |-> Unknown,
   remind |-> "standard", shown |-> << >>]

\* Of the end only the clock time is shown.
EditEventForm(e) ==
  LET g == events[e].given IN
  [of |-> "edit", event |-> e, room |-> None, title |-> g.title,
   date |-> DateField(g.starts), time |-> ClockOf(g.starts),
   ends |-> IF g.ends = Never THEN Unknown ELSE Clock(ClockOf(g.ends)),
   remind |-> "custom", shown |-> g]

OpenForm(u, form) ==
  /\ IF form.of = "new" THEN Creating ELSE Command
  /\ forms[u] = NoForm
  /\ forms' = [forms EXCEPT ![u] = form]
  /\ UNCHANGED <<providerVars, now, recruit, events, archives, reqs, crossed, faults>>

\* Mutant of Preset: "custom" is the default policy.
PresetStandard(remind) == IF remind = "custom" THEN "standard" ELSE remind

\* "custom" leaves the policy as it is.
Preset(remind) == IF remind = "custom" THEN "" ELSE remind

FormStart(f) == ParseStartTime(Date(f.date[1], f.date[2], f.time), now, DefaultStartTime)

FormEnd(f) == IF f.ends = Unknown THEN Never ELSE ParseEndTime(f.ends, FormStart(f))

\* ParseEventForm: what it accepts.
Accepted(f) ==
  /\ f.title # ""
  /\ FormStart(f) > now
  /\ f.ends # Unknown => FormEnd(f) # Never

CloseForm(u) == forms' = [forms EXCEPT ![u] = NoForm] /\ UNCHANGED called

\* f is the form with what the user has typed.
SubmitNewEvent(r, u, f) ==
  /\ f.of = "new" /\ Accepted(f)
  /\ Create(r, u, f.room,
            [title |-> f.title, starts |-> FormStart(f), ends |-> FormEnd(f),
             policy |-> IF f.remind = "custom" THEN "standard" ELSE f.remind], TRUE)
  /\ CloseForm(u)

\* All fields are sent, an empty end takes the end away.
FormUpdate(f) ==
  [title |-> f.title, starts |-> FormStart(f), ends |-> FormEnd(f),
   clear |-> f.ends = Unknown, policy |-> Preset(f.remind)]

SubmitEditEvent(r, u, f) ==
  /\ f.of = "edit" /\ Accepted(f)
  /\ Update(r, u, f.event, FormUpdate(f), IF f = forms[u] THEN f.shown ELSE << >>)
  /\ CloseForm(u)

-----------------------------------------------------------------------------
(* usecase/event.go: the calls of a request.                               *)

At(r, call) == reqs[r].todo # << >> /\ Head(reqs[r].todo) = call

\* r has made its call, and what it knows of the event is ev.  The last call ends it.
GoOn(r, ev) ==
  LET todo == reqs[r].todo IN
  reqs' = [reqs EXCEPT ![r] = IF Len(todo) = 1 THEN Idle
                              ELSE [@ EXCEPT !.todo = Tail(todo), !.ev = ev]]

\* r makes these calls instead of the ones it has left.
Instead(r, calls, failed) ==
  reqs' = [reqs EXCEPT ![r] = IF calls = << >> THEN Idle
                              ELSE [@ EXCEPT !.todo = calls, !.failed = failed]]

\* An asynchronous creation tells its user of the result.
Told(r) == IF reqs[r].async THEN <<"notify">> ELSE << >>

Quiet == UNCHANGED <<now, recruit, forms, crossed, called>>
InDatabase == Quiet /\ UNCHANGED <<providerVars, faults>>

\* A call of the Provider is answered, fails, or fails after it has had its effect.
Answered == faults' = faults
Failed(r) ==
  /\ faults < MaxFaults /\ faults' = faults + 1
  /\ Head(reqs[r].todo) \in MayFail

WhenEnds(given) == given.ends # Never => given.ends > given.starts

\* NewEvent and the insertion of the document.  A creation that waited too long,
\* or an end before the start, is refused.
InsertEvent(r) ==
  /\ At(r, "insert")
  /\ InDatabase /\ UNCHANGED archives
  /\ LET ev == reqs[r].ev IN
     IF ev.given.starts > now /\ WhenEnds(ev.given)
     THEN /\ events' = Append(events, ev)
          /\ reqs' = [reqs EXCEPT ![r].todo = Tail(@), ![r].event = Len(events) + 1]
     ELSE Instead(r, Told(r), TRUE) /\ UNCHANGED events

\* abortProvision follows.
Abort(r) == Instead(r, Cleanup \o Told(r), TRUE)

\* channelname.Build: of the date and the title, with a number from the second attempt on.
ChannelName(ev, attempt) ==
  [date |-> DateOf(ev.given.starts), title |-> ev.given.title,
   suffix |-> IF attempt = 1 THEN 0 ELSE attempt]

\* Mutant of CreateChannel: the attempts are one short.
CreateChannelTwice(r) ==
  /\ At(r, "create_channel")
  /\ Quiet /\ UNCHANGED <<events, archives>>
  /\ LET name == ChannelName(reqs[r].ev, reqs[r].attempt) IN
     IF NameTaken(name)
     THEN /\ UNCHANGED <<providerVars, faults>>
          /\ IF reqs[r].attempt < Attempts - 1
             THEN reqs' = [reqs EXCEPT ![r].attempt = @ + 1]
             ELSE Abort(r)
     ELSE \/ CreatePrivateChannel(name) /\ Answered
             /\ GoOn(r, [reqs[r].ev EXCEPT !.channel = NextChannel])
          \/ CreatePrivateChannel(name) /\ Failed(r) /\ Abort(r)
          \/ UNCHANGED providerVars /\ Failed(r) /\ Abort(r)

\* Only a name that is taken is tried again, with the next number.
CreateChannel(r) ==
  /\ At(r, "create_channel")
  /\ Quiet /\ UNCHANGED <<events, archives>>
  /\ LET name == ChannelName(reqs[r].ev, reqs[r].attempt) IN
     IF NameTaken(name)
     THEN /\ UNCHANGED <<providerVars, faults>>
          /\ IF reqs[r].attempt < Attempts
             THEN reqs' = [reqs EXCEPT ![r].attempt = @ + 1]
             ELSE Abort(r)
     ELSE \/ CreatePrivateChannel(name) /\ Answered
             /\ GoOn(r, [reqs[r].ev EXCEPT !.channel = NextChannel])
          \/ CreatePrivateChannel(name) /\ Failed(r) /\ Abort(r)
          \/ UNCHANGED providerVars /\ Failed(r) /\ Abort(r)

SetChannel(r) ==
  /\ At(r, "set_channel")
  /\ InDatabase /\ UNCHANGED archives
  /\ events' = [events EXCEPT ![reqs[r].event].channel = reqs[r].ev.channel]
  /\ GoOn(r, reqs[r].ev)

\* A post of the creation; its id is kept until all are stored.
Posted(r, ref, channel, message) ==
  \/ /\ PostMessage(channel, message) /\ Answered
     /\ GoOn(r, [reqs[r].ev EXCEPT !.refs[ref] = NextPost(channel)])
  \/ PostMessage(channel, message) /\ Failed(r) /\ Abort(r)
  \/ UNCHANGED providerVars /\ Failed(r) /\ Abort(r)

PostAnnouncement(r) ==
  /\ At(r, "post_announcement")
  /\ Quiet /\ UNCHANGED <<events, archives>>
  /\ Posted(r, "announcement", reqs[r].ev.origin, Announcement(reqs[r].event, reqs[r].ev))

\* The recruit channel as it was when the request began, if it is another one.
PostRecruit(r) ==
  /\ At(r, "post_recruit")
  /\ Quiet /\ UNCHANGED <<events, archives>>
  /\ IF reqs[r].recruit \in {None, reqs[r].ev.origin}
     THEN GoOn(r, reqs[r].ev) /\ UNCHANGED <<providerVars, faults>>
     ELSE Posted(r, "recruit", reqs[r].recruit, Announcement(reqs[r].event, reqs[r].ev))

PostSummary(r) ==
  /\ At(r, "post_summary")
  /\ Quiet /\ UNCHANGED <<events, archives>>
  /\ Posted(r, "summary", reqs[r].ev.channel, Summary(reqs[r].event, reqs[r].ev))

\* A call whose failure is only logged, and which is left out for want of a message.
Tolerant(r, missing, Effect) ==
  /\ Quiet /\ UNCHANGED <<events, archives>>
  /\ GoOn(r, reqs[r].ev)
  /\ IF missing THEN UNCHANGED <<providerVars, faults>>
     ELSE \/ Effect /\ (Answered \/ Failed(r))
          \/ UNCHANGED providerVars /\ Failed(r)

Ref(r, name) == reqs[r].ev.refs[name]
Missing(r, name) == Ref(r, name) = NoPost

PinAnnouncement(r) ==
  /\ At(r, "pin_announcement")
  /\ Tolerant(r, Missing(r, "announcement"), PinMessage(Ref(r, "announcement")))

PinSummary(r) ==
  /\ At(r, "pin_summary")
  /\ Tolerant(r, Missing(r, "summary"), PinMessage(Ref(r, "summary")))

SetMessages(r) ==
  /\ At(r, "set_messages")
  /\ InDatabase /\ UNCHANGED archives
  /\ events' = [events EXCEPT ![reqs[r].event].refs = reqs[r].ev.refs]
  /\ GoOn(r, reqs[r].ev)

\* scheduleReminders: a policy that makes too many reminders ends the creation
\* with an error, and nothing is taken back.
Excessive(given) ==
  given.policy = "daily" /\ DayOf(given.starts) - DayOf(now) > MaxReminders

Plan(r) ==
  /\ At(r, "plan")
  /\ InDatabase /\ UNCHANGED <<events, archives>>
  /\ Instead(r, Told(r), Excessive(reqs[r].ev.given))

\* Update writes the whole of what a user gives, and the status.
Stored(e, ev) == events' = [events EXCEPT ![e].given = ev.given, ![e].open = ev.open]

CancelCreation(r) ==
  /\ At(r, "cancel")
  /\ InDatabase
  /\ Stored(reqs[r].event, [reqs[r].ev EXCEPT !.open = FALSE])
  /\ archives' = archives \cup (IF reqs[r].ev.channel = None THEN {} ELSE {reqs[r].event})
  /\ GoOn(r, reqs[r].ev)

\* An ephemeral message, which is sent once.
Notify(r) ==
  /\ At(r, "notify")
  /\ Quiet /\ UNCHANGED <<providerVars, events, archives>>
  /\ GoOn(r, reqs[r].ev)
  /\ Answered \/ Failed(r)

\* authorizeManage
MayManage(r) == reqs[r].ev.organizer = reqs[r].user

\* Event.Apply
Applied(g, c) ==
  [title |-> IF c.title = "" THEN g.title ELSE c.title,
   starts |-> IF c.starts = Never THEN g.starts ELSE c.starts,
   ends |-> IF c.clear THEN Never ELSE IF c.ends = Never THEN g.ends ELSE c.ends,
   policy |-> IF c.policy = "" THEN g.policy ELSE c.policy]

\* The event is changed and saved as it was read.
EditEvent(r) ==
  /\ At(r, "edit")
  /\ InDatabase /\ UNCHANGED archives
  /\ LET ev == [reqs[r].ev EXCEPT !.given = Applied(@, reqs[r].change)] IN
     IF MayManage(r) /\ reqs[r].ev.open /\ WhenEnds(ev.given)
     THEN Stored(reqs[r].event, ev) /\ GoOn(r, ev)
     ELSE Instead(r, << >>, TRUE) /\ UNCHANGED events

CloseEvent(r) ==
  /\ At(r, "close")
  /\ InDatabase /\ UNCHANGED archives
  /\ LET ev == [reqs[r].ev EXCEPT !.open = FALSE] IN
     IF MayManage(r) /\ reqs[r].ev.open
     THEN Stored(reqs[r].event, ev) /\ GoOn(r, ev)
     ELSE Instead(r, << >>, TRUE) /\ UNCHANGED events

\* refreshMessages
RedrawAnnouncement(r) ==
  /\ At(r, "redraw_announcement")
  /\ Tolerant(r, Missing(r, "announcement"),
              UpdateMessage(Ref(r, "announcement"), Announcement(reqs[r].event, reqs[r].ev)))

RedrawRecruit(r) ==
  /\ At(r, "redraw_recruit")
  /\ Tolerant(r, Missing(r, "recruit"),
              UpdateMessage(Ref(r, "recruit"), Announcement(reqs[r].event, reqs[r].ev)))

RedrawSummary(r) ==
  /\ At(r, "redraw_summary")
  /\ Tolerant(r, Missing(r, "summary"),
              UpdateMessage(Ref(r, "summary"), Summary(reqs[r].event, reqs[r].ev)))

UnpinAnnouncement(r) ==
  /\ At(r, "unpin_announcement")
  /\ Tolerant(r, Missing(r, "announcement"), UnpinMessage(Ref(r, "announcement")))

UnpinSummary(r) ==
  /\ At(r, "unpin_summary")
  /\ Tolerant(r, Missing(r, "summary"), UnpinMessage(Ref(r, "summary")))

PostClosing(r) ==
  /\ At(r, "post_closing")
  /\ Tolerant(r, FALSE,
              PostMessage(reqs[r].ev.channel, [kind |-> "closing", event |-> reqs[r].event]))

EnqueueArchive(r) ==
  /\ At(r, "enqueue_archive")
  /\ InDatabase /\ UNCHANGED events
  /\ archives' = archives \cup (IF reqs[r].ev.channel = None THEN {} ELSE {reqs[r].event})
  /\ GoOn(r, reqs[r].ev)

\* The worker takes up the job archive_channel, which one has at a time.
StartArchiving(r, e) ==
  /\ e \in archives
  /\ \A q \in Reqs : reqs[q].op = "archive" => reqs[q].event # e
  /\ events[e].channel # None
  /\ Begin(r, [Idle EXCEPT !.op = "archive", !.todo = Archiving, !.event = e, !.ev = events[e]])
  /\ UNCHANGED <<providerVars, now, recruit, events, archives, forms, called, faults>>

\* A job that fails is taken up again.
Archive(r) ==
  /\ At(r, "archive")
  /\ Quiet /\ UNCHANGED <<events, archives>>
  /\ \/ ArchiveChannel(reqs[r].ev.channel) /\ Answered /\ GoOn(r, reqs[r].ev)
     \/ ArchiveChannel(reqs[r].ev.channel) /\ Failed(r) /\ Instead(r, << >>, TRUE)
     \/ UNCHANGED providerVars /\ Failed(r) /\ Instead(r, << >>, TRUE)

SetArchived(r) ==
  /\ At(r, "set_archived")
  /\ InDatabase
  /\ events' = [events EXCEPT ![reqs[r].event].archived = TRUE]
  /\ archives' = archives \ {reqs[r].event}
  /\ GoOn(r, reqs[r].ev)

Tick ==
  /\ now' \in {t \in Instants : t > now}
  /\ UNCHANGED <<providerVars, recruit, events, archives, forms, reqs, crossed, called, faults>>

-----------------------------------------------------------------------------

Step(r) ==
  \/ InsertEvent(r) \/ CreateChannel(r) \/ SetChannel(r)
  \/ PostAnnouncement(r) \/ PinAnnouncement(r) \/ PostRecruit(r)
  \/ PostSummary(r) \/ PinSummary(r) \/ SetMessages(r) \/ Plan(r)
  \/ CancelCreation(r) \/ Notify(r)
  \/ EditEvent(r) \/ CloseEvent(r)
  \/ RedrawAnnouncement(r) \/ RedrawRecruit(r) \/ RedrawSummary(r)
  \/ UnpinAnnouncement(r) \/ UnpinSummary(r) \/ PostClosing(r) \/ EnqueueArchive(r)
  \/ Archive(r) \/ SetArchived(r)

Commands(r, u) ==
  \/ \E room \in Origins, a \in NewArgs : NewCommand(r, u, room, a.title, a.when, a.ends)
  \/ \E e \in DOMAIN events, a \in EditArgs : EditCommand(r, u, e, a.title, a.when, a.ends)
  \/ \E e \in DOMAIN events : EndCommand(r, u, e)
  \/ \E e \in DOMAIN events, p \in Policies : RemindCommand(r, u, e, p)

Opening(u) ==
  \/ \E room \in Origins : OpenForm(u, NewEventForm(room))
  \/ \E e \in DOMAIN events : InChannel(e) /\ OpenForm(u, EditEventForm(e))

\* What a user may make of the form before it is sent: fill in the title, and
\* perhaps another end or other reminders.
Typed(f) ==
  UNION {LET filled == [f EXCEPT !.title = t] IN
         {filled, [filled EXCEPT !.remind = "daily"]} \cup {[filled EXCEPT !.ends = e] : e \in Ends} :
         t \in IF f.title = "" THEN {a.title : a \in NewArgs} ELSE {f.title}}

Submissions(r, u) ==
  /\ forms[u] # NoForm
  /\ \E f \in Typed(forms[u]) : SubmitNewEvent(r, u, f) \/ SubmitEditEvent(r, u, f)

Next ==
  \/ \E u \in Users : Opening(u)
  \/ \E r \in Reqs, u \in Users : Commands(r, u) \/ Submissions(r, u)
  \/ \E r \in Reqs : Step(r)
  \/ \E r \in Reqs, e \in archives : StartArchiving(r, e)
  \/ \E room \in Rooms \cup {None} : RecruitCommand(room)
  \/ Tick

Spec == Init /\ [][Next]_vars

-----------------------------------------------------------------------------
(* Properties.                                                             *)

\* The variables hold what the code can put in them: an event keeps a title
\* through any edit, and what it refers to has been posted.
BotTypeOK ==
  /\ recruit \in Rooms \cup {None}
  /\ events \in Seq(Event)
  /\ \A e \in DOMAIN events :
       /\ events[e].channel \in DOMAIN channels \cup {None}
       /\ \A ref \in DOMAIN NoRefs : events[e].refs[ref] = NoPost \/ IsPost(events[e].refs[ref])
  /\ archives \cup crossed \subseteq DOMAIN events
  /\ \A r \in Reqs : reqs[r].event \in DOMAIN events \cup {None}
  /\ DOMAIN posts = Rooms \cup DOMAIN channels

\* When the requests about an event are over, and no two of them were under way
\* at a time, its announcements in each channel and its summary show the event
\* as it is stored, the announcements with buttons as long as it is open; and of
\* its messages the announcement and the summary alone are pinned, as long as it
\* is open (postAnnouncements, refreshMessages and closeMessages in
\* usecase/event.go).  The posts of reminders, whose buttons nothing takes away
\* (RecruitReminder in bot/messages.go), and the number of participants shown are
\* not modelled.
MessagesAgree ==
  \A e \in DOMAIN events \ crossed :
    faults = 0 /\ ~Busy(e) =>
      LET ev == events[e]
          ids == UNION {{c} \X DOMAIN posts[c] : c \in DOMAIN posts}
      IN  \A id \in {i \in ids : PostOf(i).message.event = e} :
            LET post == PostOf(id) IN
            /\ post.message.kind = "announcement" => post.message = Announcement(e, ev)
            /\ post.message.kind = "summary" => post.message = Summary(e, ev)
            /\ post.pinned <=> ev.open /\ id \in {ev.refs.announcement, ev.refs.summary}

\* A creation that no call failed gives its channel up only when each of the
\* names it may have had is one of another channel's, archived since or not
\* (createChannel in usecase/event.go).
GivesUpNames ==
  [][\A r \in Reqs :
       At(r, "create_channel") /\ reqs'[r].failed /\ Answered =>
         \A n \in 1..Attempts : \E c \in DOMAIN channels :
           channels[c].name = ChannelName(reqs[r].ev, n)]_vars

\* An edit form that is sent as it was shown brings back the title, start and
\* end it showed, whatever others have made of them since; and it leaves the
\* reminders as they are now, unless another request about the event was under
\* way at a time (then it may put back those it has read); provided the event
\* lasted a day at most, of an end the form shows the time alone (EditEventForm,
\* ParseEventForm and EventFormInput.Update in bot/form.go, dispatch.go).
UnchangedFormKeeps ==
  [][\A r \in Reqs :
       LET shown == reqs[r].shown
           before == events[reqs[r].event].given
           after == events'[reqs[r].event].given
       IN
       /\ At(r, "edit") /\ reqs'[r].todo = Redraw /\ shown # << >>
       /\ shown.ends <= shown.starts + DayLen
       => /\ after = [shown EXCEPT !.policy = after.policy]
          /\ reqs[r].event \notin crossed => after.policy = before.policy]_vars

\* Whatever is typed as a start or an end means at any time what
\* docs/07-bot-ux.md, section 1.2, says it means: a date without a year is one
\* to come, a time without a date the next after the start (ParseStartTime and
\* ParseEndTime in bot/datetime.go).
ParsedAsMeant ==
  called = 0 =>
    \A in \in Inputs :
      \A t \in Moments :
        /\ StartMeant(ParseStartTime(in, t, DefaultStartTime), in, t, DefaultStartTime)
        /\ EndMeant(ParseEndTime(in, t), in, t)

\* The user who sent a form is told the truth in the end, though others may
\* have been at the event meanwhile: of an event that was "created" the stored
\* document knows the channel and the messages.  One whose creation "failed" is
\* not open, if nobody else was about it while it was made (an edit that read it
\* open writes that back after the failure); but for a policy of too many
\* reminders, which the creation refuses when the event is there
\* (submitNewEvent in bot/dispatch.go, EventService.Create).
AnswersTrue ==
  [][\A r \in Reqs :
       LET e == reqs[r].event IN
       At(r, "notify") /\ reqs'[r] # reqs[r] =>
         IF reqs[r].failed
         THEN e # None /\ e \notin crossed /\ events[e].open =>
                reqs[r].ev.given.policy = "daily"
         ELSE /\ events[e].channel # None
              /\ events[e].refs.announcement # NoPost /\ events[e].refs.summary # NoPost]_vars

=============================================================================
