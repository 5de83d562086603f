---------------------------- MODULE EventProofs ----------------------------
(***************************************************************************)
(* Theorems about the life of an event, for any number of goroutines,      *)
(* operations and failures, and any dates: the types; that what is closed  *)
(* stays closed; and that every open event has an automatic end ahead and  *)
(* a closed one comes to rest.                                             *)
(***************************************************************************)
EXTENDS EventLifecycle, SequenceTheorems, TLAPS

-----------------------------------------------------------------------------
(* The invariant about requests.                                           *)

\* The call a request is about to make.
CallOf(req) == IF req.todo = << >> THEN "none" ELSE Head(req.todo)

Closers == {"end", "cancel", "auto_end"}

CallsOf(op) ==
  CASE op = "create" ->
         {"insert", "organizer", "channel", "set_channel", "post", "set_messages",
          "drop_reminders", "remind", "plan_end", "abort", "plan_archive"}
    [] op = "update" -> {"read", "write", "redraw", "drop_reminders", "remind"}
    [] op \in {"end", "cancel"} -> {"read", "write", "redraw", "drop_jobs", "plan_archive"}
    [] op = "auto_end" -> {"check", "postpone", "read", "write", "redraw", "drop_jobs",
                           "plan_archive", "finish"}
    [] op = "archive_channel" -> {"look", "archive", "set_archived", "finish"}
    [] op = "none" -> {}

\* What may come after a call; "none" is the end of the request.
NextCalls(op, call) ==
  CASE call = "insert" -> {"organizer"}
    [] call = "organizer" -> {"channel"}
    [] call = "channel" -> {"set_channel"}
    [] call = "set_channel" -> {"post"}
    [] call = "post" -> {"set_messages"}
    [] call = "set_messages" -> {"drop_reminders"}
    [] call = "drop_reminders" -> {"remind"}
    [] call = "remind" -> IF op = "create" THEN {"plan_end"} ELSE {"none"}
    [] call = "abort" -> {"plan_archive", "none"}
    [] call = "write" -> {"redraw"}
    [] call = "redraw" -> IF op = "update" THEN {"drop_reminders"} ELSE {"drop_jobs"}
    [] call = "drop_jobs" -> {"plan_archive"}
    [] call \in {"plan_archive", "read"} -> IF op = "auto_end" THEN {"finish"} ELSE {"none"}
    [] call = "archive" -> {"set_archived"}
    [] call = "set_archived" -> {"finish"}
    [] call \in {"plan_end", "check", "postpone", "look", "finish"} -> {"none"}

\* The calls ahead of a request are those of its operation, in their order.
InPlace(op, todo, i) ==
  /\ todo[i] \in CallsOf(op)
  /\ (IF i < Len(todo) THEN todo[i + 1] ELSE "none") \in NextCalls(op, todo[i])

InOrder(op, todo) == \A i \in 1..Len(todo) : InPlace(op, todo, i)

RequestOK(req) ==
  /\ req.op = "none" <=> req.todo = << >>
  /\ InOrder(req.op, req.todo)

RequestsOK == TypeOK /\ \A r \in Reqs : RequestOK(reqs[r])

-----------------------------------------------------------------------------
(* Requests.                                                               *)

LEMMA TodoLemma ==
  ASSUME NEW S, NEW todo \in Seq(S), todo # << >>
  PROVE  /\ Head(todo) \in S /\ Head(todo) = todo[1] /\ 1 \in 1..Len(todo)
         /\ Tail(todo) \in Seq(S) /\ Len(Tail(todo)) = Len(todo) - 1
         /\ \A i \in 1..Len(Tail(todo)) : Tail(todo)[i] = todo[i + 1]
         /\ Len(todo) = 1 <=> Tail(todo) = << >>
<1>1. Len(todo) \in Nat \ {0} /\ Head(todo) = todo[1] /\ Head(todo) \in S
  OBVIOUS
<1>2. /\ Tail(todo) \in Seq(S) /\ Len(Tail(todo)) = Len(todo) - 1
      /\ \A i \in 1..Len(Tail(todo)) : Tail(todo)[i] = todo[i + 1]
  BY <1>1
<1>3. Tail(todo) = << >> <=> Len(Tail(todo)) = 0
  BY <1>2, EmptySeq
<1> QED
  BY <1>1, <1>2, <1>3

LEMMA NoEventLemma == NoEvent \in EventDoc
BY DEF NoEvent, EventDoc, ChannelStates

LEMMA IdleLemma ==
  Idle \in Request /\ RequestOK(Idle) /\ CallOf(Idle) = "none" /\ Idle.op = "none"
<1>1. << >> \in Seq(Steps) /\ Len(<< >>) = 0
  OBVIOUS
<1>2. Idle \in Request
  BY <1>1, NoEventLemma DEF Idle, Request
<1> QED
  BY <1>1, <1>2 DEF Idle, RequestOK, InOrder, CallOf

\* A call is made by a request that has it ahead.
LEMMA AtLemma ==
  ASSUME RequestsOK, NEW r \in Reqs, NEW step, At(r, step)
  PROVE  /\ step = CallOf(reqs[r]) /\ step \in CallsOf(reqs[r].op) /\ step \in Steps
         /\ reqs[r].todo # << >> /\ reqs[r].op # "none"
         /\ reqs[r] \in Request /\ reqs[r].snap \in EventDoc
<1>1. reqs[r] \in Request /\ reqs[r].todo \in Seq(Steps) /\ reqs[r].todo # << >>
  BY DEF RequestsOK, TypeOK, Request, At
<1> QED
  BY <1>1, TodoLemma DEF RequestsOK, RequestOK, InOrder, InPlace, At, CallOf, Request

\* The last call ends the request; otherwise the next call comes.
LEMMA AdvanceLemma ==
  ASSUME RequestsOK, NEW r \in Reqs, NEW step, At(r, step),
         NEW snap \in EventDoc, Advance(r, snap)
  PROVE  /\ reqs' = [reqs EXCEPT ![r] = reqs'[r]]
         /\ reqs'[r] \in Request /\ RequestOK(reqs'[r])
         /\ CallOf(reqs'[r]) \in NextCalls(reqs[r].op, step)
         /\ \/ reqs'[r] = Idle
            \/ reqs'[r].op = reqs[r].op /\ reqs'[r].snap = snap
               /\ CallOf(reqs'[r]) # "none"
<1> DEFINE op == reqs[r].op
           todo == reqs[r].todo
<1>1. /\ reqs[r] \in Request /\ todo \in Seq(Steps) /\ todo # << >> /\ Head(todo) = step
      /\ RequestOK(reqs[r]) /\ InOrder(op, todo) /\ op # "none"
      /\ reqs \in [Reqs -> Request]
  BY DEF RequestsOK, RequestOK, TypeOK, Request, At
<1>2. CASE Len(todo) = 1
  <2>1. "none" \in NextCalls(op, step)
    BY <1>1, <1>2, TodoLemma DEF InOrder, InPlace
  <2>2. reqs' = [reqs EXCEPT ![r] = Idle]
    BY <1>2 DEF Advance, End
  <2> QED
    BY <1>1, <2>1, <2>2, IdleLemma
<1>3. CASE Len(todo) # 1
  <2>1. /\ reqs' = [reqs EXCEPT ![r].todo = Tail(todo), ![r].snap = snap]
    BY <1>3 DEF Advance
  <2>2. reqs'[r] = [reqs[r] EXCEPT !.todo = Tail(todo), !.snap = snap]
    BY <1>1, <2>1
  <2>3. /\ reqs' = [reqs EXCEPT ![r] = reqs'[r]]
        /\ reqs'[r] = [op |-> op, todo |-> Tail(todo), snap |-> snap]
    BY <1>1, <2>1, <2>2 DEF Request
  <2>4. Tail(todo) \in Seq(Steps) /\ Tail(todo) # << >> /\ Head(Tail(todo)) = todo[2]
    BY <1>1, <1>3, TodoLemma
  <2>5. todo[2] \in NextCalls(op, step) /\ todo[2] \in Steps
    BY <1>1, <1>3, TodoLemma DEF InOrder, InPlace
  <2>6. InOrder(op, Tail(todo))
    <3> SUFFICES ASSUME NEW i \in 1..Len(Tail(todo))
                 PROVE  InPlace(op, Tail(todo), i)
      BY DEF InOrder
    <3>1. /\ Len(todo) \in Nat /\ Len(Tail(todo)) = Len(todo) - 1
          /\ i + 1 \in 1..Len(todo) /\ Tail(todo)[i] = todo[i + 1]
      BY <1>1, TodoLemma
    <3>2. CASE i < Len(Tail(todo))
      <4>1. i + 1 < Len(todo) /\ Tail(todo)[i + 1] = todo[(i + 1) + 1]
        BY <1>1, <3>1, <3>2, TodoLemma
      <4> QED
        BY <1>1, <3>1, <3>2, <4>1 DEF InOrder, InPlace
    <3>3. CASE ~(i < Len(Tail(todo)))
      <4>1. ~(i + 1 < Len(todo))
        BY <3>1, <3>3
      <4> QED
        BY <1>1, <3>1, <3>3, <4>1 DEF InOrder, InPlace
    <3> QED
      BY <3>2, <3>3
  <2>7. "none" \notin Steps
    BY DEF Steps
  <2>8. reqs'[r] \in Request
    BY <1>1, <2>3, <2>4 DEF Request
  <2>9. CallOf(reqs'[r]) = todo[2]
    BY <2>3, <2>4 DEF CallOf
  <2>10. RequestOK(reqs'[r])
    BY <1>1, <2>3, <2>4, <2>6 DEF RequestOK
  <2> QED
    BY <2>3, <2>5, <2>7, <2>8, <2>9, <2>10
<1> QED
  BY <1>2, <1>3

-----------------------------------------------------------------------------
(* The lists of calls that requests are given.                             *)

IsCourse(op, todo) ==
  todo \in Seq(Steps) /\ todo # << >> /\ InOrder(op, todo)

LEMMA CourseLemma ==
  ASSUME NEW op, NEW todo \in Seq(Steps), Len(todo) # 0,
         \A i \in 1..Len(todo) : InPlace(op, todo, i)
  PROVE  IsCourse(op, todo) /\ Head(todo) = todo[1]
<1>1. todo # << >>
  BY EmptySeq
<1> QED
  BY <1>1, TodoLemma DEF IsCourse, InOrder

LEMMA CreationLemma == IsCourse("create", Creation) /\ Head(Creation) = "insert"
<1>1. Creation \in Seq(Steps) /\ Len(Creation) = 9 /\ Head(Creation) = "insert"
  BY DEF Creation, Steps
<1>2. /\ Creation[1] = "insert" /\ Creation[2] = "organizer" /\ Creation[3] = "channel"
      /\ Creation[4] = "set_channel" /\ Creation[5] = "post" /\ Creation[6] = "set_messages"
      /\ Creation[7] = "drop_reminders" /\ Creation[8] = "remind" /\ Creation[9] = "plan_end"
  BY DEF Creation
<1>3. ASSUME NEW i \in 1..9
      PROVE  InPlace("create", Creation, i)
  BY <1>1, <1>2, <1>3 DEF InPlace, CallsOf, NextCalls
<1>4. Len(Creation) # 0 /\ \A i \in 1..Len(Creation) : InPlace("create", Creation, i)
  BY <1>1, <1>3
<1> QED
  BY <1>1, <1>4, CourseLemma

LEMMA EditLemma == IsCourse("update", Edit) /\ Head(Edit) = "write"
<1>1. /\ Edit \in Seq(Steps) /\ Len(Edit) = 4 /\ Head(Edit) = "write"
      /\ Edit[1] = "write" /\ Edit[2] = "redraw" /\ Edit[3] = "drop_reminders"
      /\ Edit[4] = "remind"
  BY DEF Edit, Steps
<1>2. ASSUME NEW i \in 1..4
      PROVE  InPlace("update", Edit, i)
  BY <1>1, <1>2 DEF InPlace, CallsOf, NextCalls
<1>3. Len(Edit) # 0 /\ \A i \in 1..Len(Edit) : InPlace("update", Edit, i)
  BY <1>1, <1>2
<1> QED
  BY <1>1, <1>3, CourseLemma

LEMMA ClosingLemma ==
  ASSUME NEW op \in {"end", "cancel"}
  PROVE  IsCourse(op, Closing) /\ Head(Closing) = "write"
<1>1. /\ Closing \in Seq(Steps) /\ Len(Closing) = 4 /\ Head(Closing) = "write"
      /\ Closing[1] = "write" /\ Closing[2] = "redraw" /\ Closing[3] = "drop_jobs"
      /\ Closing[4] = "plan_archive"
  BY DEF Closing, Steps
<1>2. ASSUME NEW i \in 1..4
      PROVE  InPlace(op, Closing, i)
  BY <1>1, <1>2 DEF InPlace, CallsOf, NextCalls
<1>3. Len(Closing) # 0 /\ \A i \in 1..Len(Closing) : InPlace(op, Closing, i)
  BY <1>1, <1>2
<1> QED
  BY <1>1, <1>3, CourseLemma

LEMMA AutoClosingLemma ==
  IsCourse("auto_end", Closing \o <<"finish">>) /\ Head(Closing \o <<"finish">>) = "write"
<1> DEFINE last == <<"finish">>
           todo == Closing \o last
<1>1. /\ Closing \in Seq(Steps) /\ Len(Closing) = 4
      /\ Closing[1] = "write" /\ Closing[2] = "redraw" /\ Closing[3] = "drop_jobs"
      /\ Closing[4] = "plan_archive"
  BY DEF Closing, Steps
<1>2. last \in Seq(Steps) /\ Len(last) = 1 /\ last[1] = "finish"
  BY DEF Steps
<1> HIDE DEF last
<1>3. /\ todo \in Seq(Steps) /\ Len(todo) = Len(Closing) + Len(last)
      /\ \A i \in 1..Len(Closing) + Len(last) :
            todo[i] = IF i <= Len(Closing) THEN Closing[i] ELSE last[i - Len(Closing)]
  BY <1>1, <1>2, ConcatProperties
<1> HIDE DEF todo
<1>4. /\ todo[1] = "write" /\ todo[2] = "redraw" /\ todo[3] = "drop_jobs"
      /\ todo[4] = "plan_archive" /\ todo[5] = "finish" /\ Len(todo) = 5
  BY <1>1, <1>2, <1>3
<1>5. ASSUME NEW i \in 1..5
      PROVE  InPlace("auto_end", todo, i)
  BY <1>4, <1>5 DEF InPlace, CallsOf, NextCalls
<1>6. Len(todo) # 0 /\ \A i \in 1..Len(todo) : InPlace("auto_end", todo, i)
  BY <1>4, <1>5
<1>7. IsCourse("auto_end", todo) /\ Head(todo) = "write"
  BY <1>3, <1>4, <1>6, CourseLemma
<1> QED
  BY <1>7 DEF todo, last

LEMMA CleanupLemma ==
  ASSUME NEW snap \in EventDoc
  PROVE  IsCourse("create", Cleanup(snap)) /\ Head(Cleanup(snap)) = "abort"
<1> DEFINE first == <<"abort">>
           rest == IF snap.channel # "none" THEN <<"plan_archive">> ELSE << >>
           todo == first \o rest
<1>1. first \in Seq(Steps) /\ Len(first) = 1 /\ first[1] = "abort"
  BY DEF Steps
<1>2. CASE rest = << >>
  <2>1. todo = first
    BY <1>1, <1>2, ConcatEmptySeq
  <2> HIDE DEF todo, first
  <2>2. InPlace("create", first, 1)
    BY <1>1 DEF InPlace, CallsOf, NextCalls
  <2>3. Len(first) # 0 /\ \A i \in 1..Len(first) : InPlace("create", first, i)
    BY <1>1, <2>2
  <2>4. IsCourse("create", todo) /\ Head(todo) = "abort"
    BY <1>1, <2>1, <2>3, CourseLemma
  <2> QED
    BY <2>4 DEF Cleanup, todo, first
<1>3. CASE rest = <<"plan_archive">>
  <2> HIDE DEF first, rest
  <2>1. rest \in Seq(Steps) /\ Len(rest) = 1 /\ rest[1] = "plan_archive"
    BY <1>3 DEF Steps
  <2>2. /\ todo \in Seq(Steps) /\ Len(todo) = 2
        /\ \A i \in 1..2 : todo[i] = IF i <= 1 THEN first[i] ELSE rest[i - 1]
    BY <1>1, <2>1, ConcatProperties
  <2> HIDE DEF todo
  <2>3. todo[1] = "abort" /\ todo[2] = "plan_archive"
    BY <1>1, <2>1, <2>2
  <2>4. ASSUME NEW i \in 1..2
        PROVE  InPlace("create", todo, i)
    BY <2>2, <2>3, <2>4 DEF InPlace, CallsOf, NextCalls
  <2>5. Len(todo) # 0 /\ \A i \in 1..Len(todo) : InPlace("create", todo, i)
    BY <2>2, <2>4
  <2>6. IsCourse("create", todo) /\ Head(todo) = "abort"
    BY <2>2, <2>3, <2>5, CourseLemma
  <2> QED
    BY <2>6 DEF Cleanup, todo, first, rest
<1> QED
  BY <1>2, <1>3

\* The lists of one call.
LEMMA SingleLemma ==
  ASSUME NEW op, NEW call \in Steps, call \in CallsOf(op), "none" \in NextCalls(op, call)
  PROVE  IsCourse(op, <<call>>) /\ Head(<<call>>) = call
<1>1. <<call>> \in Seq(Steps) /\ Len(<<call>>) = 1 /\ <<call>>[1] = call
  OBVIOUS
<1> QED
  BY <1>1 DEF IsCourse, InOrder, InPlace

LEMMA ReadAndFinishLemma ==
  IsCourse("auto_end", <<"read", "finish">>) /\ Head(<<"read", "finish">>) = "read"
<1> DEFINE todo == <<"read", "finish">>
<1>1. todo \in Seq(Steps) /\ Len(todo) = 2 /\ todo[1] = "read" /\ todo[2] = "finish"
  BY DEF Steps
<1> QED
  BY <1>1 DEF IsCourse, InOrder, InPlace, CallsOf, NextCalls

LEMMA ArchivingLemma ==
  /\ IsCourse("archive_channel", <<"archive", "set_archived", "finish">>)
  /\ Head(<<"archive", "set_archived", "finish">>) = "archive"
<1> DEFINE todo == <<"archive", "set_archived", "finish">>
<1>1. /\ todo \in Seq(Steps) /\ Len(todo) = 3 /\ todo[1] = "archive"
      /\ todo[2] = "set_archived" /\ todo[3] = "finish"
  BY DEF Steps
<1> QED
  BY <1>1 DEF IsCourse, InOrder, InPlace, CallsOf, NextCalls

\* A request that is given another list of calls.
LEMMA GoOnLemma ==
  ASSUME RequestsOK, NEW r \in Reqs, reqs[r].op # "none", NEW todo,
         IsCourse(reqs[r].op, todo), NEW snap \in EventDoc, GoOn(r, todo, snap)
  PROVE  /\ reqs' = [reqs EXCEPT ![r] = reqs'[r]]
         /\ reqs'[r] = [op |-> reqs[r].op, todo |-> todo, snap |-> snap]
         /\ reqs'[r] \in Request /\ RequestOK(reqs'[r])
         /\ CallOf(reqs'[r]) = Head(todo)
<1>1. reqs[r] \in Request /\ reqs \in [Reqs -> Request]
  BY DEF RequestsOK, TypeOK
<1>2. reqs'[r] = [reqs[r] EXCEPT !.todo = todo, !.snap = snap]
  BY <1>1 DEF GoOn
<1>3. /\ reqs' = [reqs EXCEPT ![r] = reqs'[r]]
      /\ reqs'[r] = [op |-> reqs[r].op, todo |-> todo, snap |-> snap]
  BY <1>1, <1>2 DEF Request, GoOn
<1> QED
  BY <1>1, <1>3 DEF Request, RequestOK, IsCourse, CallOf

\* A goroutine that begins an operation.
LEMMA StartLemma ==
  ASSUME RequestsOK, NEW r \in Reqs, NEW op \in AllOps, NEW todo,
         IsCourse(op, todo), NEW snap \in EventDoc, Start(r, op, todo, snap)
  PROVE  /\ reqs[r] = Idle /\ Alone(op)
         /\ reqs' = [reqs EXCEPT ![r] = reqs'[r]]
         /\ reqs'[r] = [op |-> op, todo |-> todo, snap |-> snap]
         /\ reqs'[r] \in Request /\ RequestOK(reqs'[r])
         /\ CallOf(reqs'[r]) = Head(todo)
<1>1. reqs \in [Reqs -> Request] /\ op # "none"
  BY DEF RequestsOK, TypeOK, AllOps, UserOps, JobOps
<1>2. reqs[r] = Idle /\ Alone(op) /\ reqs' = [reqs EXCEPT ![r] = reqs'[r]]
      /\ reqs'[r] = [op |-> op, todo |-> todo, snap |-> snap]
  BY <1>1 DEF Start
<1> QED
  BY <1>1, <1>2 DEF Request, RequestOK, IsCourse, CallOf

-----------------------------------------------------------------------------
(* What the steps do to the requests.                                      *)

\* Only r has changed, and what it has to do is in order.
Moved(r) ==
  /\ reqs' = [reqs EXCEPT ![r] = reqs'[r]]
  /\ reqs'[r] \in Request /\ RequestOK(reqs'[r])

\* r has made its call, and goes on with snap or has ended.
Advanced(r, snap) ==
  /\ Moved(r)
  /\ CallOf(reqs'[r]) \in NextCalls(reqs[r].op, CallOf(reqs[r]))
  /\ \/ reqs'[r] = Idle
     \/ /\ reqs'[r].op = reqs[r].op /\ reqs'[r].snap = snap
        /\ CallOf(reqs'[r]) # "none"

\* r goes on with another list of calls.
Turned(r, call, snap) ==
  /\ Moved(r)
  /\ reqs'[r].op = reqs[r].op /\ reqs'[r].snap = snap /\ CallOf(reqs'[r]) = call

Ended(r) == Moved(r) /\ reqs'[r] = Idle

LEMMA AdvancedLemma ==
  ASSUME RequestsOK, NEW r \in Reqs, NEW step, At(r, step),
         NEW snap \in EventDoc, Advance(r, snap)
  PROVE  Advanced(r, snap)
BY AdvanceLemma, AtLemma DEF Advanced, Moved

LEMMA TurnedLemma ==
  ASSUME RequestsOK, NEW r \in Reqs, reqs[r].op # "none", NEW todo,
         IsCourse(reqs[r].op, todo), NEW snap \in EventDoc, GoOn(r, todo, snap)
  PROVE  Turned(r, Head(todo), snap)
<1>1. /\ reqs' = [reqs EXCEPT ![r] = reqs'[r]]
      /\ reqs'[r] = [op |-> reqs[r].op, todo |-> todo, snap |-> snap]
      /\ reqs'[r] \in Request /\ RequestOK(reqs'[r])
      /\ CallOf(reqs'[r]) = Head(todo)
  BY GoOnLemma
<1> QED
  BY <1>1 DEF Turned, Moved

LEMMA EndedLemma ==
  ASSUME RequestsOK, NEW r \in Reqs, End(r)
  PROVE  Ended(r)
BY IdleLemma DEF End, Ended, Moved, RequestsOK, TypeOK

\* The steps after which a request goes on as it is.
LEMMA PlainSteps ==
  ASSUME RequestsOK, NEW r \in Reqs,
         \/ Insert(r) \/ RegisterOrganizer(r) \/ SetChannel(r) \/ SetMessages(r)
         \/ DropReminders(r) \/ Remind(r) \/ PlanEnd(r) \/ SaveEvent(r) \/ Redraw(r)
         \/ DropJobs(r) \/ PlanArchive(r) \/ Archive(r)
  PROVE  Advanced(r, reqs[r].snap) /\ reqs[r].snap \in EventDoc
<1>1. reqs[r].snap \in EventDoc
  BY DEF RequestsOK, TypeOK, Request
<1>2. \E step : At(r, step) /\ Advance(r, reqs[r].snap)
  BY DEF Insert, RegisterOrganizer, SetChannel, SetMessages, DropReminders, Remind, PlanEnd,
         SaveEvent, Redraw, DropJobs, PlanArchive, Archive
<1> QED
  BY <1>1, <1>2, AdvancedLemma

LEMMA SnapLemma ==
  ASSUME NEW d \in EventDoc
  PROVE  /\ [d EXCEPT !.channel = "live"] \in EventDoc
         /\ [d EXCEPT !.posted = TRUE] \in EventDoc
         /\ [d EXCEPT !.status = "canceled"] \in EventDoc
         /\ [d EXCEPT !.status = "ended"] \in EventDoc
         /\ \A n \in Nat : [d EXCEPT !.ends = n] \in EventDoc
BY DEF EventDoc, Closed, ChannelStates

\* Those after which it knows more of the event.
LEMMA LearningSteps ==
  ASSUME RequestsOK, NEW r \in Reqs
  PROVE  /\ CreateChannel(r) => Advanced(r, [reqs[r].snap EXCEPT !.channel = "live"])
         /\ PostAnnouncements(r) => Advanced(r, [reqs[r].snap EXCEPT !.posted = TRUE])
         /\ AbortProvision(r) => Advanced(r, [reqs[r].snap EXCEPT !.status = "canceled"])
<1>1. reqs[r].snap \in EventDoc
  BY DEF RequestsOK, TypeOK, Request
<1> QED
  BY <1>1, SnapLemma, AdvancedLemma DEF CreateChannel, PostAnnouncements, AbortProvision

LEMMA LengthLemma ==
  ASSUME NEW todo \in Seq(Steps), NEW n \in Nat, ~(Len(todo) > n), Len(todo) >= n
  PROVE  Len(todo) = n
OBVIOUS

LEMMA NoneLemma == \A op : "none" \notin CallsOf(op) \/ op \notin AllOps
BY DEF CallsOf, AllOps, UserOps, JobOps

LEMMA ReadToUpdateLemma ==
  ASSUME RequestsOK, NEW r \in Reqs, ReadToUpdate(r)
  PROVE  /\ reqs[r].op = "update"
         /\ \/ Ended(r) /\ doc.status # "open"
            \/ /\ doc.status = "open"
               /\ \E d \in Dates : /\ MayAdvance \/ d >= doc.ends
                                   /\ Turned(r, "write", [doc EXCEPT !.ends = d])
<1>1. reqs[r].op = "update" /\ doc \in EventDoc
  BY DEF ReadToUpdate, RequestsOK, TypeOK
<1>2. CASE doc.status # "open"
  BY <1>1, <1>2, EndedLemma DEF ReadToUpdate
<1>3. CASE doc.status = "open"
  <2>1. PICK d \in Dates : /\ MayAdvance \/ d >= doc.ends
                           /\ GoOn(r, Edit, [doc EXCEPT !.ends = d])
    BY <1>3 DEF ReadToUpdate
  <2>2. [doc EXCEPT !.ends = d] \in EventDoc
    BY <1>1, SnapLemma, LifecycleAssumption
  <2>3. Turned(r, "write", [doc EXCEPT !.ends = d])
    BY <1>1, <2>1, <2>2, EditLemma, TurnedLemma
  <2> QED
    BY <1>1, <1>3, <2>1, <2>3
<1> QED
  BY <1>2, <1>3

LEMMA ReadToCloseLemma ==
  ASSUME RequestsOK, NEW r \in Reqs, ReadToClose(r)
  PROVE  /\ reqs[r].op \in Closers
         /\ \/ /\ doc.status # "open" /\ Advanced(r, doc)
            \/ /\ doc.status = "open"
               /\ Turned(r, "write", [doc EXCEPT !.status = StatusAfter(reqs[r].op)])
<1> DEFINE op == reqs[r].op
           todo == reqs[r].todo
           snap == [doc EXCEPT !.status = StatusAfter(op)]
<1>1. /\ op \in Closers /\ op # "none" /\ doc \in EventDoc /\ At(r, "read")
      /\ InOrder(op, todo) /\ todo \in Seq(Steps) /\ todo # << >> /\ Head(todo) = "read"
  BY DEF ReadToClose, RequestsOK, RequestOK, TypeOK, Closers, At, Request
<1>2. CASE doc.status # "open"
  <2>1. Advance(r, doc)
    BY <1>2 DEF ReadToClose
  <2> QED
    BY <1>1, <1>2, <2>1, AdvancedLemma
<1>3. CASE doc.status = "open"
  <2>1. GoOn(r, Closing \o Tail(todo), snap)
    BY <1>3 DEF ReadToClose
  <2>2. snap \in EventDoc
    BY <1>1, SnapLemma DEF StatusAfter
  <2>3. IsCourse(op, Closing \o Tail(todo)) /\ Head(Closing \o Tail(todo)) = "write"
    <3>1. /\ todo[1] = "read" /\ Len(todo) \in Nat \ {0} /\ Len(Tail(todo)) = Len(todo) - 1
          /\ Tail(todo) \in Seq(Steps)
      BY <1>1, TodoLemma
    <3>2. InPlace(op, todo, 1)
      BY <1>1, <3>1, TodoLemma DEF InOrder
    <3>3. CASE op \in {"end", "cancel"}
      <4>1. Len(todo) = 1
        <5>1. Len(todo) > 1 => InPlace(op, todo, 2)
          BY <1>1, <3>1 DEF InOrder
        <5>2. NextCalls(op, "read") = {"none"}
          BY <3>3 DEF NextCalls
        <5>3. Len(todo) > 1 => todo[2] = "none"
          BY <3>1, <3>2, <5>2 DEF InPlace
        <5>4. "none" \notin CallsOf(op)
          BY <1>1, NoneLemma DEF Closers, AllOps, UserOps, JobOps
        <5>5. Len(todo) > 1 => todo[2] \in CallsOf(op)
          BY <5>1 DEF InPlace
        <5>6. ~(Len(todo) > 1)
          BY <5>3, <5>4, <5>5
        <5>7. todo \in Seq(Steps) /\ Len(todo) >= 1
          BY <1>1, <3>1
        <5> QED
          BY <5>6, <5>7, LengthLemma
      <4>2. Tail(todo) = << >>
        BY <1>1, <4>1, TodoLemma
      <4>3. Closing \o Tail(todo) = Closing
        BY <3>3, <4>2, ClosingLemma, ConcatEmptySeq DEF IsCourse
      <4> QED
        BY <3>3, <4>3, ClosingLemma
    <3>4. CASE op = "auto_end"
      <4>1. Len(todo) > 1 /\ todo[2] = "finish"
        BY <3>1, <3>2, <3>4 DEF InPlace, NextCalls
      <4>2. InPlace(op, todo, 2)
        BY <1>1, <3>1, <4>1 DEF InOrder
      <4>3. Len(todo) = 2
        <5>1. Len(todo) > 2 => InPlace(op, todo, 3)
          BY <1>1, <3>1 DEF InOrder
        <5>2. NextCalls(op, "finish") = {"none"}
          BY DEF NextCalls
        <5>3. Len(todo) > 2 => todo[3] = "none"
          BY <3>1, <4>1, <4>2, <5>2 DEF InPlace
        <5>4. "none" \notin CallsOf(op)
          BY <1>1, NoneLemma DEF Closers, AllOps, UserOps, JobOps
        <5>5. Len(todo) > 2 => todo[3] \in CallsOf(op)
          BY <5>1 DEF InPlace
        <5>6. ~(Len(todo) > 2)
          BY <5>3, <5>4, <5>5
        <5>7. todo \in Seq(Steps) /\ Len(todo) >= 2
          BY <1>1, <3>1, <4>1
        <5> QED
          BY <5>6, <5>7, LengthLemma
      <4>4. Tail(todo) = <<"finish">>
        <5>1. Len(Tail(todo)) = 1 /\ Tail(todo)[1] = "finish"
          BY <1>1, <4>1, <4>3, TodoLemma
        <5> DEFINE last == <<"finish">>
        <5>2. last \in Seq(Steps) /\ Len(last) = 1 /\ last[1] = "finish"
          BY DEF Steps
        <5> HIDE DEF last
        <5>3. \A i \in 1..Len(last) : last[i] = Tail(todo)[i]
          BY <5>1, <5>2
        <5>4. last = Tail(todo)
          BY <3>1, <5>1, <5>2, <5>3, SeqEqual
        <5> QED
          BY <5>4 DEF last
      <4> QED
        BY <3>4, <4>4, AutoClosingLemma
    <3> QED
      BY <1>1, <3>3, <3>4 DEF Closers
  <2> QED
    BY <1>1, <1>3, <2>1, <2>2, <2>3, TurnedLemma
<1> QED
  BY <1>1, <1>2, <1>3

\* The op of a request that makes a call.
LEMMA CallerLemma ==
  ASSUME NEW op \in AllOps
  PROVE  /\ \A call \in {"insert", "organizer", "channel", "set_channel", "post",
                         "set_messages", "plan_end", "abort"} :
              call \in CallsOf(op) => op = "create"
         /\ "check" \in CallsOf(op) \/ "postpone" \in CallsOf(op) => op = "auto_end"
         /\ \A call \in {"look", "archive", "set_archived"} :
              call \in CallsOf(op) => op = "archive_channel"
         /\ "finish" \in CallsOf(op) => op \in JobOps
         /\ "drop_jobs" \in CallsOf(op) => op \in Closers
         /\ "write" \in CallsOf(op) \/ "redraw" \in CallsOf(op) => op \in Closers \cup {"update"}
         /\ "drop_reminders" \in CallsOf(op) \/ "remind" \in CallsOf(op)
              => op \in {"create", "update"}
         /\ "plan_archive" \in CallsOf(op) => op \in Closers \cup {"create"}
BY DEF CallsOf, AllOps, UserOps, JobOps, Closers

LEMMA CheckEndLemma ==
  ASSUME RequestsOK, NEW r \in Reqs, CheckEnd(r)
  PROVE  /\ reqs[r].op = "auto_end"
         /\ \/ doc.status # "open" /\ Turned(r, "finish", doc)
            \/ doc.status = "open" /\ doc.ends > 0 /\ Turned(r, "postpone", doc)
            \/ doc.status = "open" /\ doc.ends = 0 /\ Turned(r, "read", doc)
<1>1. reqs[r].op \in AllOps /\ doc \in EventDoc /\ doc.ends \in Nat
  BY AtLemma DEF CheckEnd, RequestsOK, TypeOK, Request, EventDoc
<1>2. reqs[r].op = "auto_end"
  BY <1>1, AtLemma, CallerLemma DEF CheckEnd
<1>3. IsCourse("auto_end", <<"finish">>) /\ Head(<<"finish">>) = "finish"
  BY SingleLemma DEF CallsOf, NextCalls, Steps
<1>4. IsCourse("auto_end", <<"postpone">>) /\ Head(<<"postpone">>) = "postpone"
  BY SingleLemma DEF CallsOf, NextCalls, Steps
<1>5. CASE doc.status # "open"
  <2>1. GoOn(r, <<"finish">>, doc)
    BY <1>5 DEF CheckEnd
  <2> QED
    BY <1>1, <1>2, <1>3, <1>5, <2>1, TurnedLemma
<1>6. CASE doc.status = "open" /\ doc.ends > 0
  <2>1. GoOn(r, <<"postpone">>, doc)
    BY <1>1, <1>6 DEF CheckEnd
  <2> QED
    BY <1>1, <1>2, <1>4, <1>6, <2>1, TurnedLemma
<1>7. CASE doc.status = "open" /\ doc.ends = 0
  <2>1. GoOn(r, <<"read", "finish">>, doc)
    BY <1>1, <1>7 DEF CheckEnd
  <2> QED
    BY <1>1, <1>2, <1>7, <2>1, ReadAndFinishLemma, TurnedLemma
<1> QED
  BY <1>1, <1>5, <1>6, <1>7

LEMMA LookLemma ==
  ASSUME RequestsOK, NEW r \in Reqs, LookAtChannel(r)
  PROVE  /\ reqs[r].op = "archive_channel"
         /\ Turned(r, "archive", doc) \/ Turned(r, "finish", doc)
<1>1. reqs[r].op \in AllOps /\ doc \in EventDoc
  BY AtLemma DEF LookAtChannel, RequestsOK, TypeOK, Request
<1>2. reqs[r].op = "archive_channel"
  BY <1>1, AtLemma, CallerLemma DEF LookAtChannel
<1>3. IsCourse("archive_channel", <<"finish">>) /\ Head(<<"finish">>) = "finish"
  BY SingleLemma DEF CallsOf, NextCalls, Steps
<1>4. CASE doc.channel = "live"
  <2>1. GoOn(r, <<"archive", "set_archived", "finish">>, doc)
    BY <1>4 DEF LookAtChannel
  <2> QED
    BY <1>1, <1>2, <2>1, ArchivingLemma, TurnedLemma
<1>5. CASE doc.channel # "live"
  <2>1. GoOn(r, <<"finish">>, doc)
    BY <1>5 DEF LookAtChannel
  <2> QED
    BY <1>1, <1>2, <1>3, <2>1, TurnedLemma
<1> QED
  BY <1>4, <1>5

\* The last step of a job.
LEMMA EndingSteps ==
  ASSUME RequestsOK, NEW r \in Reqs, PostponeEnd(r) \/ FinishJob(r)
  PROVE  /\ Ended(r)
         /\ PostponeEnd(r) => reqs[r].op = "auto_end"
         /\ FinishJob(r) => reqs[r].op \in JobOps
<1>1. reqs[r].op \in AllOps
  BY AtLemma DEF PostponeEnd, FinishJob, Request
<1> QED
  BY <1>1, AtLemma, CallerLemma, EndedLemma DEF PostponeEnd, FinishJob

\* A goroutine was idle, and has begun an operation.
Begun(r, op, call, snap) ==
  /\ reqs[r] = Idle /\ Alone(op)
  /\ Moved(r)
  /\ reqs'[r].op = op /\ reqs'[r].snap = snap /\ CallOf(reqs'[r]) = call

LEMMA BegunLemma ==
  ASSUME RequestsOK, NEW r \in Reqs, NEW op \in AllOps, NEW todo,
         IsCourse(op, todo), NEW snap \in EventDoc, Start(r, op, todo, snap)
  PROVE  Begun(r, op, Head(todo), snap)
<1>1. /\ reqs[r] = Idle /\ Alone(op)
      /\ reqs' = [reqs EXCEPT ![r] = reqs'[r]]
      /\ reqs'[r] = [op |-> op, todo |-> todo, snap |-> snap]
      /\ reqs'[r] \in Request /\ RequestOK(reqs'[r])
      /\ CallOf(reqs'[r]) = Head(todo)
  BY StartLemma
<1> QED
  BY <1>1 DEF Begun, Moved

LEMMA CallCreateLemma ==
  ASSUME RequestsOK, NEW r \in Reqs, NEW d \in Dates, CallCreate(r, d)
  PROVE  \E snap \in EventDoc : /\ snap.status = "open" /\ ~snap.posted
                                /\ Begun(r, "create", "insert", snap)
<1> DEFINE snap == [NoEvent EXCEPT !.status = "open", !.ends = d]
<1>1. snap \in EventDoc /\ snap.status = "open" /\ ~snap.posted
  BY LifecycleAssumption DEF NoEvent, EventDoc, ChannelStates
<1>2. "create" \in AllOps
  BY DEF AllOps
<1> QED
  BY <1>1, <1>2, CreationLemma, BegunLemma DEF CallCreate

LEMMA CallCommandLemma ==
  ASSUME RequestsOK, NEW r \in Reqs, NEW op \in UserOps, CallCommand(r, op)
  PROVE  Begun(r, op, "read", NoEvent)
<1>1. op \in AllOps /\ IsCourse(op, <<"read">>) /\ Head(<<"read">>) = "read"
  BY SingleLemma DEF AllOps, UserOps, CallsOf, NextCalls, Steps
<1> QED
  BY <1>1, NoEventLemma, BegunLemma DEF CallCommand

LEMMA RunJobLemma ==
  ASSUME RequestsOK, NEW r \in Reqs, NEW k \in JobOps, RunJob(r, k)
  PROVE  Begun(r, k, FirstStep(k), NoEvent)
<1>1. k \in AllOps
  BY DEF AllOps
<1>2. FirstStep(k) \in Steps /\ FirstStep(k) \in CallsOf(k) /\ "none" \in NextCalls(k, FirstStep(k))
  BY DEF JobOps, FirstStep, CallsOf, NextCalls, Steps
<1>3. IsCourse(k, <<FirstStep(k)>>) /\ Head(<<FirstStep(k)>>) = FirstStep(k)
  BY <1>2, SingleLemma
<1> QED
  BY <1>1, <1>3, NoEventLemma, BegunLemma DEF RunJob

\* A request whose call fails: the creation cleans up, a redrawing is passed
\* over, and so is the failure of a cleanup; anything else ends.
LEMMA FailLemma ==
  ASSUME RequestsOK, NEW r \in Reqs, Fail(r)
  PROVE  \/ reqs[r].op = "create" /\ Turned(r, "abort", reqs[r].snap)
         \/ CallOf(reqs[r]) \in {"abort", "redraw"} /\ Advanced(r, reqs[r].snap)
         \/ Ended(r)
<1>1. reqs[r].op \in AllOps /\ reqs[r].op # "none" /\ reqs[r].snap \in EventDoc
  BY LifecycleAssumption
     DEF Fail, Disturb, RequestsOK, TypeOK, Request, AllOps, UserOps, JobOps
<1>2. CASE \E s \in {"channel", "set_channel", "post", "set_messages"} : At(r, s)
  <2>1. PICK s \in {"channel", "set_channel", "post", "set_messages"} : At(r, s)
    BY <1>2
  <2>2. reqs[r].op = "create"
    BY <1>1, <2>1, AtLemma, CallerLemma
  <2>3. ~(At(r, "abort") \/ At(r, "redraw"))
    BY <2>1 DEF At
  <2>4. GoOn(r, Cleanup(reqs[r].snap), reqs[r].snap)
    BY <1>2, <2>3 DEF Fail
  <2> QED
    BY <1>1, <2>2, <2>4, CleanupLemma, TurnedLemma
<1>3. CASE At(r, "abort") \/ At(r, "redraw")
  <2>1. ~ \E s \in {"channel", "set_channel", "post", "set_messages"} : At(r, s)
    BY <1>3 DEF At
  <2>2. Advance(r, reqs[r].snap)
    BY <1>3, <2>1 DEF Fail
  <2> QED
    BY <1>1, <1>3, <2>2, AdvancedLemma, AtLemma
<1>4. CASE /\ ~ \E s \in {"channel", "set_channel", "post", "set_messages"} : At(r, s)
           /\ ~(At(r, "abort") \/ At(r, "redraw"))
  BY <1>4, EndedLemma DEF Fail
<1> QED
  BY <1>2, <1>3, <1>4

-----------------------------------------------------------------------------
(* Types.                                                                  *)

\* What the steps of requests do to the rest of the state.
OthersOK ==
  /\ doc \in EventDoc
  /\ chat \in ChannelStates
  /\ shown \in {"none", "open", "closed"}
  /\ jobs \in [JobKinds -> Job]
  /\ called \in 0..MaxCalls /\ faults \in 0..MaxFaults

LEMMA MovedLemma ==
  ASSUME RequestsOK, OthersOK', NEW r \in Reqs, Moved(r)
  PROVE  RequestsOK'
<1>1. reqs' \in [Reqs -> Request] /\ \A q \in Reqs : RequestOK(reqs'[q])
  BY DEF RequestsOK, TypeOK, Moved
<1> QED
  BY <1>1 DEF RequestsOK, TypeOK, OthersOK

LEMMA JobsLemma ==
  ASSUME jobs \in [JobKinds -> Job]
  PROVE  /\ \A K : Dropped(K) \in [JobKinds -> Job]
         /\ \A k \in JobKinds, n \in Nat : Enqueued(k, n) \in [JobKinds -> Job]
         /\ \A k \in JobKinds : jobs[k] \in Job /\ jobs[k].runAt \in Nat
BY DEF Dropped, Enqueued, Job

LEMMA RetriedLemma ==
  ASSUME RequestsOK, NEW r \in Reqs
  PROVE  Retried(r) \in [JobKinds -> Job]
BY DEF Retried, RequestsOK, TypeOK, Job, JobKinds, JobOps

LEMMA StepMoves ==
  ASSUME RequestsOK, NEW r \in Reqs, Step(r)
  PROVE  Moved(r)
BY PlainSteps, LearningSteps, ReadToUpdateLemma, ReadToCloseLemma, CheckEndLemma, LookLemma,
   EndingSteps DEF Step, Advanced, Turned, Ended

LEMMA StepTypes ==
  ASSUME RequestsOK, NEW r \in Reqs, Step(r)
  PROVE  OthersOK'
<1>1. OthersOK /\ reqs[r].snap \in EventDoc /\ reqs[r].snap.ends \in Nat
  BY DEF RequestsOK, TypeOK, OthersOK, Request, EventDoc
<1> USE <1>1 DEF OthersOK
<1>2. CASE Insert(r) \/ SetChannel(r) \/ SetMessages(r) \/ AbortProvision(r) \/ SaveEvent(r)
  BY <1>2 DEF Insert, SetChannel, SetMessages, AbortProvision, SaveEvent, Saved, EventDoc,
              ChannelStates, Closed
<1>3. CASE RegisterOrganizer(r) \/ ReadToUpdate(r) \/ ReadToClose(r) \/ CheckEnd(r)
           \/ LookAtChannel(r)
  BY <1>3 DEF RegisterOrganizer, ReadToUpdate, ReadToClose, CheckEnd, LookAtChannel
<1>4. CASE CreateChannel(r) \/ Archive(r) \/ PostAnnouncements(r) \/ Redraw(r)
  BY <1>4 DEF CreateChannel, Archive, PostAnnouncements, Redraw, ChannelStates
<1>5. CASE DropReminders(r) \/ DropJobs(r) \/ PlanEnd(r) \/ PlanArchive(r)
  BY <1>5, JobsLemma DEF DropReminders, DropJobs, PlanEnd, PlanArchive, JobKinds
<1>6. CASE Remind(r) \/ PostponeEnd(r)
  BY <1>6 DEF Remind, PostponeEnd, JobKinds, Job
<1>7. CASE FinishJob(r)
  <2>1. reqs[r].op \in JobKinds
    BY <1>7, EndingSteps DEF JobOps, JobKinds
  <2> QED
    BY <1>7, <2>1 DEF FinishJob, Job
<1> QED
  BY <1>2, <1>3, <1>4, <1>5, <1>6, <1>7 DEF Step

LEMMA InitRequests == Init => RequestsOK
BY IdleLemma, NoEventLemma, LifecycleAssumption
   DEF Init, RequestsOK, TypeOK, JobKinds, Job, ChannelStates

LEMMA NextRequests == RequestsOK /\ [Next]_vars => RequestsOK'
<1> SUFFICES ASSUME RequestsOK, [Next]_vars PROVE RequestsOK'
  OBVIOUS
<1>1. OthersOK
  BY DEF RequestsOK, TypeOK, OthersOK
<1>2. ASSUME NEW r \in Reqs, NEW d \in Dates, CallCreate(r, d) PROVE RequestsOK'
  BY <1>1, <1>2, CallCreateLemma, MovedLemma DEF CallCreate, OthersOK, Begun
<1>3. ASSUME NEW r \in Reqs, NEW op \in UserOps, CallCommand(r, op) PROVE RequestsOK'
  <2>1. OthersOK'
    BY <1>1, <1>3, LifecycleAssumption DEF CallCommand, OthersOK
  <2> QED
    BY <1>3, <2>1, CallCommandLemma, MovedLemma DEF Begun
<1>4. ASSUME NEW r \in Reqs, NEW k \in JobOps, RunJob(r, k) PROVE RequestsOK'
  <2>1. OthersOK'
    BY <1>1, <1>4 DEF RunJob, OthersOK, JobKinds, JobOps, Job
  <2> QED
    BY <1>4, <2>1, RunJobLemma, MovedLemma DEF Begun
<1>5. ASSUME NEW r \in Reqs, Step(r) PROVE RequestsOK'
  BY <1>5, StepMoves, StepTypes, MovedLemma
<1>6. ASSUME NEW r \in Reqs, Fail(r) PROVE RequestsOK'
  <2>1. Moved(r)
    BY <1>6, FailLemma DEF Turned, Advanced, Ended
  <2>2. OthersOK'
    BY <1>1, <1>6, RetriedLemma, LifecycleAssumption DEF Fail, Disturb, OthersOK
  <2> QED
    BY <2>1, <2>2, MovedLemma
<1>7. ASSUME NEW r \in Reqs, Crash(r) PROVE RequestsOK'
  <2>1. OthersOK'
    BY <1>1, <1>7, RetriedLemma, LifecycleAssumption DEF Crash, Disturb, OthersOK
  <2> QED
    BY <1>7, <2>1, EndedLemma, MovedLemma DEF Crash, Ended
<1>8. CASE SendReminders
  BY <1>1, <1>8 DEF SendReminders, RequestsOK, TypeOK, OthersOK, Job, JobKinds
<1>9. CASE Tick
  <2>1. \A n \in Nat : Nearer(n) \in Nat
    BY DEF Nearer
  <2>2. OthersOK'
    BY <1>1, <1>9, <2>1 DEF Tick, OthersOK, EventDoc, Job
  <2>3. ASSUME NEW r \in Reqs
        PROVE  reqs'[r] \in Request /\ RequestOK(reqs'[r])
    <3>1. reqs[r] \in Request /\ reqs[r].snap \in EventDoc /\ reqs[r].snap.ends \in Nat
          /\ RequestOK(reqs[r])
      BY DEF RequestsOK, TypeOK, Request, EventDoc
    <3>2. reqs'[r] = [reqs[r] EXCEPT !.snap = [reqs[r].snap EXCEPT !.ends = Nearer(@)]]
      BY <1>9, <3>1 DEF Tick, Request
    <3>3. [reqs[r].snap EXCEPT !.ends = Nearer(@)] \in EventDoc
      BY <2>1, <3>1 DEF EventDoc
    <3> QED
      BY <3>1, <3>2, <3>3 DEF Request, RequestOK
  <2>4. reqs' \in [Reqs -> Request]
    BY <1>9, <2>3 DEF Tick
  <2> QED
    BY <2>2, <2>3, <2>4 DEF RequestsOK, TypeOK, OthersOK
<1>10. CASE UNCHANGED vars
  BY <1>10 DEF vars, RequestsOK, TypeOK
<1> QED
  BY <1>2, <1>3, <1>4, <1>5, <1>6, <1>7, <1>8, <1>9, <1>10 DEF Next

\* The event, its jobs and its requests never leave their types (event.go).
THEOREM TypeCorrect == Spec => []TypeOK
<1>1. RequestsOK => TypeOK
  BY DEF RequestsOK
<1> QED
  BY <1>1, InitRequests, NextRequests, PTL DEF Spec

-----------------------------------------------------------------------------
(* What holds of an event because of the order in which requests take      *)
(* their steps.                                                            *)

-----------------------------------------------------------------------------
(* The invariant about the status of the event.                            *)

Solo(req) == req.op \notin {"none", "archive_channel"}

\* What a request is about to write.
WritesOK(req) ==
  /\ CallOf(req) = "insert" => req.snap.status = "open"
  /\ CallOf(req) = "write" /\ req.op = "update" => req.snap.status = "open"
  /\ CallOf(req) \in {"write", "redraw"} /\ req.op \in Closers => req.snap.status \in Closed

EditsAllowed == \A r \in Reqs : reqs[r].op = "update" => "update" \in Ops

\* Before the event is there, only its creation may be under way.
Unborn ==
  doc.status = "none" =>
    /\ doc.channel = "none"
    /\ \A k \in JobKinds : jobs[k].status = "absent"
    /\ \A r \in Reqs : reqs[r].op = "none" \/ CallOf(reqs[r]) = "insert"

InsertsOnce ==
  /\ \A r \in Reqs : CallOf(reqs[r]) = "insert" => doc.status = "none"
  /\ \A r, q \in Reqs : reqs[r].op = "create" /\ reqs[q].op = "create" => r = q

\* Operations one after another: an edit writes an open event.
OneByOne ==
  OneAtATime =>
    /\ \A r, q \in Reqs : Solo(reqs[r]) /\ Solo(reqs[q]) => r = q
    /\ \A r \in Reqs : reqs[r].op = "update" /\ CallOf(reqs[r]) = "write" => doc.status = "open"

StatusInv ==
  /\ RequestsOK
  /\ \A r \in Reqs : WritesOK(reqs[r])
  /\ EditsAllowed /\ Unborn /\ InsertsOnce /\ OneByOne

-----------------------------------------------------------------------------
(* What a step of a request may come to.                                   *)

\* The request goes on with its operation or ends; it writes only what was open
\* when it read it, and redraws what it has written.
Going(r) ==
  /\ Moved(r) /\ reqs[r].op # "none"
  /\ reqs'[r].op = reqs[r].op \/ reqs'[r] = Idle
  /\ CallOf(reqs'[r]) # "insert"
  /\ CallOf(reqs'[r]) = "write" =>
       /\ CallOf(reqs[r]) = "read" /\ doc.status = "open"
       /\ reqs[r].op = "update" => reqs'[r].snap.status = "open"
       /\ reqs[r].op \in Closers => reqs'[r].snap.status \in Closed
  /\ CallOf(reqs'[r]) = "redraw" => CallOf(reqs[r]) = "write" /\ reqs'[r].snap = reqs[r].snap

LEMMA CallLemma ==
  ASSUME RequestsOK, NEW r \in Reqs
  PROVE  /\ reqs[r] \in Request /\ reqs[r].snap \in EventDoc
         /\ reqs[r].op = "none" <=> CallOf(reqs[r]) = "none"
         /\ reqs[r].op # "none" => /\ reqs[r].op \in AllOps
                                   /\ CallOf(reqs[r]) \in CallsOf(reqs[r].op)
                                   /\ CallOf(reqs[r]) \in Steps
<1>1. reqs[r] \in Request /\ RequestOK(reqs[r]) /\ reqs[r].todo \in Seq(Steps)
  BY DEF RequestsOK, TypeOK, Request
<1>2. "none" \notin Steps
  BY DEF Steps
<1>3. CASE reqs[r].todo = << >>
  BY <1>1, <1>3 DEF RequestOK, CallOf, Request
<1>4. CASE reqs[r].todo # << >>
  <2>1. /\ Head(reqs[r].todo) \in Steps /\ Head(reqs[r].todo) = reqs[r].todo[1]
        /\ 1 \in 1..Len(reqs[r].todo)
    BY <1>1, <1>4, TodoLemma
  <2> QED
    BY <1>1, <1>2, <1>4, <2>1 DEF RequestOK, InOrder, InPlace, CallOf, Request
<1> QED
  BY <1>3, <1>4

LEMMA AdvancedGoes ==
  ASSUME RequestsOK, NEW r \in Reqs, reqs[r].op # "none", NEW snap, Advanced(r, snap),
         CallOf(reqs[r]) = "write" => snap = reqs[r].snap
  PROVE  Going(r)
<1>1. CallOf(reqs'[r]) \in NextCalls(reqs[r].op, CallOf(reqs[r]))
  BY DEF Advanced
<1>2. CallOf(reqs[r]) \in Steps
  BY CallLemma
<1>3. CallOf(reqs'[r]) \notin {"insert", "write"}
  BY <1>1, <1>2 DEF NextCalls, Steps
<1>4. CallOf(reqs'[r]) = "redraw" => CallOf(reqs[r]) = "write"
  BY <1>1, <1>2 DEF NextCalls, Steps
<1>5. Moved(r) /\ (reqs'[r] = Idle \/ (reqs'[r].op = reqs[r].op /\ reqs'[r].snap = snap))
  BY DEF Advanced
<1> QED
  BY <1>3, <1>4, <1>5, IdleLemma DEF Going

LEMMA TurnedGoes ==
  ASSUME NEW r, reqs[r].op # "none", NEW call, NEW snap, Turned(r, call, snap),
         call \notin {"insert", "write", "redraw"}
  PROVE  Going(r)
BY DEF Turned, Going

LEMMA EndedGoes ==
  ASSUME NEW r, reqs[r].op # "none", Ended(r)
  PROVE  Going(r)
BY IdleLemma DEF Ended, Going

LEMMA StepBusy ==
  ASSUME RequestsOK, NEW r \in Reqs, Step(r)
  PROVE  reqs[r].op # "none"
<1>1. \E step : At(r, step)
  BY DEF Step, Insert, RegisterOrganizer, CreateChannel, SetChannel, PostAnnouncements,
         SetMessages, DropReminders, Remind, PlanEnd, AbortProvision, ReadToUpdate,
         ReadToClose, SaveEvent, Redraw, DropJobs, PlanArchive, CheckEnd, PostponeEnd,
         LookAtChannel, Archive, FinishJob
<1> QED
  BY <1>1, AtLemma

LEMMA StepGoes ==
  ASSUME RequestsOK, NEW r \in Reqs, Step(r)
  PROVE  Going(r)
<1>1. reqs[r].op # "none"
  BY StepBusy
<1>2. CASE \/ Insert(r) \/ RegisterOrganizer(r) \/ SetChannel(r) \/ SetMessages(r)
           \/ DropReminders(r) \/ Remind(r) \/ PlanEnd(r) \/ SaveEvent(r) \/ Redraw(r)
           \/ DropJobs(r) \/ PlanArchive(r) \/ Archive(r)
  BY <1>1, <1>2, PlainSteps, AdvancedGoes
<1>3. CASE CreateChannel(r) \/ PostAnnouncements(r) \/ AbortProvision(r)
  <2>1. CallOf(reqs[r]) # "write"
    BY <1>3, AtLemma DEF CreateChannel, PostAnnouncements, AbortProvision
  <2>2. \E snap : Advanced(r, snap)
    BY <1>3, LearningSteps
  <2> QED
    BY <1>1, <2>1, <2>2, AdvancedGoes
<1>4. CASE ReadToUpdate(r)
  <2>1. CASE Ended(r)
    BY <1>1, <2>1, EndedGoes
  <2>2. ASSUME doc.status = "open", NEW d \in Dates, Turned(r, "write", [doc EXCEPT !.ends = d])
        PROVE  Going(r)
    <3>1. /\ reqs[r].op = "update" /\ CallOf(reqs[r]) = "read"
          /\ [doc EXCEPT !.ends = d].status = "open"
      BY <1>4, <2>2, AtLemma DEF ReadToUpdate, RequestsOK, TypeOK, EventDoc
    <3> QED
      BY <1>1, <2>2, <3>1 DEF Turned, Going, Closers
  <2> QED
    BY <1>4, <2>1, <2>2, ReadToUpdateLemma
<1>5. CASE ReadToClose(r)
  <2>1. CASE Advanced(r, doc)
    <3>1. CallOf(reqs[r]) # "write"
      BY <1>5, AtLemma DEF ReadToClose
    <3> QED
      BY <1>1, <2>1, <3>1, AdvancedGoes
  <2>2. ASSUME doc.status = "open",
               Turned(r, "write", [doc EXCEPT !.status = StatusAfter(reqs[r].op)])
        PROVE  Going(r)
    <3>1. /\ reqs[r].op \in Closers /\ reqs[r].op # "update" /\ CallOf(reqs[r]) = "read"
          /\ [doc EXCEPT !.status = StatusAfter(reqs[r].op)].status \in Closed
      BY <1>5, AtLemma, ReadToCloseLemma
         DEF ReadToClose, RequestsOK, TypeOK, EventDoc, StatusAfter, Closed, Closers
    <3> QED
      BY <1>1, <2>2, <3>1 DEF Turned, Going
  <2> QED
    BY <1>5, <2>1, <2>2, ReadToCloseLemma
<1>6. CASE CheckEnd(r) \/ LookAtChannel(r)
  BY <1>1, <1>6, CheckEndLemma, LookLemma, TurnedGoes
<1>7. CASE PostponeEnd(r) \/ FinishJob(r)
  BY <1>1, <1>7, EndingSteps, EndedGoes
<1> QED
  BY <1>2, <1>3, <1>4, <1>5, <1>6, <1>7 DEF Step

LEMMA FailGoes ==
  ASSUME RequestsOK, NEW r \in Reqs, Fail(r) \/ Crash(r)
  PROVE  Going(r)
<1>1. reqs[r].op # "none"
  BY LifecycleAssumption DEF Fail, Crash, Disturb, AllOps, UserOps, JobOps
<1>2. CASE Fail(r)
  BY <1>1, <1>2, FailLemma, AdvancedGoes, TurnedGoes, EndedGoes
<1>3. CASE Crash(r)
  BY <1>1, <1>3, EndedLemma, EndedGoes DEF Crash
<1> QED
  BY <1>2, <1>3

-----------------------------------------------------------------------------
(* The status of the event.                                                *)

\* The calls that write it.
LEMMA StatusMoves ==
  ASSUME RequestsOK, NEW r \in Reqs, Step(r)
  PROVE  \/ doc'.status = doc.status /\ CallOf(reqs[r]) # "insert"
         \/ CallOf(reqs[r]) = "insert" /\ doc'.status = reqs[r].snap.status
         \/ CallOf(reqs[r]) = "abort" /\ doc'.status = "canceled"
         \/ CallOf(reqs[r]) = "write" /\ doc'.status = reqs[r].snap.status
<1>1. doc \in EventDoc
  BY DEF RequestsOK, TypeOK
<1>2. CASE Insert(r)
  BY <1>2, AtLemma DEF Insert
<1>3. CASE AbortProvision(r)
  <2>1. reqs[r].snap \in EventDoc
    BY CallLemma
  <2> QED
    BY <1>1, <1>3, <2>1, AtLemma DEF AbortProvision, Saved, EventDoc
<1>4. CASE SaveEvent(r)
  BY <1>1, <1>4, AtLemma DEF SaveEvent, Saved, EventDoc
<1>5. CASE SetChannel(r)
  BY <1>1, <1>5, AtLemma DEF SetChannel, EventDoc
<1>6. CASE SetMessages(r)
  BY <1>1, <1>6, AtLemma DEF SetMessages, EventDoc
<1>7. CASE \/ RegisterOrganizer(r) \/ CreateChannel(r) \/ PostAnnouncements(r)
           \/ DropReminders(r) \/ Remind(r) \/ PlanEnd(r) \/ ReadToUpdate(r)
           \/ ReadToClose(r) \/ Redraw(r) \/ DropJobs(r) \/ PlanArchive(r) \/ CheckEnd(r)
           \/ PostponeEnd(r) \/ LookAtChannel(r) \/ Archive(r) \/ FinishJob(r)
  <2>1. doc' = doc /\ \E step : At(r, step) /\ step # "insert"
    BY <1>7
       DEF RegisterOrganizer, CreateChannel, PostAnnouncements, DropReminders, Remind,
           PlanEnd, ReadToUpdate, ReadToClose, Redraw, DropJobs, PlanArchive, CheckEnd,
           PostponeEnd, LookAtChannel, Archive, FinishJob
  <2> QED
    BY <2>1, AtLemma
<1> QED
  BY <1>2, <1>3, <1>4, <1>5, <1>6, <1>7 DEF Step

\* One that is there is not forgotten, and is written with a status of its own.
LEMMA StatusKept ==
  ASSUME StatusInv, NEW r \in Reqs, Step(r), doc.status # "none"
  PROVE  /\ doc'.status # "none"
         /\ doc'.status = doc.status \/ Solo(reqs[r])
<1>1. /\ RequestsOK /\ WritesOK(reqs[r]) /\ reqs[r] \in Request /\ reqs[r].op # "none"
      /\ reqs[r].op \in AllOps /\ CallOf(reqs[r]) \in CallsOf(reqs[r].op)
  BY CallLemma, StepBusy DEF StatusInv
<1>2. CASE CallOf(reqs[r]) \in {"insert", "abort", "write"}
  <2>1. reqs[r].op \in Closers \cup {"update", "create"}
    BY <1>1, <1>2, CallerLemma
  <2>2. Solo(reqs[r])
    BY <2>1 DEF Solo, Closers
  <2>3. CASE CallOf(reqs[r]) = "write"
    <3>1. reqs[r].op \in Closers \cup {"update"}
      BY <1>1, <2>3, CallerLemma
    <3>2. reqs[r].snap.status # "none"
      BY <1>1, <2>3, <3>1 DEF WritesOK, Closed
    <3> QED
      BY <1>1, <2>2, <2>3, <3>2, StatusMoves
  <2> QED
    BY <1>1, <1>2, <2>2, <2>3, StatusMoves DEF WritesOK
<1>3. CASE CallOf(reqs[r]) \notin {"insert", "abort", "write"}
  BY <1>1, <1>3, StatusMoves
<1> QED
  BY <1>2, <1>3

LEMMA Others ==
  ASSUME RequestsOK, NEW r \in Reqs, Moved(r), NEW q \in Reqs, q # r
  PROVE  reqs'[q] = reqs[q]
BY DEF Moved, RequestsOK, TypeOK

\* The status of the event before and after a call that fails.
LEMMA FailKeeps ==
  ASSUME NEW r \in Reqs, Fail(r) \/ Crash(r)
  PROVE  doc' = doc /\ (jobs' = jobs \/ jobs' = Retried(r))
BY DEF Fail, Crash

LEMMA InsertersLemma ==
  ASSUME RequestsOK, NEW r \in Reqs, CallOf(reqs[r]) = "insert"
  PROVE  reqs[r].op = "create"
<1>1. reqs[r].op \in AllOps /\ CallOf(reqs[r]) \in CallsOf(reqs[r].op)
  BY CallLemma
<1> QED
  BY <1>1, CallerLemma

LEMMA InsertFails ==
  ASSUME RequestsOK, NEW r \in Reqs, Fail(r) \/ Crash(r), CallOf(reqs[r]) = "insert"
  PROVE  reqs'[r] = Idle /\ jobs' = jobs
<1>1. reqs[r].op = "create"
  BY InsertersLemma
<1>2. jobs' = jobs
  BY <1>1, FailKeeps DEF Retried, JobOps
<1>3. ~ \E s \in {"channel", "set_channel", "post", "set_messages", "abort", "redraw"} : At(r, s)
  BY DEF At, CallOf
<1>4. End(r)
  BY <1>3 DEF Fail, Crash
<1> QED
  BY <1>2, <1>4, EndedLemma DEF Ended

\* The conjuncts of the invariant, after a request has gone on.
LEMMA GoingStatus ==
  ASSUME StatusInv, NEW r \in Reqs, Step(r) \/ Fail(r) \/ Crash(r)
  PROVE  StatusInv'
<1>1. /\ RequestsOK /\ RequestsOK' /\ Going(r) /\ Moved(r)
      /\ reqs[r] \in Request /\ reqs[r].op # "none" /\ reqs[r].op \in AllOps
      /\ CallOf(reqs[r]) \in CallsOf(reqs[r].op)
  BY StepGoes, FailGoes, CallLemma, NextRequests DEF StatusInv, Going, Next
<1>2. \A q \in Reqs : q # r => reqs'[q] = reqs[q]
  BY <1>1, Others
<1>3. /\ doc.status # "none" => doc'.status # "none"
      /\ doc.status # "none" => doc'.status = doc.status \/ Solo(reqs[r])
  BY StatusKept, FailKeeps
<1>4. ASSUME NEW q \in Reqs PROVE WritesOK(reqs[q])'
  <2>1. CASE q # r
    BY <1>2, <2>1 DEF StatusInv, WritesOK, CallOf
  <2>2. CASE q = r
    BY <1>1, <2>2, IdleLemma DEF StatusInv, WritesOK, CallOf, Going
  <2> QED
    BY <2>1, <2>2
<1>5. EditsAllowed'
  BY <1>1, <1>2, IdleLemma DEF StatusInv, EditsAllowed, Going
<1>6. Unborn'
  <2> SUFFICES ASSUME doc'.status = "none"
               PROVE  /\ doc'.channel = "none"
                      /\ \A k \in JobKinds : jobs'[k].status = "absent"
                      /\ \A q \in Reqs : reqs'[q].op = "none" \/ CallOf(reqs'[q]) = "insert"
    BY DEF Unborn, CallOf
  <2>1. doc.status = "none" /\ CallOf(reqs[r]) = "insert"
    BY <1>1, <1>3 DEF StatusInv, Unborn
  <2>2. ~Step(r)
    BY <1>1, <2>1, StatusMoves DEF StatusInv, WritesOK
  <2>3. doc' = doc /\ jobs' = jobs /\ reqs'[r] = Idle
    BY <1>1, <2>1, <2>2, FailKeeps, InsertFails
  <2> QED
    BY <1>2, <2>1, <2>3, IdleLemma DEF StatusInv, Unborn
<1>7. InsertsOnce'
  <2>1. ASSUME NEW q \in Reqs, CallOf(reqs'[q]) = "insert"
        PROVE  FALSE
    <3>1. q # r /\ reqs'[q] = reqs[q] /\ CallOf(reqs[q]) = "insert"
      BY <1>1, <1>2, <2>1 DEF Going
    <3>2. CallOf(reqs[r]) = "insert"
      BY <1>1, <3>1 DEF StatusInv, InsertsOnce, Unborn
    <3>3. reqs[r].op = "create" /\ reqs[q].op = "create"
      BY <1>1, <3>1, <3>2, InsertersLemma
    <3> QED
      BY <3>1, <3>3 DEF StatusInv, InsertsOnce
  <2>2. ASSUME NEW q \in Reqs, reqs'[q].op = "create"
        PROVE  reqs[q].op = "create"
    BY <1>1, <1>2, <2>2, IdleLemma DEF Going
  <2> QED
    BY <2>1, <2>2 DEF StatusInv, InsertsOnce, CallOf
<1>8. OneByOne'
  <2> SUFFICES ASSUME OneAtATime
               PROVE  /\ \A p, q \in Reqs : Solo(reqs'[p]) /\ Solo(reqs'[q]) => p = q
                      /\ \A q \in Reqs : reqs'[q].op = "update" /\ CallOf(reqs'[q]) = "write"
                                            => doc'.status = "open"
    BY DEF OneByOne, Solo, CallOf
  <2>1. ASSUME NEW q \in Reqs, Solo(reqs'[q])
        PROVE  Solo(reqs[q])
    BY <1>1, <1>2, <2>1, IdleLemma DEF Going, Solo
  <2>2. \A p, q \in Reqs : Solo(reqs[p]) /\ Solo(reqs[q]) => p = q
    BY DEF StatusInv, OneByOne
  <2>3. ASSUME NEW q \in Reqs, reqs'[q].op = "update", CallOf(reqs'[q]) = "write"
        PROVE  doc'.status = "open"
    <3>1. Solo(reqs[q])
      BY <2>1, <2>3 DEF Solo
    <3>2. CASE q = r
      <4>1. CallOf(reqs[r]) = "read" /\ doc.status = "open"
        BY <1>1, <2>3, <3>2 DEF Going
      <4> QED
        BY <1>1, <4>1, StatusMoves, FailKeeps
    <3>3. CASE q # r
      <4>1. doc.status = "open"
        BY <1>2, <2>3, <3>3 DEF StatusInv, OneByOne
      <4> QED
        BY <1>3, <2>2, <3>1, <3>3, <4>1
    <3> QED
      BY <3>2, <3>3
  <2> QED
    BY <2>1, <2>2, <2>3
<1> QED
  BY <1>1, <1>4, <1>5, <1>6, <1>7, <1>8 DEF StatusInv

\* ... and after a goroutine has begun an operation.
LEMMA BegunStatus ==
  ASSUME StatusInv, RequestsOK', doc' = doc,
         NEW r \in Reqs, NEW op \in AllOps, NEW call, NEW snap, Begun(r, op, call, snap),
         \/ /\ op = "create" /\ call = "insert" /\ snap.status = "open"
            /\ doc.status = "none" /\ jobs' = jobs
            /\ \A q \in Reqs : reqs[q].op # "create"
         \/ /\ op # "create" /\ call \notin {"insert", "write", "redraw"}
            /\ doc.status # "none" /\ (op = "update" => "update" \in Ops)
  PROVE  StatusInv'
<1>1. /\ RequestsOK /\ Moved(r) /\ reqs[r].op = "none" /\ Alone(op)
      /\ reqs'[r].op = op /\ reqs'[r].snap = snap /\ CallOf(reqs'[r]) = call
  BY IdleLemma DEF StatusInv, Begun
<1>2. \A q \in Reqs : q # r => reqs'[q] = reqs[q]
  BY <1>1, Others
<1>3. ASSUME NEW q \in Reqs PROVE WritesOK(reqs[q])'
  <2>1. CASE q # r
    BY <1>2, <2>1 DEF StatusInv, WritesOK, CallOf
  <2>2. CASE q = r
    BY <1>1, <2>2 DEF WritesOK, CallOf
  <2> QED
    BY <2>1, <2>2
<1>4. EditsAllowed'
  BY <1>1, <1>2 DEF StatusInv, EditsAllowed
<1>5. Unborn'
  BY <1>1, <1>2 DEF StatusInv, Unborn, CallOf
<1>6. InsertsOnce'
  <2>1. ASSUME NEW q \in Reqs, CallOf(reqs'[q]) = "insert"
        PROVE  doc'.status = "none"
    BY <1>1, <1>2, <2>1 DEF StatusInv, InsertsOnce
  <2>2. ASSUME NEW p \in Reqs, NEW q \in Reqs, reqs'[p].op = "create", reqs'[q].op = "create"
        PROVE  p = q
    BY <1>1, <1>2, <2>2 DEF StatusInv, InsertsOnce
  <2> QED
    BY <2>1, <2>2 DEF InsertsOnce, CallOf
<1>7. OneByOne'
  <2> SUFFICES ASSUME OneAtATime
               PROVE  /\ \A p, q \in Reqs : Solo(reqs'[p]) /\ Solo(reqs'[q]) => p = q
                      /\ \A q \in Reqs : reqs'[q].op = "update" /\ CallOf(reqs'[q]) = "write"
                                            => doc'.status = "open"
    BY DEF OneByOne, Solo, CallOf
  <2>1. op = "archive_channel" \/ \A q \in Reqs : ~Solo(reqs[q])
    BY <1>1 DEF Alone, Solo
  <2>2. \A p, q \in Reqs : Solo(reqs'[p]) /\ Solo(reqs'[q]) => p = q
    BY <1>1, <1>2, <2>1 DEF StatusInv, OneByOne, Solo
  <2>3. ASSUME NEW q \in Reqs, reqs'[q].op = "update", CallOf(reqs'[q]) = "write"
        PROVE  doc'.status = "open"
    BY <1>1, <1>2, <2>3 DEF StatusInv, OneByOne
  <2> QED
    BY <2>2, <2>3
<1> QED
  BY <1>3, <1>4, <1>5, <1>6, <1>7 DEF StatusInv

LEMMA InitStatus == Init => StatusInv
<1> SUFFICES ASSUME Init PROVE StatusInv
  OBVIOUS
<1>1. RequestsOK /\ \A r \in Reqs : reqs[r] = Idle
  BY InitRequests DEF Init
<1>2. /\ doc.status = "none" /\ doc.channel = "none"
      /\ \A k \in JobKinds : jobs[k].status = "absent"
  BY DEF Init, NoEvent
<1> QED
  BY <1>1, <1>2, IdleLemma
     DEF StatusInv, WritesOK, EditsAllowed, Unborn, InsertsOnce, OneByOne, Solo

LEMMA NextStatus == StatusInv /\ [Next]_vars => StatusInv'
<1> SUFFICES ASSUME StatusInv, [Next]_vars PROVE StatusInv'
  OBVIOUS
<1>1. RequestsOK /\ RequestsOK'
  BY NextRequests DEF StatusInv
<1>2. ASSUME NEW r \in Reqs, NEW d \in Dates, CallCreate(r, d) PROVE StatusInv'
  <2>1. PICK snap \in EventDoc : snap.status = "open" /\ Begun(r, "create", "insert", snap)
    BY <1>1, <1>2, CallCreateLemma
  <2>2. /\ doc' = doc /\ jobs' = jobs /\ doc.status = "none"
        /\ \A q \in Reqs : reqs[q].op # "create"
    BY <1>2 DEF CallCreate
  <2>3. "create" \in AllOps
    BY DEF AllOps
  <2> QED
    BY <1>1, <2>1, <2>2, <2>3, BegunStatus
<1>3. ASSUME NEW r \in Reqs, NEW op \in UserOps, CallCommand(r, op) PROVE StatusInv'
  <2>1. Begun(r, op, "read", NoEvent)
    BY <1>1, <1>3, CallCommandLemma
  <2>2. doc' = doc /\ op \in Ops /\ doc.status # "none"
    BY <1>3 DEF CallCommand, StatusInv, Unborn
  <2>3. op \in AllOps /\ op # "create"
    BY DEF AllOps, UserOps
  <2> QED
    BY <1>1, <2>1, <2>2, <2>3, BegunStatus
<1>4. ASSUME NEW r \in Reqs, NEW k \in JobOps, RunJob(r, k) PROVE StatusInv'
  <2>1. Begun(r, k, FirstStep(k), NoEvent)
    BY <1>1, <1>4, RunJobLemma
  <2>2. jobs[k].status \in {"pending", "running"} /\ k \in JobKinds
    BY <1>4 DEF RunJob, Claimable, JobOps, JobKinds
  <2>3. doc' = doc /\ doc.status # "none"
    BY <1>4, <2>2 DEF RunJob, StatusInv, Unborn
  <2>4. /\ k \in AllOps /\ k \notin {"create", "update"}
        /\ FirstStep(k) \notin {"insert", "write", "redraw"}
    BY DEF AllOps, JobOps, FirstStep
  <2> QED
    BY <1>1, <2>1, <2>3, <2>4, BegunStatus
<1>5. ASSUME NEW r \in Reqs, Step(r) \/ Fail(r) \/ Crash(r) PROVE StatusInv'
  BY <1>5, GoingStatus
<1>6. CASE SendReminders
  <2>1. doc' = doc /\ reqs' = reqs /\ doc.status # "none"
    BY <1>6 DEF SendReminders, StatusInv, Unborn, JobKinds
  <2> QED
    BY <1>1, <2>1
       DEF StatusInv, WritesOK, CallOf, EditsAllowed, Unborn, InsertsOnce, OneByOne, Solo
<1>7. CASE Tick
  <2>1. /\ doc'.status = doc.status /\ doc'.channel = doc.channel
        /\ \A k \in JobKinds : jobs'[k].status = jobs[k].status
    BY <1>1, <1>7 DEF Tick, RequestsOK, TypeOK, EventDoc, Job
  <2>2. ASSUME NEW r \in Reqs
        PROVE  /\ reqs'[r].op = reqs[r].op /\ CallOf(reqs'[r]) = CallOf(reqs[r])
               /\ reqs'[r].snap.status = reqs[r].snap.status
    <3>1. reqs[r] \in Request /\ reqs[r].snap \in EventDoc
      BY <1>1, CallLemma
    <3> QED
      BY <1>7, <3>1 DEF Tick, Request, EventDoc, CallOf
  <2>3. \A r \in Reqs : WritesOK(reqs[r])'
    BY <2>2 DEF StatusInv, WritesOK, CallOf
  <2>4. EditsAllowed' /\ InsertsOnce' /\ Unborn'
    BY <2>1, <2>2 DEF StatusInv, EditsAllowed, InsertsOnce, Unborn, CallOf
  <2>5. OneByOne'
    BY <2>1, <2>2 DEF StatusInv, OneByOne, Solo, CallOf
  <2> QED
    BY <1>1, <2>3, <2>4, <2>5 DEF StatusInv
<1>8. CASE UNCHANGED vars
  BY <1>1, <1>8
     DEF vars, StatusInv, WritesOK, CallOf, EditsAllowed, Unborn, InsertsOnce, OneByOne, Solo
<1> QED
  BY <1>2, <1>3, <1>4, <1>5, <1>6, <1>7, <1>8 DEF Next

\* docs/04 section 2.3.2: an event that was ended or canceled stays closed, provided
\* operations that write it come one after another, or nobody edits it.
THEOREM StaysClosed ==
  ASSUME OneAtATime \/ "update" \notin Ops
  PROVE  Spec => NeverReopened
<1>1. StatusInv /\ [Next]_vars => [doc.status \in Closed => doc'.status \in Closed]_vars
  <2> SUFFICES ASSUME StatusInv, Next, doc.status \in Closed PROVE doc'.status \in Closed
    OBVIOUS
  <2>1. doc \in EventDoc /\ RequestsOK
    BY DEF StatusInv, RequestsOK, TypeOK
  <2>2. ASSUME NEW r \in Reqs, Step(r) PROVE doc'.status \in Closed
    <3>1. CASE doc'.status = doc.status
      BY <3>1
    <3>2. CASE CallOf(reqs[r]) = "insert"
      BY <3>2 DEF StatusInv, InsertsOnce, Closed
    <3>3. CASE doc'.status = "canceled"
      BY <3>3 DEF Closed
    <3>4. CASE CallOf(reqs[r]) = "write" /\ doc'.status = reqs[r].snap.status
      <4>1. reqs[r].op \in AllOps /\ CallOf(reqs[r]) \in CallsOf(reqs[r].op)
        BY <2>1, <2>2, StepBusy, CallLemma
      <4>2. reqs[r].op \in Closers \cup {"update"}
        BY <3>4, <4>1, CallerLemma
      <4>3. reqs[r].op # "update"
        BY <3>4 DEF StatusInv, EditsAllowed, OneByOne, Closed
      <4> QED
        BY <3>4, <4>2, <4>3 DEF StatusInv, WritesOK
    <3> QED
      BY <2>1, <2>2, <3>1, <3>2, <3>3, <3>4, StatusMoves
  <2>3. ASSUME NEW r \in Reqs, Fail(r) \/ Crash(r) PROVE doc'.status \in Closed
    BY <2>3, FailKeeps
  <2>4. CASE \/ \E r \in Reqs, d \in Dates : CallCreate(r, d)
             \/ \E r \in Reqs, op \in UserOps : CallCommand(r, op)
             \/ \E r \in Reqs, k \in JobOps : RunJob(r, k)
             \/ SendReminders
    BY <2>4 DEF CallCreate, CallCommand, RunJob, SendReminders
  <2>5. CASE Tick
    BY <2>1, <2>5 DEF Tick, EventDoc
  <2> QED
    BY <2>2, <2>3, <2>4, <2>5 DEF Next
<1> QED
  BY <1>1, InitStatus, NextStatus, PTL DEF Spec, NeverReopened

-----------------------------------------------------------------------------
(* Every open event has an automatic end ahead, and a closed one comes to  *)
(* rest, when the operations that write the event do not overlap, dates    *)
(* are only put off, and neither the creation nor a closing breaks off.    *)

\* Only an edit or the archiving of a channel may fail half-way.
Orderly ==
  /\ OneAtATime /\ ~MayAdvance
  /\ FaultyOps \subseteq {"update", "archive_channel"}
  /\ Reqs # {}

-----------------------------------------------------------------------------
(* The invariant: what is true of the event, its jobs and its announcement, *)
(* given the one request req that may be writing the event.                *)

\* The date is known to the creation, which plans the end with its last call.
CreationOK(req, d, js) ==
  req.op = "create" =>
    /\ CallOf(req) \notin {"abort", "plan_archive"}
    /\ CallOf(req) # "insert" => d.status = "open" /\ req.snap.ends = d.ends
    /\ js["auto_end"].status = "absent"

EditOK(req, d) ==
  req.op = "update" /\ CallOf(req) # "read" =>
    /\ d.status = "open"
    /\ CallOf(req) = "write" => req.snap.ends >= d.ends

CloserOK(req, d) ==
  req.op \in Closers =>
    /\ CallOf(req) \in {"redraw", "drop_jobs", "plan_archive", "finish"} => d.status # "open"
    /\ CallOf(req) = "postpone" => d.status = "open" /\ req.snap.ends = d.ends

RedrawOK(req, d) ==
  req.op \in Closers \cup {"update"} /\ CallOf(req) \in {"write", "redraw"} =>
    req.snap.posted = d.posted

EndAhead(req, d, js) ==
  d.status = "open" =>
    \/ req.op \in {"create", "auto_end"}
    \/ js["auto_end"].status = "pending" /\ js["auto_end"].runAt <= d.ends

PostedKnown(req, d, sh) ==
  sh = "open" =>
    /\ d.status # "none"
    /\ d.posted \/ (req.op = "create" /\ CallOf(req) = "set_messages")

\* What is left to be done after an event was closed, the request is about to do.
QuietAhead(req, d, js, sh) ==
  d.status \in Closed =>
    /\ js["reminder"].status = "pending" \/ js["auto_end"].status = "pending" =>
         req.op \in Closers /\ CallOf(req) \in {"redraw", "drop_jobs"}
    /\ sh = "open" => req.op \in Closers /\ CallOf(req) = "redraw"

OrderOK(req, d, js, sh) ==
  /\ CreationOK(req, d, js) /\ EditOK(req, d) /\ CloserOK(req, d) /\ RedrawOK(req, d)
  /\ EndAhead(req, d, js) /\ PostedKnown(req, d, sh) /\ QuietAhead(req, d, js, sh)

Lead(r) == \A q \in Reqs : q # r => ~Solo(reqs[q])

OrderInv ==
  /\ StatusInv
  /\ \A r \in Reqs : Lead(r) => OrderOK(reqs[r], doc, jobs, shown)

-----------------------------------------------------------------------------
(* Whichever request leads.                                                *)

LEMMA SoloLemma ==
  ASSUME NEW a, NEW b, NEW d, NEW js, NEW sh, ~Solo(a), ~Solo(b), OrderOK(a, d, js, sh)
  PROVE  OrderOK(b, d, js, sh)
BY DEF Solo, OrderOK, CreationOK, EditOK, CloserOK, RedrawOK, EndAhead, PostedKnown,
       QuietAhead, Closers

\* A solo request leads, as does one that begins.
LEMMA LeadLemma ==
  ASSUME StatusInv, OneAtATime, NEW r \in Reqs, Solo(reqs[r])
  PROVE  Lead(r)
BY DEF StatusInv, OneByOne, Lead

LEMMA FollowLemma ==
  ASSUME StatusInv', NEW r \in Reqs, Lead(r)', OrderOK(reqs'[r], doc', jobs', shown')
  PROVE  OrderInv'
<1> SUFFICES ASSUME NEW p \in Reqs, Lead(p)'
             PROVE  OrderOK(reqs'[p], doc', jobs', shown')
  BY DEF OrderInv
<1>1. CASE p = r
  BY <1>1
<1>2. CASE p # r
  <2>1. ~Solo(reqs'[p]) /\ ~Solo(reqs'[r])
    BY <1>2 DEF Lead, Solo
  <2> QED
    BY <2>1, SoloLemma
<1> QED
  BY <1>1, <1>2

\* What of the state the leading request has a part in.
Apart ==
  /\ doc'.status = doc.status /\ doc'.ends = doc.ends /\ doc'.posted = doc.posted
  /\ shown' = shown
  /\ \A k \in {"reminder", "auto_end"} : jobs'[k] = jobs[k]

LEMMA ApartLemma ==
  ASSUME NEW req, OrderOK(req, doc, jobs, shown), Apart
  PROVE  OrderOK(req, doc', jobs', shown')
BY DEF Apart, OrderOK, CreationOK, EditOK, CloserOK, RedrawOK, EndAhead, PostedKnown,
       QuietAhead

\* A request that does not write the event changes nothing of it.
LEMMA AsideLemma ==
  ASSUME OrderInv, StatusInv', Apart, NEW r \in Reqs, Moved(r),
         ~Solo(reqs[r]), ~Solo(reqs'[r])
  PROVE  OrderInv'
<1>1. RequestsOK /\ \A q \in Reqs : q # r => reqs'[q] = reqs[q]
  BY Others DEF OrderInv, StatusInv
<1> SUFFICES ASSUME NEW p \in Reqs, Lead(p)'
             PROVE  OrderOK(reqs'[p], doc', jobs', shown')
  BY DEF OrderInv
<1>2. Lead(p)
  BY <1>1 DEF Lead, Solo
<1>3. OrderOK(reqs[p], doc', jobs', shown')
  BY <1>2, ApartLemma DEF OrderInv
<1>4. CASE p = r
  BY <1>3, <1>4, SoloLemma
<1>5. CASE p # r
  BY <1>1, <1>3, <1>5
<1> QED
  BY <1>4, <1>5

-----------------------------------------------------------------------------
(* The steps of the request that writes the event.                         *)

LEMMA SoloSteps ==
  ASSUME Orderly, OrderInv, NEW r \in Reqs, Solo(reqs[r]), Step(r)
  PROVE  OrderOK(reqs'[r], doc', jobs', shown')
<1> DEFINE op == reqs[r].op
           call == CallOf(reqs[r])
           snap == reqs[r].snap
           new == reqs'[r]
<1>1. /\ RequestsOK /\ WritesOK(reqs[r])
      /\ doc \in EventDoc /\ snap \in EventDoc /\ doc.ends \in Nat /\ snap.ends \in Nat
      /\ jobs \in [JobKinds -> Job] /\ {"reminder", "auto_end", "archive_channel"} \subseteq JobKinds
      /\ op \in AllOps /\ op \notin {"none", "archive_channel"} /\ call \in CallsOf(op)
  BY CallLemma DEF OrderInv, StatusInv, RequestsOK, TypeOK, Solo, EventDoc, JobKinds
<1>2. OrderOK(reqs[r], doc, jobs, shown)
  BY LeadLemma DEF Orderly, OrderInv
<1> DEFINE Ahead(s) == \/ new = Idle /\ "none" \in NextCalls(op, call)
                       \/ /\ new.op = op /\ new.snap = s
                          /\ CallOf(new) \in NextCalls(op, call) /\ CallOf(new) # "none"
<1>3. ASSUME NEW s, Advanced(r, s) PROVE Ahead(s)
  BY <1>3, IdleLemma DEF Advanced
<1>4. \A call2 : At(r, call2) => call = call2
  BY <1>1, AtLemma
<1>5. CASE Insert(r)
  <2>1. /\ call = "insert" /\ op = "create" /\ Ahead(snap) /\ doc' = snap /\ jobs' = jobs
        /\ shown' = shown /\ snap.status = "open" /\ doc.status = "none"
    BY <1>1, <1>3, <1>4, <1>5, PlainSteps, CallerLemma
       DEF Insert, WritesOK, OrderInv, StatusInv, InsertsOnce
  <2>2. new.op = "create" /\ new.snap = snap /\ CallOf(new) = "organizer"
    BY <2>1 DEF NextCalls
  <2> QED
    BY <1>2, <2>1, <2>2
       DEF OrderOK, CreationOK, EditOK, CloserOK, RedrawOK, EndAhead, PostedKnown, QuietAhead,
           Closed, Closers
<1>6. CASE RegisterOrganizer(r)
  <2>1. /\ call = "organizer" /\ op = "create" /\ Ahead(snap)
        /\ doc' = doc /\ jobs' = jobs /\ shown' = shown
    BY <1>1, <1>3, <1>4, <1>6, PlainSteps, CallerLemma
       DEF RegisterOrganizer
  <2>2. new.op = "create" /\ new.snap = snap /\ CallOf(new) = "channel"
    BY <2>1 DEF NextCalls
  <2> QED
    BY <1>1, <1>2, <2>1, <2>2
       DEF OrderOK, CreationOK, EditOK, CloserOK, RedrawOK, EndAhead, PostedKnown, QuietAhead,
           Closed, Closers
<1>7. CASE CreateChannel(r)
  <2>1. /\ call = "channel" /\ op = "create" /\ Ahead([snap EXCEPT !.channel = "live"])
        /\ doc' = doc /\ jobs' = jobs /\ shown' = shown
    BY <1>1, <1>3, <1>4, <1>7, LearningSteps, CallerLemma
       DEF CreateChannel
  <2>2. new.op = "create" /\ new.snap = [snap EXCEPT !.channel = "live"] /\ CallOf(new) = "set_channel"
    BY <2>1 DEF NextCalls
  <2> QED
    BY <1>1, <1>2, <2>1, <2>2
       DEF OrderOK, CreationOK, EditOK, CloserOK, RedrawOK, EndAhead, PostedKnown, QuietAhead,
           Closed, Closers, EventDoc
<1>8. CASE SetChannel(r)
  <2>1. /\ call = "set_channel" /\ op = "create" /\ Ahead(snap)
        /\ Apart /\ jobs' = jobs
    <3>1. call \in {"set_channel", "set_archived"} /\ Ahead(snap)
      BY <1>1, <1>3, <1>8, AtLemma, PlainSteps DEF SetChannel
    <3>2. call = "set_channel" /\ op = "create"
      BY <1>1, <3>1, CallerLemma
    <3>3. Apart /\ jobs' = jobs
      BY <1>1, <1>8 DEF SetChannel, Apart, EventDoc
    <3> QED
      BY <3>1, <3>2, <3>3
  <2>2. new.op = "create" /\ new.snap = snap /\ CallOf(new) = "post"
    BY <2>1 DEF NextCalls
  <2> QED
    BY <1>1, <1>2, <2>1, <2>2
       DEF OrderOK, CreationOK, EditOK, CloserOK, RedrawOK, EndAhead, PostedKnown, QuietAhead,
           Closed, Closers, Apart
<1>9. CASE PostAnnouncements(r)
  <2>1. /\ call = "post" /\ op = "create" /\ Ahead([snap EXCEPT !.posted = TRUE])
        /\ doc' = doc /\ jobs' = jobs /\ shown' = "open"
    BY <1>1, <1>3, <1>4, <1>9, LearningSteps, CallerLemma
       DEF PostAnnouncements
  <2>2. new.op = "create" /\ new.snap = [snap EXCEPT !.posted = TRUE] /\ CallOf(new) = "set_messages"
    BY <2>1 DEF NextCalls
  <2> QED
    BY <1>1, <1>2, <2>1, <2>2
       DEF OrderOK, CreationOK, EditOK, CloserOK, RedrawOK, EndAhead, PostedKnown, QuietAhead,
           Closed, Closers, EventDoc
<1>10. CASE SetMessages(r)
  <2>1. /\ call = "set_messages" /\ op = "create" /\ Ahead(snap)
        /\ doc' = [doc EXCEPT !.posted = TRUE] /\ jobs' = jobs /\ shown' = shown
    BY <1>1, <1>3, <1>4, <1>10, PlainSteps, CallerLemma
       DEF SetMessages
  <2>2. new.op = "create" /\ new.snap = snap /\ CallOf(new) = "drop_reminders"
    BY <2>1 DEF NextCalls
  <2> QED
    BY <1>1, <1>2, <2>1, <2>2
       DEF OrderOK, CreationOK, EditOK, CloserOK, RedrawOK, EndAhead, PostedKnown, QuietAhead,
           Closed, Closers, EventDoc
<1>11. CASE AbortProvision(r)
  <2>1. call = "abort" /\ op = "create"
    BY <1>1, <1>4, <1>11, CallerLemma DEF AbortProvision
  <2> QED
    BY <1>2, <2>1 DEF OrderOK, CreationOK
<1>12. CASE DropReminders(r)
  <2>1. /\ call = "drop_reminders" /\ op \in {"create", "update"} /\ Ahead(snap)
        /\ doc' = doc /\ shown' = shown /\ jobs'["auto_end"] = jobs["auto_end"]
    BY <1>1, <1>3, <1>4, <1>12, PlainSteps, CallerLemma DEF DropReminders, Dropped
  <2>2. new.op = op /\ new.snap = snap /\ CallOf(new) = "remind"
    BY <2>1 DEF NextCalls
  <2>3. doc.status = "open"
    BY <1>2, <2>1 DEF OrderOK, CreationOK, EditOK
  <2> QED
    BY <1>1, <1>2, <2>1, <2>2, <2>3
       DEF OrderOK, CreationOK, EditOK, CloserOK, RedrawOK, EndAhead, PostedKnown, QuietAhead,
           Closed, Closers
<1>13. CASE Remind(r)
  <2>1. /\ call = "remind" /\ op \in {"create", "update"} /\ Ahead(snap)
        /\ doc' = doc /\ shown' = shown /\ jobs'["auto_end"] = jobs["auto_end"]
    BY <1>1, <1>3, <1>4, <1>13, PlainSteps, CallerLemma DEF Remind
  <2>2. \/ op = "create" /\ new.op = op /\ new.snap = snap /\ CallOf(new) = "plan_end"
        \/ op = "update" /\ new = Idle
    BY <2>1 DEF NextCalls
  <2>3. doc.status = "open"
    BY <1>2, <2>1 DEF OrderOK, CreationOK, EditOK
  <2> QED
    BY <1>1, <1>2, <2>1, <2>2, <2>3, IdleLemma
       DEF OrderOK, CreationOK, EditOK, CloserOK, RedrawOK, EndAhead, PostedKnown, QuietAhead,
           Closed, Closers
<1>14. CASE PlanEnd(r)
  <2>1. /\ call = "plan_end" /\ op = "create" /\ Ahead(snap)
        /\ doc' = doc /\ shown' = shown /\ jobs' = Enqueued("auto_end", snap.ends)
    BY <1>1, <1>3, <1>4, <1>14, PlainSteps, CallerLemma DEF PlanEnd
  <2>2. new = Idle
    BY <2>1 DEF NextCalls
  <2>3. /\ doc.status = "open" /\ snap.ends = doc.ends
        /\ jobs'["auto_end"] = [status |-> "pending", runAt |-> snap.ends]
    BY <1>1, <1>2, <2>1 DEF OrderOK, CreationOK, Enqueued
  <2> QED
    BY <1>1, <1>2, <2>1, <2>2, <2>3, IdleLemma
       DEF OrderOK, CreationOK, EditOK, CloserOK, RedrawOK, EndAhead, PostedKnown, QuietAhead,
           Closed, Closers
<1>15. CASE ReadToUpdate(r)
  <2>1. op = "update" /\ doc' = doc /\ jobs' = jobs /\ shown' = shown
    BY <1>15 DEF ReadToUpdate
  <2>2. CASE new = Idle
    BY <1>2, <2>1, <2>2, IdleLemma
       DEF OrderOK, CreationOK, EditOK, CloserOK, RedrawOK, EndAhead, PostedKnown, QuietAhead,
           Closed, Closers
  <2>3. ASSUME doc.status = "open", NEW d \in Dates, MayAdvance \/ d >= doc.ends,
               Turned(r, "write", [doc EXCEPT !.ends = d])
        PROVE  OrderOK(new, doc', jobs', shown')
    <3>1. /\ new.op = "update" /\ CallOf(new) = "write" /\ d >= doc.ends
          /\ new.snap.ends = d /\ new.snap.posted = doc.posted
      BY <1>1, <2>1, <2>3 DEF Turned, EventDoc, Orderly
    <3> QED
      BY <1>1, <1>2, <2>1, <2>3, <3>1
       DEF OrderOK, CreationOK, EditOK, CloserOK, RedrawOK, EndAhead, PostedKnown, QuietAhead,
           Closed, Closers
  <2> QED
    BY <1>1, <1>15, <2>2, <2>3, ReadToUpdateLemma DEF Ended
<1>16. CASE ReadToClose(r)
  <2>1. op \in Closers /\ call = "read" /\ doc' = doc /\ jobs' = jobs /\ shown' = shown
    BY <1>1, <1>16, AtLemma, ReadToCloseLemma DEF ReadToClose
  <2>2. CASE doc.status # "open" /\ Advanced(r, doc)
    <3>1. new = Idle \/ (new.op = op /\ CallOf(new) = "finish")
      BY <1>3, <2>1, <2>2 DEF NextCalls
    <3> QED
      BY <1>2, <2>1, <2>2, <3>1, IdleLemma
       DEF OrderOK, CreationOK, EditOK, CloserOK, RedrawOK, EndAhead, PostedKnown, QuietAhead,
           Closed, Closers
  <2>3. ASSUME doc.status = "open", Turned(r, "write", [doc EXCEPT !.status = StatusAfter(op)])
        PROVE  OrderOK(new, doc', jobs', shown')
    <3>1. /\ new.op = op /\ CallOf(new) = "write" /\ new.snap.posted = doc.posted
      BY <1>1, <2>3 DEF Turned, EventDoc
    <3> QED
      BY <1>1, <1>2, <2>1, <2>3, <3>1
       DEF OrderOK, CreationOK, EditOK, CloserOK, RedrawOK, EndAhead, PostedKnown, QuietAhead,
           Closed, Closers
  <2> QED
    BY <1>1, <1>16, <2>2, <2>3, ReadToCloseLemma
<1>17. CASE SaveEvent(r)
  <2>1. /\ call = "write" /\ op \in Closers \cup {"update"} /\ Ahead(snap)
        /\ doc' = Saved(doc, snap) /\ jobs' = jobs /\ shown' = shown
    BY <1>1, <1>3, <1>4, <1>17, PlainSteps, CallerLemma DEF SaveEvent
  <2>2. new.op = op /\ new.snap = snap /\ CallOf(new) = "redraw"
    BY <2>1 DEF NextCalls
  <2>3. doc'.status = snap.status /\ doc'.ends = snap.ends /\ doc'.posted = doc.posted
    BY <1>1, <2>1 DEF Saved, EventDoc
  <2>4. CASE op = "update"
    <3>1. snap.status = "open" /\ doc.status = "open" /\ snap.ends >= doc.ends
      BY <1>1, <1>2, <2>1, <2>4 DEF WritesOK, OrderOK, EditOK
    <3>2. jobs["auto_end"].runAt \in Nat
      BY <1>1 DEF Job
    <3> QED
      BY <1>1, <1>2, <2>1, <2>2, <2>3, <2>4, <3>1, <3>2
       DEF OrderOK, CreationOK, EditOK, CloserOK, RedrawOK, EndAhead, PostedKnown, QuietAhead,
           Closed, Closers
  <2>5. CASE op \in Closers
    <3>1. snap.status \in Closed
      BY <1>1, <2>1, <2>5 DEF WritesOK
    <3> QED
      BY <1>1, <1>2, <2>1, <2>2, <2>3, <2>5, <3>1
       DEF OrderOK, CreationOK, EditOK, CloserOK, RedrawOK, EndAhead, PostedKnown, QuietAhead,
           Closed, Closers
  <2> QED
    BY <2>1, <2>4, <2>5
<1>18. CASE Redraw(r)
  <2>1. /\ call = "redraw" /\ op \in Closers \cup {"update"} /\ Ahead(snap)
        /\ doc' = doc /\ jobs' = jobs
        /\ shown' = IF ~snap.posted THEN shown ELSE IF snap.status = "open" THEN "open" ELSE "closed"
    BY <1>1, <1>3, <1>4, <1>18, PlainSteps, CallerLemma DEF Redraw
  <2>2. snap.posted = doc.posted
    BY <1>2, <2>1 DEF OrderOK, RedrawOK
  <2>3. CASE op = "update"
    <3>1. new.op = op /\ new.snap = snap /\ CallOf(new) = "drop_reminders"
      BY <2>1, <2>3 DEF NextCalls
    <3> QED
      BY <1>1, <1>2, <2>1, <2>2, <2>3, <3>1
       DEF OrderOK, CreationOK, EditOK, CloserOK, RedrawOK, EndAhead, PostedKnown, QuietAhead,
           Closed, Closers
  <2>4. CASE op \in Closers
    <3>1. new.op = op /\ new.snap = snap /\ CallOf(new) = "drop_jobs"
      BY <2>1, <2>4 DEF NextCalls, Closers
    <3>2. snap.status \in Closed
      BY <1>1, <2>1, <2>4 DEF WritesOK
    <3>3. shown' # "open"
      BY <1>2, <2>1, <2>2, <2>4, <3>2 DEF OrderOK, PostedKnown, Closed, Closers
    <3> QED
      BY <1>1, <1>2, <2>1, <2>2, <2>4, <3>1, <3>3
       DEF OrderOK, CreationOK, EditOK, CloserOK, RedrawOK, EndAhead, PostedKnown, QuietAhead,
           Closed, Closers
  <2> QED
    BY <2>1, <2>3, <2>4
<1>19. CASE DropJobs(r)
  <2>1. /\ call = "drop_jobs" /\ op \in Closers /\ Ahead(snap)
        /\ doc' = doc /\ shown' = shown
        /\ \A k \in {"reminder", "auto_end"} : jobs'[k].status # "pending"
    <3>1. /\ call = "drop_jobs" /\ op \in Closers /\ Ahead(snap) /\ doc' = doc /\ shown' = shown
          /\ jobs' = Dropped({"reminder", "auto_end"})
      BY <1>1, <1>3, <1>4, <1>19, PlainSteps, CallerLemma DEF DropJobs
    <3>2. \A k \in {"reminder", "auto_end"} : jobs'[k].status # "pending"
      BY <1>1, <3>1 DEF Dropped, Job
    <3> QED
      BY <3>1, <3>2
  <2>2. new.op = op /\ new.snap = snap /\ CallOf(new) = "plan_archive"
    BY <2>1 DEF NextCalls
  <2> QED
    BY <1>1, <1>2, <2>1, <2>2
       DEF OrderOK, CreationOK, EditOK, CloserOK, RedrawOK, EndAhead, PostedKnown, QuietAhead,
           Closed, Closers
<1>20. CASE PlanArchive(r)
  <2>1. /\ call = "plan_archive" /\ op \in Closers \cup {"create"} /\ Ahead(snap) /\ Apart
    BY <1>1, <1>3, <1>4, <1>20, PlainSteps, CallerLemma DEF PlanArchive, Apart, Enqueued
  <2>2. op \in Closers
    BY <1>2, <2>1 DEF OrderOK, CreationOK
  <2>3. (new = Idle /\ op # "auto_end") \/ (new.op = op /\ CallOf(new) = "finish")
    BY <2>1 DEF NextCalls
  <2> QED
    BY <1>1, <1>2, <2>1, <2>2, <2>3, IdleLemma
       DEF OrderOK, CreationOK, EditOK, CloserOK, RedrawOK, EndAhead, PostedKnown, QuietAhead,
           Closed, Closers, Apart
<1>21. CASE CheckEnd(r)
  <2>1. op = "auto_end" /\ call = "check" /\ doc' = doc /\ jobs' = jobs /\ shown' = shown
    BY <1>1, <1>21, AtLemma, CheckEndLemma DEF CheckEnd
  <2>2. /\ new.op = op /\ new.snap = doc
        /\ \/ CallOf(new) = "finish" /\ doc.status # "open"
           \/ CallOf(new) = "postpone" /\ doc.status = "open"
           \/ CallOf(new) = "read"
    BY <1>1, <1>21, CheckEndLemma DEF Turned
  <2> QED
    BY <1>1, <1>2, <2>1, <2>2
       DEF OrderOK, CreationOK, EditOK, CloserOK, RedrawOK, EndAhead, PostedKnown, QuietAhead,
           Closed, Closers
<1>22. CASE PostponeEnd(r)
  <2>1. /\ op = "auto_end" /\ call = "postpone" /\ new = Idle /\ doc' = doc /\ shown' = shown
        /\ jobs'["auto_end"] = [status |-> "pending", runAt |-> snap.ends]
    BY <1>1, <1>4, <1>22, EndingSteps DEF PostponeEnd, Ended
  <2> QED
    BY <1>1, <1>2, <2>1, IdleLemma
       DEF OrderOK, CreationOK, EditOK, CloserOK, RedrawOK, EndAhead, PostedKnown, QuietAhead,
           Closed, Closers
<1>23. CASE FinishJob(r)
  <2>1. /\ op = "auto_end" /\ call = "finish" /\ new = Idle /\ doc' = doc /\ shown' = shown
        /\ jobs' = [jobs EXCEPT !["auto_end"].status = "done"]
    BY <1>1, <1>4, <1>23, EndingSteps DEF FinishJob, Ended, JobOps
  <2>2. /\ jobs'["auto_end"].status = "done" /\ jobs'["reminder"] = jobs["reminder"]
    BY <1>1, <2>1 DEF Job
  <2> QED
    BY <1>1, <1>2, <2>1, <2>2, IdleLemma
       DEF OrderOK, CreationOK, EditOK, CloserOK, RedrawOK, EndAhead, PostedKnown, QuietAhead,
           Closed, Closers
<1>24. ~LookAtChannel(r) /\ ~Archive(r)
  BY <1>1, <1>4, CallerLemma DEF LookAtChannel, Archive
<1> QED
  BY <1>5, <1>6, <1>7, <1>8, <1>9, <1>10, <1>11, <1>12, <1>13, <1>14, <1>15, <1>16, <1>17, <1>18,
     <1>19, <1>20, <1>21, <1>22, <1>23, <1>24 DEF Step

\* What a channel's archiving does is apart from the rest of the event.
LEMMA ArchiveSteps ==
  ASSUME RequestsOK, NEW r \in Reqs, reqs[r].op = "archive_channel",
         Step(r) \/ Fail(r) \/ Crash(r)
  PROVE  Apart
<1>1. /\ CallOf(reqs[r]) \in {"look", "archive", "set_archived", "finish"}
      /\ doc \in EventDoc /\ jobs \in [JobKinds -> Job]
      /\ {"reminder", "auto_end", "archive_channel"} \subseteq JobKinds
  BY CallLemma DEF CallsOf, RequestsOK, TypeOK, JobKinds
<1>2. \A call : At(r, call) => call = CallOf(reqs[r])
  BY AtLemma
<1>3. CASE LookAtChannel(r) \/ Archive(r)
  BY <1>3 DEF LookAtChannel, Archive, Apart
<1>4. CASE SetChannel(r)
  BY <1>1, <1>4 DEF SetChannel, EventDoc, Apart
<1>5. CASE FinishJob(r)
  BY <1>1, <1>5 DEF FinishJob, Apart
<1>6. CASE Fail(r) \/ Crash(r)
  <2>1. jobs' = jobs \/ jobs' = Retried(r)
    BY <1>6, FailKeeps
  <2>2. doc' = doc /\ shown' = shown
    BY <1>1, <1>2, <1>6 DEF Fail, Crash
  <2> QED
    BY <1>1, <2>1, <2>2 DEF Retried, Apart, JobOps
<1>7. ~(\/ Insert(r) \/ RegisterOrganizer(r) \/ CreateChannel(r) \/ PostAnnouncements(r)
        \/ SetMessages(r) \/ DropReminders(r) \/ Remind(r) \/ PlanEnd(r) \/ AbortProvision(r)
        \/ ReadToUpdate(r) \/ ReadToClose(r) \/ SaveEvent(r) \/ Redraw(r) \/ DropJobs(r)
        \/ PlanArchive(r) \/ CheckEnd(r) \/ PostponeEnd(r))
  BY <1>1, <1>2
     DEF Insert, RegisterOrganizer, CreateChannel, PostAnnouncements, SetMessages,
         DropReminders, Remind, PlanEnd, AbortProvision, ReadToUpdate, ReadToClose, SaveEvent,
         Redraw, DropJobs, PlanArchive, CheckEnd, PostponeEnd
<1> QED
  BY <1>3, <1>4, <1>5, <1>6, <1>7 DEF Step

\* An edit that breaks off leaves the event as it is.
LEMMA EditBreaks ==
  ASSUME OrderInv, NEW r \in Reqs, reqs[r].op = "update", Fail(r) \/ Crash(r),
         OrderOK(reqs[r], doc, jobs, shown)
  PROVE  OrderOK(reqs'[r], doc', jobs', shown')
<1>1. RequestsOK /\ CallOf(reqs[r]) \in CallsOf("update")
  BY CallLemma DEF OrderInv, StatusInv
<1>2. doc' = doc /\ jobs' = jobs
  BY FailKeeps DEF Retried, JobOps
<1>3. ~At(r, "post") /\ ~At(r, "abort")
  BY <1>1, AtLemma DEF CallsOf
<1>4. shown' = shown
  BY <1>3 DEF Fail, Crash
<1>5. \/ Ended(r)
      \/ CallOf(reqs[r]) = "redraw" /\ Advanced(r, reqs[r].snap)
  <2>1. CASE Fail(r)
    BY <1>1, <2>1, FailLemma DEF CallsOf
  <2>2. CASE Crash(r)
    BY <1>1, <2>2, EndedLemma DEF Crash
  <2> QED
    BY <2>1, <2>2
<1>6. CASE Ended(r)
  BY <1>2, <1>4, <1>6, IdleLemma
     DEF Ended, OrderOK, CreationOK, EditOK, CloserOK, RedrawOK, EndAhead, PostedKnown,
         QuietAhead, Closers
<1>7. CASE CallOf(reqs[r]) = "redraw" /\ Advanced(r, reqs[r].snap)
  <2>1. \/ reqs'[r] = Idle
        \/ /\ reqs'[r].op = "update" /\ reqs'[r].snap = reqs[r].snap
           /\ CallOf(reqs'[r]) = "drop_reminders"
    BY <1>7 DEF Advanced, NextCalls
  <2> QED
    BY <1>2, <1>4, <1>7, <2>1, IdleLemma
       DEF OrderOK, CreationOK, EditOK, CloserOK, RedrawOK, EndAhead, PostedKnown,
           QuietAhead, Closers
<1> QED
  BY <1>5, <1>6, <1>7

\* A goroutine that begins an operation that writes the event.
LEMMA BeginningLemma ==
  ASSUME Orderly, OrderInv, StatusInv', NEW r \in Reqs, NEW op, NEW call, NEW snap,
         Begun(r, op, call, snap), op # "archive_channel", doc' = doc, shown' = shown,
         \/ jobs' = jobs /\ op \in UserOps /\ call = "read"
         \/ jobs' = jobs /\ op = "create" /\ call = "insert" /\ doc.status = "none"
         \/ /\ op = "auto_end" /\ call = "check"
            /\ jobs' = [jobs EXCEPT !["auto_end"].status = "running"]
  PROVE  OrderInv'
<1>1. /\ RequestsOK /\ Moved(r) /\ reqs[r].op = "none" /\ Alone(op)
      /\ reqs'[r].op = op /\ CallOf(reqs'[r]) = call
      /\ jobs \in [JobKinds -> Job] /\ {"reminder", "auto_end"} \subseteq JobKinds
  BY IdleLemma DEF OrderInv, StatusInv, RequestsOK, TypeOK, Begun, JobKinds
<1>2. \A q \in Reqs : ~Solo(reqs[q]) /\ (q # r => reqs'[q] = reqs[q])
  BY <1>1, Others DEF Alone, Solo, Orderly
<1>3. Lead(r) /\ Lead(r)'
  BY <1>2 DEF Lead, Solo
<1>4. OrderOK(reqs[r], doc, jobs, shown)
  BY <1>3 DEF OrderInv
<1>5. OrderOK(reqs'[r], doc', jobs', shown')
  <2>1. CASE jobs' = jobs /\ op \in UserOps /\ call = "read"
    BY <1>1, <1>4, <2>1
       DEF OrderOK, CreationOK, EditOK, CloserOK, RedrawOK, EndAhead, PostedKnown,
           QuietAhead, Closers, UserOps
  <2>2. CASE jobs' = jobs /\ op = "create" /\ call = "insert" /\ doc.status = "none"
    <3>1. jobs["auto_end"].status = "absent"
      BY <1>1, <2>2 DEF OrderInv, StatusInv, Unborn
    <3> QED
      BY <1>1, <1>4, <2>2, <3>1
         DEF OrderOK, CreationOK, EditOK, CloserOK, RedrawOK, EndAhead, PostedKnown,
             QuietAhead, Closers, Closed
  <2>3. CASE /\ op = "auto_end" /\ call = "check"
             /\ jobs' = [jobs EXCEPT !["auto_end"].status = "running"]
    <3>1. jobs'["reminder"] = jobs["reminder"] /\ jobs'["auto_end"].status = "running"
      BY <1>1, <2>3 DEF Job
    <3> QED
      BY <1>1, <1>4, <2>3, <3>1
         DEF OrderOK, CreationOK, EditOK, CloserOK, RedrawOK, EndAhead, PostedKnown,
             QuietAhead, Closers
  <2> QED
    BY <2>1, <2>2, <2>3
<1> QED
  BY <1>3, <1>5, FollowLemma

LEMMA InitOrder == Init => OrderInv
<1> SUFFICES ASSUME Init PROVE OrderInv
  OBVIOUS
<1>1. /\ StatusInv /\ \A r \in Reqs : reqs[r] = Idle
      /\ doc.status = "none" /\ shown = "none"
  BY InitStatus DEF Init, NoEvent
<1> QED
  BY <1>1, IdleLemma
     DEF OrderInv, OrderOK, CreationOK, EditOK, CloserOK, RedrawOK, EndAhead, PostedKnown,
         QuietAhead, Closers, Closed

LEMMA NextOrder == Orderly /\ OrderInv /\ [Next]_vars => OrderInv'
<1> SUFFICES ASSUME Orderly, OrderInv, [Next]_vars PROVE OrderInv'
  OBVIOUS
<1>1. StatusInv /\ StatusInv' /\ RequestsOK
  BY NextStatus DEF OrderInv, StatusInv
<1>2. ASSUME NEW r \in Reqs, NEW d \in Dates, CallCreate(r, d) PROVE OrderInv'
  <2>1. PICK snap \in EventDoc : Begun(r, "create", "insert", snap)
    BY <1>1, <1>2, CallCreateLemma
  <2>2. doc' = doc /\ shown' = shown /\ jobs' = jobs /\ doc.status = "none"
    BY <1>2 DEF CallCreate
  <2> QED
    BY <1>1, <2>1, <2>2, BeginningLemma
<1>3. ASSUME NEW r \in Reqs, NEW op \in UserOps, CallCommand(r, op) PROVE OrderInv'
  <2>1. Begun(r, op, "read", NoEvent)
    BY <1>1, <1>3, CallCommandLemma
  <2>2. doc' = doc /\ shown' = shown /\ jobs' = jobs /\ op # "archive_channel"
    BY <1>3 DEF CallCommand, UserOps
  <2> QED
    BY <1>1, <2>1, <2>2, BeginningLemma
<1>4. ASSUME NEW r \in Reqs, NEW k \in JobOps, RunJob(r, k) PROVE OrderInv'
  <2>1. Begun(r, k, FirstStep(k), NoEvent)
    BY <1>1, <1>4, RunJobLemma
  <2>2. doc' = doc /\ shown' = shown /\ jobs' = [jobs EXCEPT ![k].status = "running"]
    BY <1>4 DEF RunJob
  <2>3. CASE k = "auto_end"
    BY <1>1, <2>1, <2>2, <2>3, BeginningLemma DEF FirstStep
  <2>4. CASE k = "archive_channel"
    <3>1. Apart
      BY <1>1, <2>2, <2>4 DEF Apart, RequestsOK, TypeOK, JobKinds
    <3>2. Moved(r) /\ ~Solo(reqs[r]) /\ ~Solo(reqs'[r])
      BY <2>1, <2>4, IdleLemma DEF Begun, Solo
    <3> QED
      BY <1>1, <3>1, <3>2, AsideLemma
  <2> QED
    BY <2>3, <2>4 DEF JobOps
<1>5. ASSUME NEW r \in Reqs, Step(r) \/ Fail(r) \/ Crash(r) PROVE OrderInv'
  <2>1. Going(r) /\ Moved(r) /\ reqs[r].op # "none"
    BY <1>1, <1>5, StepGoes, FailGoes DEF Going
  <2>2. CASE ~Solo(reqs[r])
    <3>1. reqs[r].op = "archive_channel" /\ ~Solo(reqs'[r])
      BY <2>1, <2>2, IdleLemma DEF Solo, Going
    <3>2. Apart
      BY <1>1, <1>5, <3>1, ArchiveSteps
    <3> QED
      BY <1>1, <2>1, <2>2, <3>1, <3>2, AsideLemma
  <2>3. CASE Solo(reqs[r])
    <3>1. Lead(r) /\ OrderOK(reqs[r], doc, jobs, shown)
      BY <1>1, <2>3, LeadLemma DEF Orderly, OrderInv
    <3>2. Lead(r)'
      BY <1>1, <2>1, <3>1, Others DEF Lead, Solo
    <3>3. CASE Step(r)
      BY <1>1, <2>3, <3>2, <3>3, SoloSteps, FollowLemma
    <3>4. CASE Fail(r) \/ Crash(r)
      <4>1. reqs[r].op = "update"
        BY <2>3, <3>4 DEF Fail, Crash, Disturb, Orderly, Solo
      <4> QED
        BY <1>1, <3>1, <3>2, <3>4, <4>1, EditBreaks, FollowLemma
    <3> QED
      BY <1>5, <3>3, <3>4
  <2> QED
    BY <2>2, <2>3
<1>6. CASE SendReminders
  <2>1. /\ doc' = doc /\ shown' = shown /\ reqs' = reqs
        /\ jobs'["auto_end"] = jobs["auto_end"] /\ jobs'["reminder"].status = "done"
    BY <1>1, <1>6 DEF SendReminders, RequestsOK, TypeOK, JobKinds, Job
  <2>2. ASSUME NEW r \in Reqs, OrderOK(reqs[r], doc, jobs, shown)
        PROVE  OrderOK(reqs'[r], doc', jobs', shown')
    BY <2>1, <2>2
       DEF OrderOK, CreationOK, EditOK, CloserOK, RedrawOK, EndAhead, PostedKnown, QuietAhead
  <2> QED
    BY <1>1, <2>1, <2>2 DEF OrderInv, Lead, Solo
<1>7. CASE Tick
  <2>1. /\ doc.ends \in Nat /\ doc'.ends = Nearer(doc.ends)
        /\ doc'.status = doc.status /\ doc'.posted = doc.posted /\ shown' = shown
        /\ \A k \in {"reminder", "auto_end"} :
              jobs'[k].status = jobs[k].status /\ jobs'[k].runAt = Nearer(jobs[k].runAt)
        /\ jobs["auto_end"].runAt \in Nat
    BY <1>1, <1>7 DEF Tick, RequestsOK, TypeOK, EventDoc, JobKinds, Job
  <2>2. ASSUME NEW r \in Reqs
        PROVE  /\ reqs'[r].op = reqs[r].op /\ CallOf(reqs'[r]) = CallOf(reqs[r])
               /\ reqs[r].snap.ends \in Nat /\ reqs'[r].snap.ends = Nearer(reqs[r].snap.ends)
               /\ reqs'[r].snap.posted = reqs[r].snap.posted
    <3>1. reqs[r] \in Request /\ reqs[r].snap \in EventDoc
      BY <1>1, CallLemma
    <3> QED
      BY <1>7, <3>1 DEF Tick, Request, EventDoc, CallOf
  <2>3. ASSUME NEW r \in Reqs, OrderOK(reqs[r], doc, jobs, shown)
        PROVE  OrderOK(reqs'[r], doc', jobs', shown')
    <3>1. \A m, n \in Nat : m <= n => Nearer(m) <= Nearer(n)
      BY DEF Nearer
    <3> QED
      BY <2>1, <2>2, <2>3, <3>1
         DEF OrderOK, CreationOK, EditOK, CloserOK, RedrawOK, EndAhead, PostedKnown, QuietAhead
  <2>4. \A r \in Reqs : Lead(r)' => Lead(r)
    BY <2>2 DEF Lead, Solo
  <2> QED
    BY <1>1, <2>3, <2>4 DEF OrderInv
<1>8. CASE UNCHANGED vars
  BY <1>1, <1>8 DEF vars, OrderInv, Lead, Solo
<1> QED
  BY <1>2, <1>3, <1>4, <1>5, <1>6, <1>7, <1>8 DEF Next

-----------------------------------------------------------------------------
(* The theorems.                                                           *)

\* docs/11 section 5: whenever nobody is at work on it, an open event has its
\* automatic end ahead, at its date or before.
THEOREM EndPlanned ==
  ASSUME Orderly
  PROVE  Spec => []OpenHasEnd
<1>1. OrderInv => OpenHasEnd
  <2> SUFFICES ASSUME OrderInv, Quiescent, doc.status = "open"
               PROVE  jobs["auto_end"].status = "pending" /\ jobs["auto_end"].runAt <= doc.ends
    BY DEF OpenHasEnd
  <2>1. PICK r \in Reqs : TRUE
    BY DEF Orderly
  <2>2. reqs[r].op = "none" /\ OrderOK(reqs[r], doc, jobs, shown)
    BY DEF Quiescent, OrderInv, Lead, Solo
  <2> QED
    BY <2>2 DEF OrderOK, EndAhead
<1> QED
  BY <1>1, InitOrder, NextOrder, PTL DEF Spec

\* docs/04 section 2.3.2: whenever nobody is at work on it, a closed event has no
\* reminder and no automatic end to come, and no buttons on its announcement.
THEOREM ClosingCompletes ==
  ASSUME Orderly
  PROVE  Spec => []ClosedIsQuiet
<1>1. OrderInv => ClosedIsQuiet
  <2> SUFFICES ASSUME OrderInv, Quiescent, doc.status \in Closed
               PROVE  /\ \A k \in {"reminder", "auto_end"} : jobs[k].status # "pending"
                      /\ shown # "open"
    BY DEF ClosedIsQuiet
  <2>1. PICK r \in Reqs : TRUE
    BY DEF Orderly
  <2>2. reqs[r].op = "none" /\ OrderOK(reqs[r], doc, jobs, shown)
    BY DEF Quiescent, OrderInv, Lead, Solo
  <2> QED
    BY <2>2 DEF OrderOK, QuietAhead, Closers
<1> QED
  BY <1>1, InitOrder, NextOrder, PTL DEF Spec

-----------------------------------------------------------------------------
(* The jobs keep to JobContract, whatever fails.                           *)

\* A job is run by one request at most, and is running then.
RunsMatch ==
  /\ \A r \in Reqs, k \in JobOps : reqs[r].op = k => jobs[k].status = "running"
  /\ \A q, r \in Reqs : \A k \in JobOps : reqs[q].op = k /\ reqs[r].op = k => q = r

MatchInv == RequestsOK /\ RunsMatch

\* Which jobs are taken follows from the requests.
LEMMA TakenLemma ==
  ASSUME NEW k \in JobOps
  PROVE  /\ Taken(k) <=> \E r \in Reqs : reqs[r].op = k
         /\ Taken(k)' <=> \E r \in Reqs : reqs'[r].op = k
         /\ Taken(k) \in BOOLEAN /\ Taken(k)' \in BOOLEAN
         /\ k \in JobKinds /\ k # "reminder"
BY DEF Taken, JobOps, JobKinds

LEMMA SameTaken ==
  ASSUME \A k \in JobOps, q \in Reqs : reqs'[q].op = k <=> reqs[q].op = k
  PROVE  UNCHANGED [k \in JobOps |-> Taken(k)]
<1>1. \A k \in JobOps : Taken(k)' = Taken(k)
  BY TakenLemma
<1> QED
  BY <1>1, Zenon

\* Job k and who is at work on it change, the other jobs and runs stay.
LEMMA BecomeLemma ==
  ASSUME NEW k \in JobOps, NEW s, NEW h \in BOOLEAN,
         jobs'[k].status = s, Taken(k)' <=> h,
         \A i \in JobOps \ {k} : /\ jobs'[i].status = jobs[i].status
                                 /\ Taken(i)' <=> Taken(i)
  PROVE  Contract!Become(k, s, h)
<1>1. [i \in JobOps |-> jobs'[i].status] = [[i \in JobOps |-> jobs[i].status] EXCEPT ![k] = s]
  OBVIOUS
<1>2. [i \in JobOps |-> Taken(i)'] = [[i \in JobOps |-> Taken(i)] EXCEPT ![k] = h]
  <2>1. \A i \in JobOps : Taken(i)' = (IF i = k THEN h ELSE Taken(i))
    BY TakenLemma
  <2> QED
    BY <2>1, Zenon
<1> QED
  BY <1>1, <1>2 DEF Contract!Become

LEMMA DatedLemma ==
  ASSUME NEW k \in JobOps, \A i \in JobOps \ {k} : jobs'[i].runAt = jobs[i].runAt
  PROVE  Contract!Dated(k)
<1> DEFINE d == jobs'[k].runAt = 0
<1>1. [i \in JobOps |-> jobs'[i].runAt = 0]
        = [[i \in JobOps |-> jobs[i].runAt = 0] EXCEPT ![k] = d]
  OBVIOUS
<1>2. d \in BOOLEAN
  OBVIOUS
<1> HIDE DEF d
<1> QED
  BY <1>1, <1>2 DEF Contract!Dated

LEMMA DatesKept ==
  ASSUME \A i \in JobOps : jobs'[i].runAt = jobs[i].runAt
  PROVE  UNCHANGED [i \in JobOps |-> jobs[i].runAt = 0]
OBVIOUS

-----------------------------------------------------------------------------

\* A request goes on with what it was at, or ends.
LEMMA RequestRuns ==
  ASSUME MatchInv, NEW r \in Reqs, Step(r) \/ Fail(r) \/ Crash(r)
  PROVE  /\ \A q \in Reqs \ {r} : reqs'[q] = reqs[q]
         /\ reqs'[r].op = reqs[r].op \/ Ended(r)
<1>1. RequestsOK
  BY DEF MatchInv
<1>2. CASE Step(r)
  <2>1. Ended(r) \/ \E snap : Advanced(r, snap) \/ \E call : Turned(r, call, snap)
    <3>1. CASE \/ Insert(r) \/ RegisterOrganizer(r) \/ SetChannel(r) \/ SetMessages(r)
               \/ DropReminders(r) \/ Remind(r) \/ PlanEnd(r) \/ SaveEvent(r) \/ Redraw(r)
               \/ DropJobs(r) \/ PlanArchive(r) \/ Archive(r)
      BY <1>1, <3>1, PlainSteps
    <3>2. CASE CreateChannel(r) \/ PostAnnouncements(r) \/ AbortProvision(r)
      BY <1>1, <3>2, LearningSteps
    <3>3. CASE ReadToUpdate(r)
      BY <1>1, <3>3, ReadToUpdateLemma
    <3>4. CASE ReadToClose(r)
      BY <1>1, <3>4, ReadToCloseLemma
    <3>5. CASE CheckEnd(r)
      BY <1>1, <3>5, CheckEndLemma
    <3>6. CASE LookAtChannel(r)
      BY <1>1, <3>6, LookLemma
    <3>7. CASE PostponeEnd(r) \/ FinishJob(r)
      BY <1>1, <3>7, EndingSteps
    <3> QED
      BY <1>2, <3>1, <3>2, <3>3, <3>4, <3>5, <3>6, <3>7 DEF Step
  <2> QED
    BY <1>1, <2>1 DEF Advanced, Turned, Ended, Moved, RequestsOK, TypeOK
<1>3. CASE Fail(r)
  BY <1>1, <1>3, FailLemma DEF Advanced, Turned, Ended, Moved, RequestsOK, TypeOK
<1>4. CASE Crash(r)
  BY <1>1, <1>4, EndedLemma DEF Crash, Ended, Moved, RequestsOK, TypeOK
<1> QED
  BY <1>2, <1>3, <1>4

LEMMA RunsAfter ==
  ASSUME MatchInv, NEW r \in Reqs, Step(r) \/ Fail(r) \/ Crash(r)
  PROVE  /\ \A k \in JobOps, q \in Reqs : reqs'[q].op = k => reqs[q].op = k
         /\ ~ Ended(r) \/ reqs[r].op \notin JobOps =>
              \A k \in JobOps, q \in Reqs : reqs'[q].op = k <=> reqs[q].op = k
         /\ Ended(r) =>
              \A k \in JobOps, q \in Reqs : reqs'[q].op = k <=> reqs[q].op = k /\ q # r
<1>1. "none" \notin JobOps
  BY DEF JobOps
<1> QED
  BY <1>1, RequestRuns, IdleLemma DEF Ended

\* No run begins, and the jobs stay as they are.
LEMMA AbandonStep ==
  ASSUME MatchInv, \A k \in JobOps : jobs'[k] = jobs[k],
         \A k \in JobOps, q \in Reqs : reqs'[q].op = k => reqs[q].op = k
  PROVE  Contract!Next /\ RunsMatch'
<1>1. \A k \in JobOps : Taken(k)' => Taken(k)
  BY TakenLemma
<1>2. [k \in JobOps |-> Taken(k)'] \in [JobOps -> BOOLEAN]
  BY TakenLemma
<1>3. UNCHANGED <<[k \in JobOps |-> jobs[k].status], [k \in JobOps |-> jobs[k].runAt = 0]>>
  OBVIOUS
<1>4. Contract!Abandon
  BY <1>1, <1>2, <1>3 DEF Contract!Abandon
<1>5. RunsMatch'
  BY DEF MatchInv, RunsMatch
<1> QED
  BY <1>4, <1>5 DEF Contract!Next

\* The steps after which a request that runs a job goes on.
LEMMA GoesOnLemma ==
  ASSUME MatchInv, NEW r \in Reqs, DropJobs(r) \/ PlanArchive(r) \/ PlanEnd(r)
  PROVE  \A k \in JobOps, q \in Reqs : reqs'[q].op = k <=> reqs[q].op = k
<1>1. RequestsOK /\ reqs[r].op \in AllOps
  BY AtLemma
     DEF MatchInv, DropJobs, PlanArchive, PlanEnd, Request
<1>2. Advanced(r, reqs[r].snap) /\ Step(r)
  BY <1>1, PlainSteps DEF Step
<1>3. CASE DropJobs(r)
  <2>1. CallOf(reqs[r]) = "drop_jobs"
    BY <1>1, <1>3, AtLemma DEF DropJobs
  <2>2. ~ Ended(r)
    BY <1>2, <2>1, IdleLemma DEF Advanced, NextCalls, Ended
  <2> QED
    BY <1>2, <2>2, RunsAfter
<1>4. CASE PlanArchive(r)
  <2>1. CallOf(reqs[r]) = "plan_archive" /\ "plan_archive" \in CallsOf(reqs[r].op)
    BY <1>1, <1>4, AtLemma DEF PlanArchive
  <2>2. reqs[r].op \in JobOps => reqs[r].op = "auto_end"
    BY <2>1 DEF CallsOf, JobOps
  <2>3. reqs[r].op = "auto_end" => ~ Ended(r)
    BY <1>2, <2>1, IdleLemma DEF Advanced, NextCalls, Ended
  <2> QED
    BY <1>2, <2>2, <2>3, RunsAfter
<1>5. CASE PlanEnd(r)
  <2>1. reqs[r].op = "create"
    BY <1>1, <1>5, AtLemma, CallerLemma DEF PlanEnd
  <2> QED
    BY <1>2, <2>1, RunsAfter DEF JobOps
<1> QED
  BY <1>3, <1>4, <1>5

\* The pending jobs of an event that is closed are canceled.
LEMMA CancelStep ==
  ASSUME MatchInv, NEW r \in Reqs, DropJobs(r)
  PROVE  Contract!Next /\ RunsMatch'
<1>1. \A k \in JobOps : /\ jobs[k] \in Job
                        /\ jobs'[k].runAt = jobs[k].runAt
                        /\ \/ jobs'[k].status = jobs[k].status
                           \/ jobs[k].status = "pending" /\ jobs'[k].status = "canceled"
  BY TakenLemma DEF DropJobs, Dropped, MatchInv, RequestsOK, TypeOK, Job
<1>2. \A k \in JobOps, q \in Reqs : reqs'[q].op = k <=> reqs[q].op = k
  BY GoesOnLemma
<1>3. [k \in JobOps |-> jobs'[k].status] \in [JobOps -> Contract!Statuses]
  BY <1>1 DEF Contract!Statuses, Job
<1>4. Contract!Cancel
  BY <1>1, <1>2, <1>3, SameTaken, DatesKept DEF Contract!Cancel
<1>5. RunsMatch'
  BY <1>1, <1>2 DEF MatchInv, RunsMatch
<1> QED
  BY <1>4, <1>5 DEF Contract!Next

LEMMA EnqueueStep ==
  ASSUME MatchInv, NEW r \in Reqs, PlanArchive(r) \/ PlanEnd(r)
  PROVE  Contract!Next /\ RunsMatch'
<1>1. \A k \in JobOps, q \in Reqs : reqs'[q].op = k <=> reqs[q].op = k
  BY GoesOnLemma
<1>2. CASE UNCHANGED jobs
  BY <1>1, <1>2, AbandonStep
<1>3. ASSUME NEW k \in JobOps, NEW n, jobs[k].status = "absent",
             jobs' = [jobs EXCEPT ![k] = [status |-> "pending", runAt |-> n]]
      PROVE  Contract!Next /\ RunsMatch'
  <2>1. jobs'[k].status = "pending" /\ \A i \in JobOps \ {k} : jobs'[i] = jobs[i]
    BY <1>3, TakenLemma DEF MatchInv, RequestsOK, TypeOK
  <2>2. \A q \in Reqs : reqs[q].op # k
    BY <1>3 DEF MatchInv, RunsMatch
  <2>3. ~ Taken(k)' /\ \A i \in JobOps : Taken(i)' <=> Taken(i)
    BY <1>1, <2>2, TakenLemma
  <2>4. Contract!Become(k, "pending", FALSE)
    BY <2>1, <2>3, BecomeLemma
  <2>5. Contract!Dated(k)
    BY <2>1, DatedLemma
  <2>6. Contract!Enqueue(k)
    BY <1>3, <2>4, <2>5 DEF Contract!Enqueue
  <2>7. RunsMatch'
    BY <1>1, <2>1, <2>2 DEF MatchInv, RunsMatch
  <2> QED
    BY <2>6, <2>7 DEF Contract!Next
<1>4. ASSUME NEW k \in JobOps, NEW n, jobs' = Enqueued(k, n)
      PROVE  Contract!Next /\ RunsMatch'
  <2>1. CASE jobs[k].status = "absent"
    <3>1. jobs' = [jobs EXCEPT ![k] = [status |-> "pending", runAt |-> n]]
      BY <1>4, <2>1 DEF Enqueued
    <3> QED
      BY <1>3, <2>1, <3>1
  <2>2. CASE jobs[k].status # "absent"
    BY <1>2, <1>4, <2>2 DEF Enqueued
  <2> QED
    BY <2>1, <2>2
<1>5. "archive_channel" \in JobOps /\ "auto_end" \in JobOps
  BY DEF JobOps
<1>6. CASE PlanArchive(r)
  <2>1. jobs' = Enqueued("archive_channel", 0) \/ UNCHANGED jobs
    BY <1>6 DEF PlanArchive
  <2> QED
    BY <1>2, <1>4, <1>5, <2>1
<1>7. CASE PlanEnd(r)
  BY <1>4, <1>5, <1>7 DEF PlanEnd
<1> QED
  BY <1>6, <1>7

\* The end of run r, with its job k settled or put back.
LEMMA RunEndStep ==
  ASSUME MatchInv, NEW r \in Reqs, Step(r) \/ Fail(r), Ended(r),
         NEW k \in JobOps, reqs[r].op = k,
         NEW d \in Job, jobs' = [jobs EXCEPT ![k] = d],
         \/ d.status = "pending"
         \/ d.status = "done" /\ d.runAt = jobs[k].runAt
  PROVE  Contract!Next /\ RunsMatch'
<1>1. jobs[k].status = "running" /\ \A q \in Reqs : reqs[q].op = k => q = r
  BY DEF MatchInv, RunsMatch
<1>2. jobs'[k] = d /\ \A i \in JobOps \ {k} : jobs'[i] = jobs[i]
  BY TakenLemma DEF MatchInv, RequestsOK, TypeOK
<1>3. \A i \in JobOps, q \in Reqs : reqs'[q].op = i <=> reqs[q].op = i /\ q # r
  BY RunsAfter
<1>4. Taken(k) /\ ~ Taken(k)'
  BY <1>1, <1>3, TakenLemma
<1>5. \A i \in JobOps \ {k} : Taken(i)' <=> Taken(i)
  BY <1>3, TakenLemma
<1>6. RunsMatch'
  BY <1>1, <1>2, <1>3 DEF MatchInv, RunsMatch
<1>7. CASE d.status = "pending"
  <2>1. Contract!Become(k, "pending", FALSE)
    BY <1>2, <1>4, <1>5, <1>7, BecomeLemma
  <2>2. Contract!Dated(k)
    BY <1>2, DatedLemma
  <2>3. Contract!PutBack(k)
    BY <1>1, <1>4, <2>1, <2>2 DEF Contract!PutBack, Contract!AtWork
  <2> QED
    BY <1>6, <2>3 DEF Contract!Next
<1>8. CASE d.status = "done" /\ d.runAt = jobs[k].runAt
  <2>1. Contract!Become(k, "done", FALSE)
    BY <1>2, <1>4, <1>5, <1>8, BecomeLemma
  <2>2. UNCHANGED [i \in JobOps |-> jobs[i].runAt = 0]
    BY <1>2, <1>8, DatesKept
  <2>3. Contract!Settle(k)
    BY <1>1, <1>4, <2>1, <2>2 DEF Contract!Settle, Contract!AtWork
  <2> QED
    BY <1>6, <2>3 DEF Contract!Next
<1> QED
  BY <1>7, <1>8

LEMMA LastStep ==
  ASSUME MatchInv, NEW r \in Reqs, PostponeEnd(r) \/ FinishJob(r)
  PROVE  Contract!Next /\ RunsMatch'
<1>1. RequestsOK /\ Step(r)
  BY DEF MatchInv, Step
<1>2. PICK k \in JobOps : reqs[r].op = k /\ (PostponeEnd(r) => k = "auto_end")
  BY <1>1, EndingSteps DEF JobOps
<1>3. Ended(r) /\ jobs[k] \in Job /\ reqs[r].snap.ends \in Nat
  BY <1>1, EndingSteps, TakenLemma DEF RequestsOK, TypeOK, Request, EventDoc
<1>4. CASE PostponeEnd(r)
  <2>1. PICK d \in Job : d = [status |-> "pending", runAt |-> reqs[r].snap.ends]
    BY <1>3 DEF Job
  <2>2. jobs' = [jobs EXCEPT ![k] = d]
    BY <1>2, <1>4, <2>1 DEF PostponeEnd
  <2> QED
    BY <1>1, <1>2, <1>3, <2>1, <2>2, RunEndStep
<1>5. CASE FinishJob(r)
  <2>1. PICK d \in Job : /\ d = [jobs[k] EXCEPT !.status = "done"]
                         /\ d.status = "done" /\ d.runAt = jobs[k].runAt
    <3>1. PICK old \in Job : old = jobs[k]
      BY <1>3
    <3>2. /\ [old EXCEPT !.status = "done"] \in Job
          /\ [old EXCEPT !.status = "done"].status = "done"
          /\ [old EXCEPT !.status = "done"].runAt = old.runAt
      BY DEF Job
    <3> QED
      BY <3>1, <3>2
  <2>2. jobs' = [jobs EXCEPT ![k] = d]
    BY <1>2, <1>5, <2>1 DEF FinishJob
  <2> QED
    BY <1>1, <1>2, <1>3, <2>1, <2>2, RunEndStep
<1> QED
  BY <1>4, <1>5

\* A job of which a step fails is pending again, and its run is over.
LEMMA FailStep ==
  ASSUME MatchInv, NEW r \in Reqs, Fail(r)
  PROVE  Contract!Next /\ RunsMatch'
<1>1. RequestsOK
  BY DEF MatchInv
<1>2. CASE UNCHANGED jobs
  BY <1>2, RunsAfter, AbandonStep
<1>3. CASE ~ UNCHANGED jobs
  <2>1. /\ reqs[r].op \in JobOps /\ ~ At(r, "redraw")
        /\ jobs' = [jobs EXCEPT ![reqs[r].op] = [status |-> "pending", runAt |-> 0]]
    BY <1>3 DEF Fail, Retried
  <2>2. CallOf(reqs[r]) # "redraw"
    <3>1. reqs[r].todo # << >>
      BY <2>1 DEF RequestsOK, RequestOK, MatchInv, JobOps
    <3> QED
      BY <2>1, <3>1 DEF CallOf, At
  <2>3. CallOf(reqs[r]) # "abort" /\ reqs[r].op # "create"
    <3>1. CallOf(reqs[r]) \in CallsOf(reqs[r].op)
      <4>1. reqs[r].todo # << >> /\ At(r, Head(reqs[r].todo))
        BY <2>1 DEF RequestsOK, RequestOK, MatchInv, JobOps, At
      <4> QED
        BY <1>1, <4>1, AtLemma
    <3> QED
      BY <2>1, <3>1 DEF CallsOf, JobOps
  <2>4. Ended(r)
    BY <1>1, <2>2, <2>3, FailLemma
  <2>5. [status |-> "pending", runAt |-> 0] \in Job
    BY DEF Job
  <2>6. [status |-> "pending", runAt |-> 0].status = "pending"
    OBVIOUS
  <2> QED
    BY <2>1, <2>4, <2>5, <2>6, RunEndStep
<1> QED
  BY <1>2, <1>3

LEMMA RunStep ==
  ASSUME MatchInv, NEW r \in Reqs, NEW k \in JobOps, RunJob(r, k)
  PROVE  Contract!Next /\ RunsMatch'
<1>1. /\ reqs[r].op = "none" /\ reqs'[r].op = k
      /\ \A q \in Reqs \ {r} : reqs'[q] = reqs[q]
  BY RunJobLemma, IdleLemma DEF Begun, Moved, MatchInv, RequestsOK, TypeOK
<1>2. /\ jobs[k] = [status |-> "pending", runAt |-> 0] \/ jobs[k].status = "running"
      /\ jobs[k].status = "running" => \A q \in Reqs : reqs[q].op # k
      /\ jobs' = [jobs EXCEPT ![k].status = "running"]
  BY DEF RunJob, Claimable
<1>3. /\ jobs'[k].status = "running" /\ jobs'[k].runAt = jobs[k].runAt
      /\ \A i \in JobOps \ {k} : jobs'[i] = jobs[i]
  BY <1>2, TakenLemma DEF MatchInv, RequestsOK, TypeOK, Job
<1>4. \A q \in Reqs : reqs[q].op # k
  BY <1>2 DEF MatchInv, RunsMatch
<1>5. \A i \in JobOps, q \in Reqs : reqs'[q].op = i <=> reqs[q].op = i \/ (q = r /\ i = k)
  BY <1>1 DEF JobOps
<1>6. /\ ~ Taken(k) /\ Taken(k)'
      /\ \A i \in JobOps \ {k} : Taken(i)' <=> Taken(i)
  BY <1>4, <1>5, TakenLemma
<1>7. Contract!Become(k, "running", TRUE)
  BY <1>3, <1>6, BecomeLemma
<1>8. UNCHANGED [i \in JobOps |-> jobs[i].runAt = 0]
  BY <1>3, DatesKept
<1>9. Contract!Takeable(k)
  <2>1. (jobs[k].status = "pending" /\ jobs[k].runAt = 0) \/ jobs[k].status = "running"
    BY <1>2
  <2>2. [i \in JobOps |-> Taken(i)][k] = FALSE
    BY <1>6, TakenLemma
  <2> QED
    BY <2>1, <2>2 DEF Contract!Takeable
<1>10. Contract!TakeUp(k)
  BY <1>7, <1>8, <1>9 DEF Contract!TakeUp
<1>11. RunsMatch'
  BY <1>3, <1>4, <1>5 DEF MatchInv, RunsMatch
<1> QED
  BY <1>10, <1>11 DEF Contract!Next

LEMMA TickStep ==
  ASSUME MatchInv, Tick
  PROVE  Contract!Next /\ RunsMatch'
<1>1. ASSUME NEW k \in JobOps
      PROVE  /\ jobs'[k].status = jobs[k].status
             /\ jobs[k].runAt = 0 => jobs'[k].runAt = 0
  BY TakenLemma DEF Tick, Nearer, MatchInv, RequestsOK, TypeOK, Job
<1>2. \A k \in JobOps, q \in Reqs : reqs'[q].op = k <=> reqs[q].op = k
  BY DEF Tick, MatchInv, RequestsOK, TypeOK, Request
<1>3. [k \in JobOps |-> jobs'[k].runAt = 0] \in [JobOps -> BOOLEAN]
  OBVIOUS
<1>4. Contract!Pass
  BY <1>1, <1>2, <1>3, SameTaken DEF Contract!Pass
<1>5. RunsMatch'
  BY <1>1, <1>2 DEF MatchInv, RunsMatch
<1> QED
  BY <1>4, <1>5 DEF Contract!Next

\* The steps that touch neither the automatic end nor the archive.
LEMMA OtherSteps ==
  ASSUME MatchInv, NEW r \in Reqs, Step(r),
         ~ (DropJobs(r) \/ PlanArchive(r) \/ PlanEnd(r) \/ PostponeEnd(r) \/ FinishJob(r))
  PROVE  Contract!Next /\ RunsMatch'
<1>1. \A k \in JobOps : jobs'[k] = jobs[k]
  <2>1. CASE DropReminders(r) \/ Remind(r)
    BY <2>1, TakenLemma DEF DropReminders, Dropped, Remind, MatchInv, RequestsOK, TypeOK
  <2>2. CASE ~ (DropReminders(r) \/ Remind(r))
    BY <2>2 DEF Step, Insert, RegisterOrganizer, CreateChannel, SetChannel, PostAnnouncements,
                SetMessages, AbortProvision, ReadToUpdate, ReadToClose, SaveEvent, Redraw,
                CheckEnd, LookAtChannel, Archive
  <2> QED
    BY <2>1, <2>2
<1> QED
  BY <1>1, RunsAfter, AbandonStep

LEMMA NextContract ==
  ASSUME MatchInv, [Next]_vars
  PROVE  Contract!Next /\ RunsMatch'
<1>1. ASSUME NEW r \in Reqs, Step(r) PROVE Contract!Next /\ RunsMatch'
  BY <1>1, OtherSteps, CancelStep, EnqueueStep, LastStep
<1>2. ASSUME NEW r \in Reqs, Crash(r) PROVE Contract!Next /\ RunsMatch'
  BY <1>2, RunsAfter, AbandonStep DEF Crash
<1>3. ASSUME NEW r \in Reqs, NEW op \in AllOps \ JobOps, NEW call, NEW snap,
             Begun(r, op, call, snap), UNCHANGED jobs
      PROVE  Contract!Next /\ RunsMatch'
  <2>1. \A k \in JobOps, q \in Reqs : reqs'[q].op = k => reqs[q].op = k
    BY <1>3 DEF Begun, Moved, MatchInv, RequestsOK, TypeOK
  <2> QED
    BY <1>3, <2>1, AbandonStep
<1>4. ASSUME NEW r \in Reqs, NEW d \in Dates, CallCreate(r, d)
      PROVE  Contract!Next /\ RunsMatch'
  <2>1. "create" \in AllOps \ JobOps
    BY DEF AllOps, JobOps
  <2> QED
    BY <1>3, <1>4, <2>1, CallCreateLemma DEF CallCreate, MatchInv
<1>5. ASSUME NEW r \in Reqs, NEW op \in UserOps, CallCommand(r, op)
      PROVE  Contract!Next /\ RunsMatch'
  <2>1. op \in AllOps \ JobOps
    BY DEF AllOps, UserOps, JobOps
  <2> QED
    BY <1>3, <1>5, <2>1, CallCommandLemma DEF CallCommand, MatchInv
<1>6. CASE SendReminders \/ UNCHANGED vars
  <2>1. UNCHANGED reqs /\ \A k \in JobOps : jobs'[k] = jobs[k]
    BY <1>6, TakenLemma DEF SendReminders, vars, MatchInv, RequestsOK, TypeOK
  <2> QED
    BY <2>1, AbandonStep
<1> QED
  BY <1>1, <1>2, <1>4, <1>5, <1>6, RunStep, FailStep, TickStep DEF Next

LEMMA InitContract == Init => Contract!Init /\ RunsMatch
<1> SUFFICES ASSUME Init PROVE Contract!Init /\ RunsMatch
  OBVIOUS
<1>1. \A r \in Reqs : reqs[r].op \notin JobOps
  BY IdleLemma DEF Init, JobOps
<1>2. \A k \in JobOps : Taken(k) = FALSE
  BY <1>1 DEF Taken
<1>3. [k \in JobOps |-> Taken(k)] = [k \in JobOps |-> FALSE]
  BY <1>2, Zenon
<1>4. [k \in JobOps |-> jobs[k].status] = [k \in JobOps |-> "absent"]
  BY TakenLemma DEF Init
<1>5. [k \in JobOps |-> jobs[k].runAt = 0] \in [JobOps -> BOOLEAN]
  OBVIOUS
<1>6. Contract!Init
  BY <1>3, <1>4, <1>5 DEF Contract!Init
<1> QED
  BY <1>1, <1>6 DEF RunsMatch

\* handler.go:86-118, jobs.go:81: whatever operations and failures come together,
\* the automatic end and the archive keep to JobContract.
THEOREM EventJobsContract == Spec => EventJobsAsAgreed
<1>1. Init => Contract!Init /\ MatchInv
  BY InitRequests, InitContract DEF MatchInv
<1>2. MatchInv /\ [Next]_vars => MatchInv'
  BY NextRequests, NextContract DEF MatchInv
<1>3. MatchInv /\ [Next]_vars => [Contract!Next]_(Contract!vars)
  BY NextContract
<1> QED
  BY <1>1, <1>2, <1>3, PTL DEF Spec, EventJobsAsAgreed, Contract!Spec

=============================================================================
