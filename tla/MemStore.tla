------------------------------ MODULE MemStore ------------------------------
(***************************************************************************)
(* The repositories the tests of the use cases run on                      *)
(* (internal/manager/memstore/memstore.go).                                *)
(*                                                                         *)
(* Slices in the order of insertion, maps, and one counter of ids, behind  *)
(* one mutex: an operation is a step.  Lookups take the first element that *)
(* matches.  The tests mean something for production only as far as this   *)
(* store does nothing MongoDB would not do: it implements MongoStore, and  *)
(* its queries give answers that MongoDB may give.                         *)
(*                                                                         *)
(* slices.SortFunc is stable on the few elements of an instance, as Sorted *)
(* is; MongoDB leaves the order of equal elements open.                    *)
(***************************************************************************)
EXTENDS Integers, FiniteSets, Sequences, SequencesExt, Functions, TLC

CONSTANTS Names, Settings, MaxId, MaxCount, Horizon, JobRetention, DefaultPageSize, MaxPageSize

CONSTANT Filters   \* the filters of event listings that are compared

ASSUME MemStoreAssumption ==
  /\ Names \subseteq Nat \ {0}
  /\ MaxId \in Nat /\ MaxCount \in Nat /\ Horizon \in Nat
  /\ DefaultPageSize \in Nat \ {0} /\ MaxPageSize \in Nat \ {0}

VARIABLES mem, now, ans

memVars == <<mem, now, ans>>

Slices == {"workspaces", "events", "participations", "jobs", "logs", "users", "identities"}
Maps == {"tokens", "sessions", "states"}

\* What the records hold beside nothing yet.
NoProvider == << >>

\* Every collection as MongoDB has it.  A map is keyed by the id in its values.
Documents ==
  [c \in Slices \cup Maps \cup {"meta"} |->
     IF c \in Slices THEN Range(mem[c])
     ELSE IF c \in Maps THEN {mem[c][k] : k \in DOMAIN mem[c]}
     ELSE {[id |-> "provider", value |-> p.value, first |-> p.first] : p \in Range(mem.provider)}
          \cup {[id |-> "schema", value |-> n, first |-> 0] : n \in {mem.schema} \ {0}}]

Mongo == INSTANCE MongoStore WITH db <- Documents, given <- 1..mem.seq

Init ==
  /\ mem = [seq |-> 0, provider |-> NoProvider, schema |-> 0,
            workspaces |-> << >>, events |-> << >>, participations |-> << >>,
            jobs |-> << >>, logs |-> << >>, users |-> << >>, identities |-> << >>,
            tokens |-> << >>, sessions |-> << >>, states |-> << >>]
  /\ now = 0
  /\ ans = Mongo!Nothing

-----------------------------------------------------------------------------

Return(op, docs, n) ==
  ans' = [op |-> op, err |-> "none", docs |-> docs, n |-> n] /\ UNCHANGED now

Fail(op, err) ==
  /\ ans' = [op |-> op, err |-> err, docs |-> << >>, n |-> 0]
  /\ UNCHANGED <<mem, now>>

\* The first of the slice that matches, 0 if there is none.
First(c, Test(_)) == SelectInSeq(mem[c], Test)

FindId(c, id) == First(c, LAMBDA d : d.id = id)

\* nextID
Id == mem.seq + 1

Append1(op, c, doc) ==
  /\ mem.seq < MaxId
  /\ mem' = [mem EXCEPT ![c] = Append(@, doc), !.seq = Id]
  /\ Return(op, <<doc>>, 1)

\* i is the place in the slice.
Change(op, c, i, New(_)) ==
  IF i = 0 THEN Fail(op, "ErrNotFound")
  ELSE mem' = [mem EXCEPT ![c][i] = New(@)] /\ Return(op, << >>, 1)

ChangeAndGet(op, c, i, New(_)) ==
  IF i = 0 THEN Fail(op, "ErrNotFound")
  ELSE mem' = [mem EXCEPT ![c][i] = New(@)] /\ Return(op, <<New(mem[c][i])>>, 1)

-----------------------------------------------------------------------------

SaveProvider(value) ==
  /\ mem' = [mem EXCEPT !.provider =
               <<[value |-> value, first |-> IF @ = NoProvider THEN now ELSE @[1].first]>>]
  /\ Return("SaveProvider", << >>, 1)

SetSchemaVersion(n) == mem' = [mem EXCEPT !.schema = n] /\ Return("SetSchemaVersion", << >>, 1)

FindWorkspace(key) == First("workspaces", LAMBDA w : w.key = key)

UpsertWorkspace(key, name) ==
  IF FindWorkspace(key) # 0
  THEN ChangeAndGet("UpsertWorkspace", "workspaces", FindWorkspace(key),
                    LAMBDA w : [w EXCEPT !.name = name])
  ELSE \E s \in Settings :
         Append1("UpsertWorkspace", "workspaces",
                 [id |-> Id, key |-> key, name |-> name, settings |-> s])

UpdateSettings(id, s) ==
  ChangeAndGet("UpdateSettings", "workspaces", FindId("workspaces", id),
               LAMBDA w : [w EXCEPT !.settings = s])

CreateEvent(workspace, starts) ==
  Append1("CreateEvent", "events",
          [id |-> Id, workspace |-> workspace, starts |-> starts, status |-> "open",
           channel |-> 0, messages |-> 0, count |-> 0])

FindEvent(id) == FindId("events", id)

UpdateEvent(id, starts, status) ==
  Change("UpdateEvent", "events", FindEvent(id),
         LAMBDA e : [e EXCEPT !.starts = starts, !.status = status])

SetChannel(id, channel) ==
  Change("SetChannel", "events", FindEvent(id), LAMBDA e : [e EXCEPT !.channel = channel])

SetMessages(id, n) ==
  Change("SetMessages", "events", FindEvent(id), LAMBDA e : [e EXCEPT !.messages = n])

\* The guard is the bound on the count.
AddParticipantCount(id, delta) ==
  /\ \A e \in Range(mem.events) : e.id = id => e.count + delta \in 0..MaxCount
  /\ Change("AddParticipantCount", "events", FindEvent(id),
            LAMBDA e : [e EXCEPT !.count = @ + delta])

-----------------------------------------------------------------------------

FindParticipation(event, user) ==
  First("participations", LAMBDA p : p.event = event /\ p.user = user)

PeekIncrement(role) == IF role = "peeker" THEN 1 ELSE 0

KeepsParticipant(p) == p.role = "participant" /\ p.status = "active"

\* Mutant of Pressed: whoever is active keeps the role.
PressedActive(p, role, expires) ==
  LET q == [p EXCEPT !.status = "active"] IN
  IF p.status = "active" THEN q
  ELSE [q EXCEPT !.role = role, !.expires = expires, !.peeks = @ + PeekIncrement(role)]

Pressed(p, role, expires) ==
  LET q == [p EXCEPT !.status = "active"] IN
  IF KeepsParticipant(p) THEN q
  ELSE [q EXCEPT !.role = role, !.expires = expires, !.peeks = @ + PeekIncrement(role)]

\* The guard is the bound on PeekCount.
UpsertParticipation(event, user, role, expires) ==
  LET i == FindParticipation(event, user) IN
  IF i = 0
  THEN Append1("UpsertParticipation", "participations",
               [id |-> Id, event |-> event, user |-> user, role |-> role,
                status |-> "active", joined |-> now, expires |-> expires,
                peeks |-> PeekIncrement(role)])
  ELSE LET before == mem.participations[i]
           after == Pressed(before, role, expires) IN
       /\ after.peeks <= MaxCount
       /\ mem' = [mem EXCEPT !.participations[i] = after]
       /\ Return("UpsertParticipation", <<before, after>>, 1)

SetStatus(id, status) ==
  Change("SetStatus", "participations", FindId("participations", id),
         LAMBDA p : [p EXCEPT !.status = status,
                              !.expires = IF status # "active" THEN Mongo!Never ELSE @])

-----------------------------------------------------------------------------

Enqueue(event, kind, key, runAt) ==
  IF key # 0 /\ \E j \in Range(mem.jobs) : j.key = key
  THEN Fail("Enqueue", "ErrAlreadyExists")
  ELSE Append1("Enqueue", "jobs",
               [id |-> Id, event |-> event, kind |-> kind, key |-> key, runAt |-> runAt,
                status |-> "pending", attempts |-> 0, lease |-> Mongo!Never,
                finished |-> Mongo!Never])

Claimable(j) ==
  IF j.status = "pending" THEN j.runAt <= now
  ELSE j.status = "running" /\ j.lease # Mongo!Never /\ j.lease <= now

\* The loop keeps the first of the earliest.  The first guard is the bound on
\* attempts.
Claim(lease) ==
  LET due == {i \in DOMAIN mem.jobs : Claimable(mem.jobs[i])}
      target == {i \in due : \A k \in due :
                   \/ mem.jobs[i].runAt < mem.jobs[k].runAt
                   \/ mem.jobs[i].runAt = mem.jobs[k].runAt /\ i <= k}
  IN
  /\ \A i \in target : mem.jobs[i].attempts < MaxCount
  /\ ChangeAndGet("Claim", "jobs", IF due = {} THEN 0 ELSE CHOOSE i \in target : TRUE,
                  LAMBDA j : [j EXCEPT !.status = "running", !.lease = now + lease,
                                       !.attempts = @ + 1])

UpdateJob(op, id, New(_)) == Change(op, "jobs", FindId("jobs", id), New)

Complete(id) ==
  UpdateJob("Complete", id,
            LAMBDA j : [j EXCEPT !.status = "done", !.finished = now, !.lease = Mongo!Never])

FailJob(id) ==
  UpdateJob("Fail", id,
            LAMBDA j : [j EXCEPT !.status = "failed", !.finished = now, !.lease = Mongo!Never])

Retry(id, runAt) ==
  UpdateJob("Retry", id,
            LAMBDA j : [j EXCEPT !.status = "pending", !.runAt = runAt, !.lease = Mongo!Never])

\* The guard is the bound on attempts: only a claimed job is put off.
Reschedule(id, runAt) ==
  /\ \A j \in Range(mem.jobs) : j.id = id => j.attempts > 0
  /\ UpdateJob("Reschedule", id,
               LAMBDA j : [j EXCEPT !.status = "pending", !.runAt = runAt,
                                    !.lease = Mongo!Never, !.attempts = @ - 1])

ExtendLease(id, until) ==
  Change("ExtendLease", "jobs",
         First("jobs", LAMBDA j : j.id = id /\ j.status = "running"),
         LAMBDA j : [j EXCEPT !.lease = until])

CancelByEvent(event, kinds) ==
  LET Canceled(j) == /\ j.event = event /\ j.status = "pending"
                     /\ kinds = {} \/ j.kind \in kinds
      Close(j) == IF Canceled(j) THEN [j EXCEPT !.status = "canceled", !.finished = now] ELSE j
  IN
  /\ mem' = [mem EXCEPT !.jobs = [i \in DOMAIN @ |-> Close(@[i])]]
  /\ Return("CancelByEvent", << >>, Cardinality({i \in DOMAIN mem.jobs : Canceled(mem.jobs[i])}))

AppendLog(event, sequence, at) ==
  Append1("AppendLog", "logs",
          [id |-> Id, event |-> event, sequence |-> sequence, at |-> at, sent |-> now])

-----------------------------------------------------------------------------

CreateUser(sub) ==
  IF First("users", LAMBDA u : u.sub = sub) # 0 THEN Fail("CreateUser", "ErrAlreadyExists")
  ELSE Append1("CreateUser", "users", [id |-> Id, sub |-> sub, login |-> now])

TouchLogin(id) ==
  Change("TouchLogin", "users", FindId("users", id), LAMBDA u : [u EXCEPT !.login = now])

FindIdentity(workspace, chat) ==
  First("identities", LAMBDA d : d.workspace = workspace /\ d.chat = chat)

Link(user, workspace, chat, at) ==
  IF FindIdentity(workspace, chat) # 0 THEN Fail("Link", "ErrIdentityLinkedElsewhere")
  ELSE Append1("Link", "identities",
               [id |-> Id, user |-> user, workspace |-> workspace, chat |-> chat,
                linked |-> at])

Unlink(id) ==
  LET i == FindId("identities", id) IN
  IF i = 0 THEN Fail("Unlink", "ErrNotFound")
  ELSE /\ mem' = [mem EXCEPT !.identities = RemoveAt(@, i)]
       /\ Return("Unlink", << >>, 0)

\* Put, Delete of a map.
Put(c, doc) ==
  mem' = [mem EXCEPT ![c] = [id \in DOMAIN @ \cup {doc.id} |-> IF id = doc.id THEN doc ELSE @[id]]]
Delete(c, ids) == mem' = [mem EXCEPT ![c] = Restrict(@, DOMAIN @ \ ids)]

Create(op, c, doc) ==
  IF doc.id \in DOMAIN mem[c] THEN Fail(op, "ErrAlreadyExists")
  ELSE Put(c, doc) /\ Return(op, <<doc>>, 1)

CreateToken(id, chat, expires) ==
  Create("CreateToken", "tokens",
         [id |-> id, chat |-> chat, expires |-> expires, consumed |-> Mongo!Never])

ConsumeToken(id) ==
  IF id \notin DOMAIN mem.tokens THEN Fail("ConsumeToken", "ErrNotFound")
  ELSE LET t == mem.tokens[id]
           used == [t EXCEPT !.consumed = now] IN
       IF t.consumed # Mongo!Never THEN Fail("ConsumeToken", "ErrLinkTokenConsumed")
       ELSE IF t.expires <= now THEN Fail("ConsumeToken", "ErrLinkTokenExpired")
       ELSE Put("tokens", used) /\ Return("ConsumeToken", <<used>>, 1)

CreateSession(id, user, expires) ==
  Create("CreateSession", "sessions",
         [id |-> id, user |-> user, expires |-> expires, seen |-> now])

TouchSession(id) ==
  IF id \notin DOMAIN mem.sessions THEN Fail("TouchSession", "ErrNotFound")
  ELSE Put("sessions", [mem.sessions[id] EXCEPT !.seen = now]) /\ Return("TouchSession", << >>, 1)

DeleteSession(id) == Delete("sessions", {id}) /\ Return("DeleteSession", << >>, 0)

DeleteByUser(user) ==
  /\ Delete("sessions", {id \in DOMAIN mem.sessions : mem.sessions[id].user = user})
  /\ Return("DeleteByUser", << >>, 0)

CreateState(id, expires) == Create("CreateState", "states", [id |-> id, expires |-> expires])

ConsumeState(id) ==
  IF id \notin DOMAIN mem.states \/ mem.states[id].expires <= now
  THEN Fail("ConsumeState", "ErrNotFound")
  ELSE Delete("states", {id}) /\ Return("ConsumeState", <<mem.states[id]>>, 1)

-----------------------------------------------------------------------------

Tick == now < Horizon /\ now' = now + 1 /\ UNCHANGED <<mem, ans>>

MetaOps ==
  \/ \E v \in Settings : SaveProvider(v)
  \/ \E n \in 1..MaxCount : SetSchemaVersion(n)

WorkspaceOps ==
  \/ \E k, n \in Names : UpsertWorkspace(k, n)
  \/ \E id \in Mongo!Ids, s \in Settings : UpdateSettings(id, s)

EventOps ==
  \/ \E w \in Names, t \in Mongo!Times : CreateEvent(w, t)
  \/ \E id \in Mongo!Ids :
       \/ \E t \in Mongo!Times, s \in Mongo!EventStatuses : UpdateEvent(id, t, s)
       \/ \E c \in Names : SetChannel(id, c)
       \/ \E n \in 0..MaxCount : SetMessages(id, n)
       \/ \E delta \in {-1, 1} : AddParticipantCount(id, delta)

\* A peeker has an expiry, a participant has none.
ParticipationOps ==
  \/ \E e, u \in Names :
       \/ UpsertParticipation(e, u, "participant", Mongo!Never)
       \/ \E t \in Mongo!Times : UpsertParticipation(e, u, "peeker", t)
  \/ \E id \in Mongo!Ids, s \in Mongo!PartStatuses : SetStatus(id, s)

JobOps ==
  \/ \E e \in Names, k \in Mongo!JobKinds, key \in Names \cup {0}, t \in Mongo!Times :
       Enqueue(e, k, key, t)
  \/ \E lease \in Mongo!Times : Claim(lease)
  \/ \E id \in Mongo!Ids :
       \/ Complete(id) \/ FailJob(id)
       \/ \E t \in Mongo!Times : Retry(id, t) \/ Reschedule(id, t) \/ ExtendLease(id, t)
  \/ \E e \in Names, kinds \in SUBSET Mongo!JobKinds : CancelByEvent(e, kinds)

LogOps == \E e \in Names, n \in 0..MaxCount, t \in Mongo!Times : AppendLog(e, n, t)

AccountOps ==
  \/ \E sub \in Names : CreateUser(sub)
  \/ \E id \in Mongo!Ids : TouchLogin(id) \/ Unlink(id)
  \/ \E u, w, c \in Names : Link(u, w, c, now)

TokenOps ==
  \E id \in Names :
    \/ \E c \in Names, t \in Mongo!Times : CreateToken(id, c, t) \/ CreateSession(id, c, t)
    \/ \E t \in Mongo!Times : CreateState(id, t)
    \/ ConsumeToken(id) \/ ConsumeState(id) \/ TouchSession(id) \/ DeleteSession(id)
    \/ DeleteByUser(id)

Next ==
  \/ MetaOps \/ WorkspaceOps \/ EventOps \/ ParticipationOps \/ JobOps \/ LogOps
  \/ AccountOps \/ TokenOps
  \/ Tick

Spec == Init /\ [][Next]_memVars
-----------------------------------------------------------------------------
(* Queries.                                                                *)

GetAt(c, i) == IF i = 0 THEN << >> ELSE <<mem[c][i]>>
GetKey(c, id) == IF id \in DOMAIN mem[c] THEN <<mem[c][id]>> ELSE << >>

\* Each of I at the place that as many others precede.
Ranked(I, Precedes) ==
  [n \in 1..Cardinality(I) |->
     CHOOSE i \in I : Cardinality({k \in I : <<k, i>> \in Precedes}) = n - 1]

\* The elements that match, sorted; equal ones stay in the order of the slice.
Sorted(s, Test(_), Before(_, _)) ==
  LET I == {i \in DOMAIN s : Test(s[i])}
      Precedes == {p \in I \X I : \/ Before(s[p[1]], s[p[2]])
                                  \/ ~ Before(s[p[2]], s[p[1]]) /\ p[1] < p[2]}
      places == Ranked(I, Precedes)
  IN  [n \in DOMAIN places |-> s[places[n]]]

ListWorkspaces == Sorted(mem.workspaces, LAMBDA d : TRUE, LAMBDA a, b : a.name < b.name)

ListByEvent(c, event, statuses, Before(_, _)) ==
  Sorted(mem[c], LAMBDA d : d.event = event /\ (statuses = {} \/ d.status \in statuses), Before)

ListParticipations(event, statuses) ==
  ListByEvent("participations", event, statuses, LAMBDA a, b : a.joined < b.joined)

\* Mutant of ListJobs: in the order in which the jobs were enqueued.
ListJobsAsEnqueued(event, statuses) ==
  ListByEvent("jobs", event, statuses, LAMBDA a, b : a.id < b.id)

ListJobs(event, statuses) ==
  ListByEvent("jobs", event, statuses, LAMBDA a, b : a.runAt < b.runAt)

ListLogs(event) == ListByEvent("logs", event, {}, LAMBDA a, b : a.sent < b.sent)

ListIdentities(user) ==
  Sorted(mem.identities, LAMBDA d : d.user = user, LAMBDA a, b : a.linked < b.linked)

CountActive(event, roles) ==
  Cardinality({i \in DOMAIN mem.participations :
                 LET p == mem.participations[i] IN
                 /\ p.event = event /\ p.status = "active"
                 /\ roles = {} \/ p.role \in roles})

SentAt(event, at) == First("logs", LAMBDA l : l.event = event /\ l.at = at) # 0

SentSequence(event, n) == First("logs", LAMBDA l : l.event = event /\ l.sequence = n) # 0

MatchesEventFilter(e, filter) ==
  /\ filter.workspace # 0 => e.workspace = filter.workspace
  /\ filter.statuses # {} => e.status \in filter.statuses
  /\ filter.ids # {} => e.id \in filter.ids
  /\ filter.after # Mongo!Never => e.starts >= filter.after

\* Mutant of BeforeCursor: the event of the cursor is listed again.
FromCursor(e, cursor) ==
  e.starts < cursor[1] \/ (e.starts = cursor[1] /\ e.id <= cursor[2])

BeforeCursor(e, cursor) ==
  e.starts < cursor[1] \/ (e.starts = cursor[1] /\ e.id < cursor[2])

FilterEvents(filter, cursor) ==
  Sorted(mem.events,
         LAMBDA e : MatchesEventFilter(e, filter) /\ (cursor # << >> => BeforeCursor(e, cursor)),
         LAMBDA a, b : a.starts > b.starts \/ (a.starts = b.starts /\ a.id > b.id))

PageSize(n) == Min({IF n <= 0 THEN DefaultPageSize ELSE n, MaxPageSize})

ListEvents(filter, n, cursor) ==
  LET matched == FilterEvents(filter, cursor)
      size == PageSize(n) IN
  IF Len(matched) > size
  THEN [events |-> SubSeq(matched, 1, size),
        next |-> <<matched[size].starts, matched[size].id>>]
  ELSE [events |-> matched, next |-> << >>]

-----------------------------------------------------------------------------
(* Properties.                                                             *)

\* memstore.go:2: the tests' store does what the contract tests ask of MongoDB.
\* Every operation answers, and changes the documents, as one of MongoDB's.
ImplementsMongo == Mongo!Spec

\* Every query gives an answer that MongoDB may give on the same documents.
ReadsAgree ==
  /\ \A c \in Slices, id \in Mongo!Ids : GetAt(c, FindId(c, id)) \in Mongo!Get(c, id)
  /\ \A c \in {"tokens", "sessions"}, id \in Names : GetKey(c, id) \in Mongo!Get(c, id)
  /\ ListWorkspaces \in Mongo!ListWorkspaces
  /\ \A a, b \in Names :
       /\ GetAt("workspaces", FindWorkspace(a)) \in Mongo!GetByExternalID(a)
       /\ GetAt("events", First("events", LAMBDA e : e.channel = a))
            \in Mongo!GetByChannelID(a)
       /\ GetAt("participations", FindParticipation(a, b)) \in Mongo!GetByUser(a, b)
       /\ GetAt("users", First("users", LAMBDA u : u.sub = a)) \in Mongo!GetByGoogleSub(a)
       /\ GetAt("identities", FindIdentity(a, b)) \in Mongo!GetIdentity(a, b)
       /\ ListLogs(a) \in Mongo!ListLogs(a)
       /\ ListIdentities(a) \in Mongo!ListIdentities(a)
  /\ \A a \in Names :
       /\ \A S \in SUBSET {"active", "left"} :
            ListParticipations(a, S) \in Mongo!ListParticipations(a, S)
       /\ \A S \in SUBSET {"pending", "canceled"} : ListJobs(a, S) \in Mongo!ListJobs(a, S)
       /\ \A R \in {{}} \cup {{r} : r \in Mongo!Roles} :
            CountActive(a, R) = Mongo!CountActive(a, R)
       /\ \A t \in Mongo!Times : SentAt(a, t) = Mongo!SentAt(a, t)
       /\ \A n \in 0..MaxCount : SentSequence(a, n) = Mongo!SentSequence(a, n)
  /\ \A f \in Filters, n \in 0..MaxPageSize + 1 :
       \A cursor \in {<< >>} \cup (Mongo!Times \X {e.id : e \in Range(mem.events)}) :
         ListEvents(f, n, cursor) \in Mongo!ListEvents(f, n, cursor)

\* The pages that a reader gets by following the cursors, as one sequence.
Paged(filter, n) ==
  LET walk[k \in 0..Len(mem.events)] ==
        IF k = 0 THEN ListEvents(filter, n, << >>)
        ELSE LET seen == walk[k - 1]
                 page == ListEvents(filter, n, seen.next) IN
             IF seen.next = << >> THEN seen
             ELSE [events |-> seen.events \o page.events, next |-> page.next]
  IN  walk[Len(mem.events)]

\* events.go:60: following the cursors lists every event that matches, once and
\* in order, for any size of pages.
PagesJoin ==
  \A f \in Filters, n \in 0..MaxPageSize + 1 :
    Paged(f, n) = [events |-> FilterEvents(f, << >>), next |-> << >>]

=============================================================================
