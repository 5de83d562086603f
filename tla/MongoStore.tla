----------------------------- MODULE MongoStore -----------------------------
(***************************************************************************)
(* What the repositories promise to the use cases, as the implementation   *)
(* on MongoDB keeps it (internal/manager/store/mongo).                     *)
(*                                                                         *)
(* A collection is a set of documents without an order.  An operation is   *)
(* one step, as one command of MongoDB is; the second read by which Upsert *)
(* and Consume only complete their answer is taken together with the       *)
(* first.  Where MongoDB leaves something open, an id or the order of      *)
(* documents with equal keys, every outcome is allowed.                    *)
(*                                                                         *)
(* Of a document those fields are kept that another operation looks at, or *)
(* that one operation must keep and another change; Settings stands for    *)
(* whatever is only stored and read.  Strings that are no ids are not      *)
(* asked for, and commands do not fail.                                    *)
(***************************************************************************)
EXTENDS Integers, FiniteSets, Sequences

CONSTANTS
  Names,       \* users, events, tokens, channels and names: numbers, in their order
  Settings,    \* values that are stored and read
  MaxId,       \* bound: ids given to documents in a behaviour
  MaxCount,    \* bound: the counters of a document, and sequence numbers
  Horizon,     \* bound: the clock
  JobRetention,
  DefaultPageSize, MaxPageSize

ASSUME StoreAssumption ==
  /\ Names \subseteq Nat \ {0}
  /\ MaxId \in Nat /\ MaxCount \in Nat /\ Horizon \in Nat
  /\ JobRetention \in Nat
  /\ DefaultPageSize \in Nat \ {0} /\ MaxPageSize \in Nat \ {0}

VARIABLES
  db,      \* the collections
  given,   \* the ids that have been given to documents, which come up once
  now,     \* the time the callers pass
  ans      \* the answer to the last operation

storeVars == <<db, given, now, ans>>

Ids == 1..MaxId
Times == 0..Horizon
Never == -1

\* No channel, no dedupe key, no workspace.
None == 0

Roles == {"participant", "peeker"}
PartStatuses == {"active", "left", "expired"}
JobKinds == {"reminder", "event_auto_end"}
EventStatuses == {"open", "ended"}

Collections == {"meta", "workspaces", "events", "participations", "jobs", "logs",
                "users", "identities", "tokens", "sessions", "states"}

Errors == {"ErrNotFound", "ErrAlreadyExists", "ErrIdentityLinkedElsewhere",
           "ErrLinkTokenConsumed", "ErrLinkTokenExpired"}

Nothing == [op |-> "none", err |-> "none", docs |-> << >>, n |-> 0]

Init ==
  /\ db = [c \in Collections |-> {}]
  /\ given = {}
  /\ now = 0
  /\ ans = Nothing

-----------------------------------------------------------------------------
(* The commands of MongoDB.                                                *)

Reply(op, docs, n) == ans' = [op |-> op, err |-> "none", docs |-> docs, n |-> n]

Refuse(op, err) ==
  /\ ans' = [op |-> op, err |-> err, docs |-> << >>, n |-> 0]
  /\ UNCHANGED <<db, given, now>>

Write(c, S) == db' = [db EXCEPT ![c] = S] /\ UNCHANGED now

Store(c, S) == Write(c, S) /\ UNCHANGED given

WithId(c, id) == {d \in db[c] : d.id = id}

Fresh == Ids \ given

\* The document gets an id.  Rivals have the same value of a unique index.
Insert(op, c, rivals, err, New(_)) ==
  IF rivals # {} THEN Refuse(op, err)
  ELSE \E id \in Fresh :
         /\ given' = given \cup {id}
         /\ Reply(op, <<New(id)>>, 1)
         /\ Write(c, db[c] \cup {New(id)})

\* The document comes with its id.
InsertAs(op, c, doc) ==
  IF WithId(c, doc.id) # {} THEN Refuse(op, "ErrAlreadyExists")
  ELSE Reply(op, <<doc>>, 1) /\ Store(c, db[c] \cup {doc})

\* S are the documents that match; one of them is changed.
UpdateOne(op, c, S, New(_)) ==
  IF S = {} THEN Refuse(op, "ErrNotFound")
  ELSE \E d \in S : Reply(op, << >>, 1) /\ Store(c, (db[c] \ {d}) \cup {New(d)})

\* The same, and the changed document is the answer.
FindOneAndUpdate(op, c, S, New(_)) ==
  IF S = {} THEN Refuse(op, "ErrNotFound")
  ELSE \E d \in S : Reply(op, <<New(d)>>, 1) /\ Store(c, (db[c] \ {d}) \cup {New(d)})

UpdateMany(op, c, S, New(_)) ==
  Reply(op, << >>, Cardinality(S)) /\ Store(c, (db[c] \ S) \cup {New(d) : d \in S})

DeleteMany(op, c, S) == Reply(op, << >>, 0) /\ Store(c, db[c] \ S)

-----------------------------------------------------------------------------
(* meta.go, workspaces.go                                                  *)

\* firstSeenAt is set by the first of the upserts only.
SaveProvider(value) ==
  LET old == WithId("meta", "provider")
      doc == [id |-> "provider", value |-> value,
              first |-> IF old = {} THEN now ELSE (CHOOSE d \in old : TRUE).first]
  IN  Reply("SaveProvider", << >>, 1) /\ Store("meta", (db["meta"] \ old) \cup {doc})

SetSchemaVersion(n) ==
  LET old == WithId("meta", "schema") IN
  /\ Reply("SetSchemaVersion", << >>, 1)
  /\ Store("meta", (db["meta"] \ old) \cup {[id |-> "schema", value |-> n, first |-> 0]})

WithKey(key) == {d \in db["workspaces"] : d.key = key}

\* The key is the kind of the Provider and the external id.
UpsertWorkspace(key, name) ==
  IF WithKey(key) # {}
  THEN FindOneAndUpdate("UpsertWorkspace", "workspaces", WithKey(key),
                        LAMBDA d : [d EXCEPT !.name = name])
  ELSE \E s \in Settings :
         Insert("UpsertWorkspace", "workspaces", {}, "none",
                LAMBDA id : [id |-> id, key |-> key, name |-> name, settings |-> s])

UpdateSettings(id, s) ==
  FindOneAndUpdate("UpdateSettings", "workspaces", WithId("workspaces", id),
                   LAMBDA d : [d EXCEPT !.settings = s])

-----------------------------------------------------------------------------
(* events.go                                                               *)

CreateEvent(workspace, starts) ==
  Insert("CreateEvent", "events", {}, "none",
         LAMBDA id : [id |-> id, workspace |-> workspace, starts |-> starts,
                      status |-> "open", channel |-> None, messages |-> 0, count |-> 0])

ChangeEvent(op, id, New(_)) == UpdateOne(op, "events", WithId("events", id), New)

\* Everything but the channel, the messages and the count.
UpdateEvent(id, starts, status) ==
  ChangeEvent("UpdateEvent", id,
              LAMBDA d : [d EXCEPT !.starts = starts, !.status = status])

SetChannel(id, channel) ==
  ChangeEvent("SetChannel", id, LAMBDA d : [d EXCEPT !.channel = channel])

SetMessages(id, n) == ChangeEvent("SetMessages", id, LAMBDA d : [d EXCEPT !.messages = n])

AddParticipantCount(id, delta) ==
  ChangeEvent("AddParticipantCount", id, LAMBDA d : [d EXCEPT !.count = @ + delta])

-----------------------------------------------------------------------------
(* participations.go                                                       *)

OfUser(event, user) ==
  {d \in db["participations"] : d.event = event /\ d.user = user}

\* The pipeline: an active participant stays one.
Pressed(d, role, expires) ==
  IF d.role = "participant" /\ d.status = "active" THEN d
  ELSE [d EXCEPT !.status = "active", !.role = role, !.expires = expires,
                 !.peeks = IF role = "peeker" THEN @ + 1 ELSE @]

UpsertParticipation(event, user, role, expires) ==
  IF OfUser(event, user) # {}
  THEN \E d \in OfUser(event, user) :
         /\ Reply("UpsertParticipation", <<d, Pressed(d, role, expires)>>, 1)
         /\ Store("participations",
                  (db["participations"] \ {d}) \cup {Pressed(d, role, expires)})
  ELSE Insert("UpsertParticipation", "participations", {}, "none",
              LAMBDA id : [id |-> id, event |-> event, user |-> user, role |-> role,
                           status |-> "active", joined |-> now, expires |-> expires,
                           peeks |-> IF role = "peeker" THEN 1 ELSE 0])

\* Whoever is not active has no expiry.
SetStatus(id, status) ==
  UpdateOne("SetStatus", "participations", WithId("participations", id),
            LAMBDA d : [d EXCEPT !.status = status,
                                 !.expires = IF status = "active" THEN @ ELSE Never])

-----------------------------------------------------------------------------
(* jobs.go                                                                 *)

\* The index of the key is sparse: jobs without a key do not meet.
Enqueue(event, kind, key, runAt) ==
  Insert("Enqueue", "jobs",
         {d \in db["jobs"] : key # None /\ d.key = key}, "ErrAlreadyExists",
         LAMBDA id : [id |-> id, event |-> event, kind |-> kind, key |-> key,
                      runAt |-> runAt, status |-> "pending", attempts |-> 0,
                      lease |-> Never, finished |-> Never])

Claimable ==
  {d \in db["jobs"] : \/ d.status = "pending" /\ d.runAt <= now
                      \/ d.status = "running" /\ d.lease # Never /\ d.lease <= now}

Claim(lease) ==
  FindOneAndUpdate("Claim", "jobs", {d \in Claimable : \A e \in Claimable : d.runAt <= e.runAt},
                   LAMBDA d : [d EXCEPT !.status = "running", !.lease = now + lease,
                                        !.attempts = @ + 1])

ChangeJob(op, id, New(_)) == UpdateOne(op, "jobs", WithId("jobs", id), New)

Complete(id) ==
  ChangeJob("Complete", id,
            LAMBDA d : [d EXCEPT !.status = "done", !.finished = now, !.lease = Never])

Fail(id) ==
  ChangeJob("Fail", id,
            LAMBDA d : [d EXCEPT !.status = "failed", !.finished = now, !.lease = Never])

Retry(id, runAt) ==
  ChangeJob("Retry", id,
            LAMBDA d : [d EXCEPT !.status = "pending", !.runAt = runAt, !.lease = Never])

Reschedule(id, runAt) ==
  ChangeJob("Reschedule", id,
            LAMBDA d : [d EXCEPT !.status = "pending", !.runAt = runAt, !.lease = Never,
                                 !.attempts = @ - 1])

ExtendLease(id, until) ==
  UpdateOne("ExtendLease", "jobs", {d \in WithId("jobs", id) : d.status = "running"},
            LAMBDA d : [d EXCEPT !.lease = until])

\* No kinds are all kinds.
CancelByEvent(event, kinds) ==
  UpdateMany("CancelByEvent", "jobs",
             {d \in db["jobs"] : d.event = event /\ d.status = "pending"
                                 /\ (kinds = {} \/ d.kind \in kinds)},
             LAMBDA d : [d EXCEPT !.status = "canceled", !.finished = now])

-----------------------------------------------------------------------------
(* reminderlogs.go, accounts.go                                            *)

AppendLog(event, sequence, at) ==
  Insert("AppendLog", "logs", {}, "none",
         LAMBDA id : [id |-> id, event |-> event, sequence |-> sequence, at |-> at,
                      sent |-> now])

CreateUser(sub) ==
  Insert("CreateUser", "users", {d \in db["users"] : d.sub = sub}, "ErrAlreadyExists",
         LAMBDA id : [id |-> id, sub |-> sub, login |-> now])

TouchLogin(id) ==
  UpdateOne("TouchLogin", "users", WithId("users", id), LAMBDA d : [d EXCEPT !.login = now])

\* Mutant of OfChat: one link for each workspace.
OfWorkspace(workspace, chat) == {d \in db["identities"] : d.workspace = workspace}

OfChat(workspace, chat) ==
  {d \in db["identities"] : d.workspace = workspace /\ d.chat = chat}

\* Mutant of Link: without the unique index.
LinkUnchecked(user, workspace, chat, at) ==
  Insert("Link", "identities", {}, "ErrIdentityLinkedElsewhere",
         LAMBDA id : [id |-> id, user |-> user, workspace |-> workspace, chat |-> chat,
                      linked |-> at])

Link(user, workspace, chat, at) ==
  Insert("Link", "identities", OfChat(workspace, chat), "ErrIdentityLinkedElsewhere",
         LAMBDA id : [id |-> id, user |-> user, workspace |-> workspace, chat |-> chat,
                      linked |-> at])

Unlink(id) ==
  IF WithId("identities", id) = {} THEN Refuse("Unlink", "ErrNotFound")
  ELSE DeleteMany("Unlink", "identities", WithId("identities", id))

CreateToken(id, chat, expires) ==
  InsertAs("CreateToken", "tokens",
           [id |-> id, chat |-> chat, expires |-> expires, consumed |-> Never])

\* Mutants of Usable: a token may be used again, and as long as it expires.
UsableAgain(d) == d.expires > now
UsableTooLong(d) == d.consumed = Never /\ d.expires >= now

Usable(d) == d.consumed = Never /\ d.expires > now

\* Without a usable token the error says why.
ConsumeToken(id) ==
  LET found == WithId("tokens", id) IN
  IF \E d \in found : ~ Usable(d)
  THEN Refuse("ConsumeToken", IF \E d \in found : d.consumed # Never
                              THEN "ErrLinkTokenConsumed" ELSE "ErrLinkTokenExpired")
  ELSE FindOneAndUpdate("ConsumeToken", "tokens", found,
                        LAMBDA d : [d EXCEPT !.consumed = now])

CreateSession(id, user, expires) ==
  InsertAs("CreateSession", "sessions",
           [id |-> id, user |-> user, expires |-> expires, seen |-> now])

TouchSession(id) ==
  UpdateOne("TouchSession", "sessions", WithId("sessions", id),
            LAMBDA d : [d EXCEPT !.seen = now])

DeleteSession(id) == DeleteMany("DeleteSession", "sessions", WithId("sessions", id))

DeleteByUser(user) ==
  DeleteMany("DeleteByUser", "sessions", {d \in db["sessions"] : d.user = user})

CreateState(id, expires) ==
  InsertAs("CreateState", "states", [id |-> id, expires |-> expires])

\* FindOneAndDelete: a state is handed out once.
ConsumeState(id) ==
  LET S == {d \in WithId("states", id) : d.expires > now} IN
  IF S = {} THEN Refuse("ConsumeState", "ErrNotFound")
  ELSE \E d \in S : Reply("ConsumeState", <<d>>, 1) /\ Store("states", db["states"] \ {d})

-----------------------------------------------------------------------------
(* The environment.                                                        *)

Tick == now < Horizon /\ now' = now + 1 /\ UNCHANGED <<db, given, ans>>

\* MongoDB removes what has expired, and jobs long finished, some time later.
Outdated(c) ==
  IF c = "jobs" THEN {d \in db[c] : d.finished # Never /\ d.finished + JobRetention <= now}
  ELSE {d \in db[c] : d.expires <= now}

Reap ==
  \E c \in {"jobs", "tokens", "sessions", "states"} : \E d \in Outdated(c) :
    Store(c, db[c] \ {d}) /\ UNCHANGED ans

-----------------------------------------------------------------------------

MetaOps ==
  \/ \E v \in Settings : SaveProvider(v)
  \/ \E n \in 1..MaxCount : SetSchemaVersion(n)

WorkspaceOps ==
  \/ \E k, n \in Names : UpsertWorkspace(k, n)
  \/ \E id \in Ids, s \in Settings : UpdateSettings(id, s)

EventOps ==
  \/ \E w \in Names, t \in Times : CreateEvent(w, t)
  \/ \E id \in Ids :
       \/ \E t \in Times, s \in EventStatuses : UpdateEvent(id, t, s)
       \/ \E c \in Names : SetChannel(id, c)
       \/ \E n \in 0..MaxCount : SetMessages(id, n)
       \/ \E delta \in {-1, 1} : AddParticipantCount(id, delta)

ParticipationOps ==
  \/ \E e, u \in Names, r \in Roles, t \in {Never} \cup Times :
       UpsertParticipation(e, u, r, t)
  \/ \E id \in Ids, s \in PartStatuses : SetStatus(id, s)

JobOps ==
  \/ \E e \in Names, k \in JobKinds, key \in Names \cup {None}, t \in Times :
       Enqueue(e, k, key, t)
  \/ \E lease \in Times : Claim(lease)
  \/ \E id \in Ids :
       \/ Complete(id) \/ Fail(id)
       \/ \E t \in Times : Retry(id, t) \/ Reschedule(id, t) \/ ExtendLease(id, t)
  \/ \E e \in Names, kinds \in SUBSET JobKinds : CancelByEvent(e, kinds)

LogOps == \E e \in Names, n \in 0..MaxCount, t \in Times : AppendLog(e, n, t)

AccountOps ==
  \/ \E sub \in Names : CreateUser(sub)
  \/ \E id \in Ids : TouchLogin(id) \/ Unlink(id)
  \/ \E u, w, c \in Names, at \in Times : Link(u, w, c, at)

TokenOps ==
  \E id \in Names :
    \/ \E c \in Names, t \in Times : CreateToken(id, c, t) \/ CreateSession(id, c, t)
    \/ \E t \in Times : CreateState(id, t)
    \/ ConsumeToken(id) \/ ConsumeState(id) \/ TouchSession(id) \/ DeleteSession(id)
    \/ DeleteByUser(id)

Next ==
  \/ MetaOps \/ WorkspaceOps \/ EventOps \/ ParticipationOps \/ JobOps \/ LogOps
  \/ AccountOps \/ TokenOps
  \/ Tick \/ Reap

Spec == Init /\ [][Next]_storeVars

-----------------------------------------------------------------------------
(* Queries: the answers that MongoDB may give.                             *)

\* FindOne: any document that matches, or none.
FindOne(S) == IF S = {} THEN {<< >>} ELSE {<<d>> : d \in S}

\* Find with a sort: documents with equal keys come in any order.
Find(S, Before(_, _)) ==
  {s \in [1..Cardinality(S) -> S] :
     \A i, j \in DOMAIN s : i < j => s[i] # s[j] /\ ~ Before(s[j], s[i])}

Get(c, id) == FindOne(WithId(c, id))
GetByExternalID(key) == FindOne(WithKey(key))
GetByChannelID(channel) == FindOne({d \in db["events"] : d.channel = channel})
GetByUser(event, user) == FindOne(OfUser(event, user))
GetByGoogleSub(sub) == FindOne({d \in db["users"] : d.sub = sub})
GetIdentity(workspace, chat) == FindOne(OfChat(workspace, chat))

ListWorkspaces == Find(db["workspaces"], LAMBDA d, e : d.name < e.name)

\* No statuses are all statuses.
OfEvent(c, event, statuses) ==
  {d \in db[c] : d.event = event /\ (statuses = {} \/ d.status \in statuses)}

ListParticipations(event, statuses) ==
  Find(OfEvent("participations", event, statuses), LAMBDA d, e : d.joined < e.joined)

ListJobs(event, statuses) ==
  Find(OfEvent("jobs", event, statuses), LAMBDA d, e : d.runAt < e.runAt)

ListLogs(event) == Find(OfEvent("logs", event, {}), LAMBDA d, e : d.sent < e.sent)

ListIdentities(user) ==
  Find({d \in db["identities"] : d.user = user}, LAMBDA d, e : d.linked < e.linked)

\* Every role when none is given.
CountActive(event, roles) ==
  Cardinality({d \in OfEvent("participations", event, {"active"}) :
                 roles = {} \/ d.role \in roles})

SentAt(event, at) == \E d \in OfEvent("logs", event, {}) : d.at = at
SentSequence(event, n) == \E d \in OfEvent("logs", event, {}) : d.sequence = n

-----------------------------------------------------------------------------
(* The listing of events, latest start first.  A cursor is the start and   *)
(* the id of the last event of a page.                                     *)

NoCursor == << >>

Limit(n) ==
  LET asked == IF n <= 0 THEN DefaultPageSize ELSE n
  IN  IF asked > MaxPageSize THEN MaxPageSize ELSE asked

PastCursor(d, cursor) ==
  \/ cursor = NoCursor
  \/ d.starts < cursor[1]
  \/ d.starts = cursor[1] /\ d.id < cursor[2]

Matching(filter, cursor) ==
  {d \in db["events"] :
     /\ filter.workspace = None \/ d.workspace = filter.workspace
     /\ filter.statuses = {} \/ d.status \in filter.statuses
     /\ filter.ids = {} \/ d.id \in filter.ids
     /\ filter.after = Never \/ d.starts >= filter.after
     /\ PastCursor(d, cursor)}

LaterFirst(d, e) == d.starts > e.starts \/ (d.starts = e.starts /\ d.id > e.id)

\* One document more than the limit tells whether there is another page.
ListEvents(filter, n, cursor) ==
  {IF Len(s) <= Limit(n) THEN [events |-> s, next |-> NoCursor]
   ELSE [events |-> SubSeq(s, 1, Limit(n)), next |-> <<s[Limit(n)].starts, s[Limit(n)].id>>] :
     s \in Find(Matching(filter, cursor), LaterFirst)}
-----------------------------------------------------------------------------
(* Properties.                                                             *)

AtMostOne(c, SameKey(_, _)) == \A d, e \in db[c] : SameKey(d, e) => d = e

\* indexes.go: the keys of the unique indexes, and ids, name one document.
KeysUnique ==
  /\ \A c \in Collections : AtMostOne(c, LAMBDA d, e : d.id = e.id)
  /\ AtMostOne("workspaces", LAMBDA d, e : d.key = e.key)
  /\ AtMostOne("participations", LAMBDA d, e : d.event = e.event /\ d.user = e.user)
  /\ AtMostOne("jobs", LAMBDA d, e : d.key # None /\ d.key = e.key)
  /\ AtMostOne("users", LAMBDA d, e : d.sub = e.sub)
  /\ AtMostOne("identities", LAMBDA d, e : d.workspace = e.workspace /\ d.chat = e.chat)

=============================================================================
