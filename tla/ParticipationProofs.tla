------------------------ MODULE ParticipationProofs ------------------------
(***************************************************************************)
(* Theorems about the participation records, for every number of users and *)
(* requests, and any failures: what every interleaving keeps; what requests *)
(* keep that come one after another (CalmInv); and that the job of a peek  *)
(* that is to end is never lost (JobsInv).                                 *)
(***************************************************************************)
EXTENDS Participation, FiniteSetTheorems, TLAPS

-----------------------------------------------------------------------------
(* The inductive invariant.                                                *)

\* The calls that may yet be ahead of a request.  Until Upsert has settled a
\* transition only the reading and the writing of the record; of a job with
\* no expiry read, only the end.
Remaining(req) ==
  CASE req.op = "none" -> {}
    [] req.op \in {"join", "peek"} /\ req.settled = "none" -> {"read", "upsert"}
    [] req.op \in {"join", "peek"} /\ req.settled # "none" ->
         {"after", "add", "count", "cancel", "enqueue"}
    [] req.op \in {"leave", "remove"} -> {"read", "remove", "status", "count"}
    [] req.op = "expire" /\ req.snap.expires = NoExpiry -> {"check", "finish"}
    [] req.op = "expire" /\ req.snap.expires # NoExpiry ->
         {"postpone", "remove", "status", "count", "finish"}

\* Apply goes on only with something to do.
RequestOK(req) ==
  /\ req.todo \in Seq(Remaining(req))
  /\ req.kind \notin {"already_participant", "already_peeking"}

\* The presses of "peek" that have not been written yet.
PeeksAhead == {r \in Reqs : reqs[r].op = "peek" /\ reqs[r].settled = "none"}

\* Every peek was called for: PeekCount, and with it the key of a peek_expire
\* job, never runs ahead of the calls.
PeeksCounted == \A u \in Users : part[u].peeks + Cardinality(PeeksAhead) <= called

\* ExpiryFitsRole, of one record.
FitsRole(p) == IsActive(p) => (p.role = "peeker" <=> p.expires # NoExpiry)

PartInv ==
  /\ TypeOK
  /\ \A r \in Reqs : RequestOK(reqs[r])
  /\ PeeksCounted
  /\ \A u \in Users : FitsRole(part[u])

\* The parts of the state that the invariant only gives a type.
OthersOK ==
  /\ {open, lost} \subseteq BOOLEAN
  /\ count \in Int
  /\ channel \subseteq Users
  /\ peekJobs \in [PeekKeys -> PeekJob]
  /\ faults \in 0..MaxFaults

-----------------------------------------------------------------------------
(* Records and requests.                                                   *)

LEMMA NoPartLemma == NoPart \in PartRecord /\ NoPart.peeks = 0 /\ FitsRole(NoPart)
BY NumbersAssumption
   DEF NoPart, PartRecord, PartStatuses, Roles, NoExpiry, FitsRole, IsActive

LEMMA IdleLemma ==
  Idle \in Request /\ RequestOK(Idle) /\ Idle.op = "none"
<1>1. << >> \in Seq(Steps) /\ << >> \in Seq({})
  OBVIOUS
<1>2. Idle \in Request
  BY <1>1, NoPartLemma, PartiesAssumption, NumbersAssumption DEF Idle, Request, Kinds
<1>3. Remaining(Idle) = {}
  BY DEF Idle, Remaining
<1> QED
  BY <1>1, <1>2, <1>3 DEF Idle, RequestOK

\* Upsert keeps the record well formed, counts a peek at most once, and makes
\* no peeker of a participant.
LEMMA UpsertedLemma ==
  ASSUME NEW p \in PartRecord, NEW op \in {"join", "peek"}, FitsRole(p),
         op = "peek" => p.peeks < MaxRequests
  PROVE  /\ Upserted(p, op) \in PartRecord
         /\ FitsRole(Upserted(p, op))
         /\ Upserted(p, op).peeks <= IF op = "peek" THEN p.peeks + 1 ELSE p.peeks
         /\ ActiveParticipant(p) => ~ ActivePeeker(Upserted(p, op))
<1>1. CASE ActiveParticipant(p)
  BY <1>1 DEF Upserted, ActiveParticipant, ActivePeeker, PartRecord
<1>2. CASE ~ ActiveParticipant(p)
  <2>1. p.peeks \in 0..MaxRequests
    BY DEF PartRecord
  <2>2. Upserted(p, op) = [status  |-> "active",
                           role    |-> IF op = "join" THEN "participant" ELSE "peeker",
                           expires |-> IF op = "join" THEN NoExpiry ELSE PeekDuration,
                           peeks   |-> IF op = "join" THEN p.peeks ELSE p.peeks + 1]
    BY <1>2 DEF Upserted
  <2>3. CASE op = "join"
    BY <1>2, <2>1, <2>2, <2>3, NumbersAssumption
       DEF PartRecord, PartStatuses, Roles, NoExpiry, FitsRole
  <2>4. CASE op = "peek"
    BY <1>2, <2>1, <2>2, <2>4, NumbersAssumption
       DEF PartRecord, PartStatuses, Roles, NoExpiry, FitsRole
  <2> QED
    BY <2>3, <2>4
<1> QED
  BY <1>1, <1>2

LEMMA DecideLemma ==
  ASSUME NEW p \in PartRecord, NEW op \in {"join", "peek"}
  PROVE  DecideTransition(p, op) \in Kinds \ {"none"}
<1>1. CASE ActiveParticipant(p)
  BY <1>1 DEF DecideTransition, Kinds, ActivePeeker, ActiveParticipant, IsActive
<1>2. CASE ActivePeeker(p)
  BY <1>2 DEF DecideTransition, Kinds, ActivePeeker, ActiveParticipant, IsActive
<1>3. CASE ~ IsActive(p)
  BY <1>3 DEF DecideTransition, Kinds, ActivePeeker, ActiveParticipant, IsActive
<1> QED
  BY <1>1, <1>2, <1>3 DEF PartRecord, Roles, ActivePeeker, ActiveParticipant

\* The first of the calls of a request, and the calls after it.
LEMMA TodoLemma ==
  ASSUME NEW S, NEW todo \in Seq(S), todo # << >>
  PROVE  Head(todo) \in S /\ Tail(todo) \in Seq(S)
OBVIOUS

\* A call is only made by a request that has it ahead.
LEMMA AtLemma ==
  ASSUME PartInv, NEW r \in Reqs, NEW step, At(r, step)
  PROVE  step \in Remaining(reqs[r]) /\ reqs[r].todo # << >>
BY TodoLemma DEF PartInv, RequestOK, At

\* Which requests make a call.
LEMMA CallerLemma ==
  ASSUME NEW req \in Request
  PROVE  /\ "upsert" \in Remaining(req) \/ "after" \in Remaining(req)
              => req.op \in {"join", "peek"}
         /\ "upsert" \in Remaining(req) => req.settled = "none"
         /\ "after" \in Remaining(req) => req.settled # "none"
         /\ "status" \in Remaining(req) => req.op \in {"leave", "remove", "expire"}
         /\ "check" \in Remaining(req) \/ "postpone" \in Remaining(req)
              => req.op = "expire"
         /\ "postpone" \in Remaining(req) => req.snap.expires # NoExpiry
         /\ "add" \in Remaining(req) \/ "enqueue" \in Remaining(req)
              => req.op \in {"join", "peek"}
         /\ "remove" \in Remaining(req) => req.op \in {"leave", "remove", "expire"}
         /\ "finish" \in Remaining(req) => req.op = "expire"
<1>1. CASE req.op = "none"
  BY <1>1 DEF Remaining
<1>2. CASE req.op \in {"join", "peek"} /\ req.settled = "none"
  BY <1>2 DEF Remaining
<1>3. CASE req.op \in {"join", "peek"} /\ req.settled # "none"
  BY <1>3 DEF Remaining
<1>4. CASE req.op \in {"leave", "remove"}
  BY <1>4 DEF Remaining
<1>5. CASE req.op = "expire" /\ req.snap.expires = NoExpiry
  BY <1>5 DEF Remaining
<1>6. CASE req.op = "expire" /\ req.snap.expires # NoExpiry
  BY <1>6 DEF Remaining
<1> QED
  BY <1>1, <1>2, <1>3, <1>4, <1>5, <1>6 DEF Request, AllOps

\* A request that goes on to its next call, or ends.
LEMMA GoesOn ==
  ASSUME PartInv, NEW r \in Reqs, NEW step, At(r, step), Advance(r) \/ End(r)
  PROVE  \E new \in Request :
           /\ reqs' = [reqs EXCEPT ![r] = new] /\ RequestOK(new)
           /\ new.op = "peek" /\ new.settled = "none" => r \in PeeksAhead
<1>1. CASE End(r)
  BY <1>1, IdleLemma DEF End
<1>2. CASE reqs' = [reqs EXCEPT ![r].todo = Tail(@)]
  <2> DEFINE new == [reqs[r] EXCEPT !.todo = Tail(@)]
  <2>1. reqs[r] \in Request /\ reqs[r].todo \in Seq(Steps)
        /\ reqs[r].todo \in Seq(Remaining(reqs[r]))
    BY DEF PartInv, TypeOK, Request, RequestOK
  <2>2. Tail(reqs[r].todo) \in Seq(Steps) /\ Tail(reqs[r].todo) \in Seq(Remaining(reqs[r]))
    BY <2>1, AtLemma, TodoLemma
  <2>3. new \in Request /\ new.todo = Tail(reqs[r].todo) /\ new.kind = reqs[r].kind
    BY <2>1, <2>2 DEF Request
  <2>4. new.op = reqs[r].op /\ new.settled = reqs[r].settled /\ new.snap = reqs[r].snap
    BY <2>1 DEF Request
  <2>5. Remaining(new) = Remaining(reqs[r])
    BY <2>4 DEF Remaining
  <2>6. reqs' = [reqs EXCEPT ![r] = new]
    BY <1>2
  <2> HIDE DEF new
  <2> QED
    BY <2>2, <2>3, <2>4, <2>5, <2>6 DEF PartInv, RequestOK, PeeksAhead
<1> QED
  BY <1>1, <1>2 DEF Advance

\* The presses ahead do not grow when a request goes on.
LEMMA PeeksAheadLemma ==
  ASSUME PartInv, NEW r \in Reqs, NEW new, reqs' = [reqs EXCEPT ![r] = new]
  PROVE  /\ Cardinality(PeeksAhead) \in Nat /\ Cardinality(PeeksAhead') \in Nat
         /\ Cardinality(PeeksAhead') <= Cardinality(PeeksAhead) + 1
         /\ (new.op = "peek" /\ new.settled = "none" => r \in PeeksAhead)
              => Cardinality(PeeksAhead') <= Cardinality(PeeksAhead)
         /\ ~ (new.op = "peek" /\ new.settled = "none") /\ r \in PeeksAhead
              => /\ Cardinality(PeeksAhead') = Cardinality(PeeksAhead) - 1
                 /\ Cardinality(PeeksAhead) > 0
<1>1. IsFiniteSet(PeeksAhead) /\ Cardinality(PeeksAhead) \in Nat
  BY PartiesAssumption, FS_Subset, FS_CardinalityType DEF PeeksAhead
<1>2. CASE new.op = "peek" /\ new.settled = "none"
  <2>1. PeeksAhead' = PeeksAhead \cup {r}
    BY <1>2 DEF PeeksAhead, PartInv, TypeOK
  <2>2. Cardinality(PeeksAhead') = IF r \in PeeksAhead THEN Cardinality(PeeksAhead)
                                   ELSE Cardinality(PeeksAhead) + 1
    BY <1>1, <2>1, FS_AddElement
  <2> QED
    BY <1>1, <1>2, <2>2
<1>3. CASE ~ (new.op = "peek" /\ new.settled = "none")
  <2>1. PeeksAhead' = PeeksAhead \ {r}
    BY <1>3 DEF PeeksAhead, PartInv, TypeOK
  <2>2. Cardinality(PeeksAhead') = IF r \in PeeksAhead THEN Cardinality(PeeksAhead) - 1
                                   ELSE Cardinality(PeeksAhead)
    BY <1>1, <2>1, FS_RemoveElement
  <2>3. r \in PeeksAhead => Cardinality(PeeksAhead) > 0
    BY <1>1, FS_EmptySet
  <2> QED
    BY <1>1, <1>3, <2>2, <2>3
<1> QED
  BY <1>2, <1>3

\* A step of one request.
LEMMA RequestsAfter ==
  ASSUME PartInv, NEW r \in Reqs, NEW new \in Request, RequestOK(new),
         reqs' = [reqs EXCEPT ![r] = new]
  PROVE  /\ reqs' \in [Reqs -> Request]
         /\ \A q \in Reqs : RequestOK(reqs[q])'
<1>1. reqs \in [Reqs -> Request] /\ \A q \in Reqs : RequestOK(reqs[q])
  BY DEF PartInv, TypeOK
<1>2. reqs' \in [Reqs -> Request] /\ \A q \in Reqs : reqs'[q] = IF q = r THEN new ELSE reqs[q]
  BY <1>1
<1>3. \A q \in Reqs : RequestOK(reqs'[q])
  BY <1>1, <1>2
<1>4. \A q \in Reqs : RequestOK(reqs[q])'
  BY <1>3 DEF RequestOK, Remaining
<1> QED
  BY <1>2, <1>4

\* A step of one request that counts no peek and keeps the records fitting.
LEMMA RequestStep ==
  ASSUME PartInv, NEW r \in Reqs, NEW new \in Request, RequestOK(new),
         new.op = "peek" /\ new.settled = "none" => r \in PeeksAhead,
         reqs' = [reqs EXCEPT ![r] = new],
         part' \in [Users -> PartRecord],
         \A u \in Users : part'[u].peeks = part[u].peeks /\ FitsRole(part[u])',
         called' = called, OthersOK'
  PROVE  PartInv'
<1>1. TypeOK'
  <2>1. reqs' \in [Reqs -> Request] /\ called' \in 0..MaxRequests
    BY RequestsAfter DEF PartInv, TypeOK
  <2> QED
    BY <2>1 DEF TypeOK, OthersOK
<1>2. \A q \in Reqs : RequestOK(reqs[q])'
  BY RequestsAfter
<1>3. PeeksCounted'
  <2>1. Cardinality(PeeksAhead) \in Nat /\ Cardinality(PeeksAhead') \in Nat
        /\ Cardinality(PeeksAhead') <= Cardinality(PeeksAhead)
    BY PeeksAheadLemma
  <2>2. \A u \in Users : part[u].peeks \in Int /\ called \in Int
    BY DEF PartInv, TypeOK, PartRecord
  <2> QED
    BY <2>1, <2>2 DEF PartInv, PeeksCounted
<1> QED
  BY <1>1, <1>2, <1>3 DEF PartInv

\* The same for the steps that leave the records alone.
LEMMA RecordsKept ==
  ASSUME PartInv, part' = part
  PROVE  /\ part' \in [Users -> PartRecord]
         /\ \A u \in Users : part'[u].peeks = part[u].peeks /\ FitsRole(part[u])'
BY DEF PartInv, TypeOK, FitsRole, IsActive

-----------------------------------------------------------------------------
(* The steps that write records, and the first and last of a request.      *)

LEMMA CallStep ==
  ASSUME PartInv, NEW r \in Reqs, NEW op \in AllOps, NEW u \in Users, Call(r, op, u)
  PROVE  PartInv'
<1> DEFINE new == [Idle EXCEPT !.op = op, !.user = u, !.todo = <<"read">>]
<1>0. <<"read">> \in Seq(Steps)
  BY DEF Steps
<1>1. /\ new \in Request /\ new.op = op /\ new.todo = <<"read">> /\ new.settled = "none"
      /\ new.kind = "none"
  BY <1>0, IdleLemma DEF Request, Idle
<1>2. "read" \in Remaining(new)
  BY <1>1 DEF Remaining, AllOps
<1>3. RequestOK(new)
  BY <1>1, <1>2 DEF RequestOK
<1>4. reqs' = [reqs EXCEPT ![r] = new] /\ called' = called + 1 /\ called < MaxRequests
  BY DEF Call
<1> HIDE DEF new
<1>5. TypeOK'
  <2>1. reqs' \in [Reqs -> Request]
    BY <1>1, <1>3, <1>4, RequestsAfter
  <2>2. called' \in 0..MaxRequests
    BY <1>4, NumbersAssumption DEF PartInv, TypeOK
  <2> QED
    BY <2>1, <2>2 DEF PartInv, TypeOK, Call, event
<1>6. \A q \in Reqs : RequestOK(reqs[q])'
  BY <1>1, <1>3, <1>4, RequestsAfter
<1>7. PeeksCounted'
  <2>1. Cardinality(PeeksAhead) \in Nat /\ Cardinality(PeeksAhead') \in Nat
        /\ Cardinality(PeeksAhead') <= Cardinality(PeeksAhead) + 1
    BY <1>4, PeeksAheadLemma
  <2>2. \A v \in Users : part[v].peeks \in Int /\ called \in Int
    BY DEF PartInv, TypeOK, PartRecord
  <2> QED
    BY <1>4, <2>1, <2>2 DEF PartInv, PeeksCounted, Call
<1> QED
  BY <1>5, <1>6, <1>7 DEF PartInv, Call, FitsRole, IsActive

LEMMA UpsertStep ==
  ASSUME PartInv, NEW r \in Reqs, Upsert(r)
  PROVE  /\ PartInv'
         /\ \A u \in Users : ActiveParticipant(part[u]) => ~ ActivePeeker(part'[u])
<1> DEFINE u == reqs[r].user
           op == reqs[r].op
           new == [reqs[r] EXCEPT !.settled = DecideTransition(part[u], op),
                                  !.todo = <<"after">>]
<1>1. reqs[r] \in Request /\ u \in Users /\ part[u] \in PartRecord /\ FitsRole(part[u])
  BY DEF PartInv, TypeOK, Request
<1>2. op \in {"join", "peek"} /\ reqs[r].settled = "none"
  BY <1>1, AtLemma, CallerLemma DEF Upsert
<1>3. DecideTransition(part[u], op) \in Kinds \ {"none"}
  BY <1>1, <1>2, DecideLemma
<1>4. new \in Request /\ new.op = op /\ new.settled # "none" /\ new.todo = <<"after">>
      /\ new.kind = reqs[r].kind
  <2>1. <<"after">> \in Seq(Steps)
    BY DEF Steps
  <2> QED
    BY <1>1, <1>3, <2>1 DEF Request
<1>5. RequestOK(new)
  <2>1. "after" \in Remaining(new)
    BY <1>2, <1>4 DEF Remaining
  <2> QED
    BY <1>4, <2>1 DEF PartInv, RequestOK
<1>6. reqs' = [reqs EXCEPT ![r] = new]
  BY DEF Upsert
<1>7. part' = [part EXCEPT ![u] = Upserted(part[u], op)]
  BY DEF Upsert
<1>8. /\ Cardinality(PeeksAhead) \in Nat /\ Cardinality(PeeksAhead') \in Nat
      /\ Cardinality(PeeksAhead') <= Cardinality(PeeksAhead)
      /\ op = "peek" => Cardinality(PeeksAhead') = Cardinality(PeeksAhead) - 1
                        /\ Cardinality(PeeksAhead) > 0
  BY <1>2, <1>4, <1>6, PeeksAheadLemma DEF PeeksAhead
<1>9. /\ called \in 0..MaxRequests /\ called' = called
      /\ \A v \in Users : part[v].peeks \in 0..MaxRequests
                         /\ part[v].peeks + Cardinality(PeeksAhead) <= called
  BY DEF PartInv, TypeOK, PartRecord, PeeksCounted, Upsert, bounds
<1>10. op = "peek" => part[u].peeks < MaxRequests
  BY <1>1, <1>8, <1>9, NumbersAssumption
<1>11. /\ Upserted(part[u], op) \in PartRecord
       /\ FitsRole(Upserted(part[u], op))
       /\ Upserted(part[u], op).peeks <= IF op = "peek" THEN part[u].peeks + 1
                                         ELSE part[u].peeks
       /\ ActiveParticipant(part[u]) => ~ ActivePeeker(Upserted(part[u], op))
  BY <1>1, <1>2, <1>10, UpsertedLemma
<1>12. TypeOK'
  <2>1. part' \in [Users -> PartRecord]
    BY <1>7, <1>11 DEF PartInv, TypeOK
  <2>2. reqs' \in [Reqs -> Request]
    BY <1>4, <1>5, <1>6, RequestsAfter
  <2> QED
    BY <2>1, <2>2 DEF PartInv, TypeOK, Upsert, event, bounds
<1>13. \A q \in Reqs : RequestOK(reqs[q])'
  BY <1>4, <1>5, <1>6, RequestsAfter
<1>14. PeeksCounted'
  <2> SUFFICES ASSUME NEW v \in Users
               PROVE  part'[v].peeks + Cardinality(PeeksAhead') <= called'
    BY DEF PeeksCounted
  <2>1. CASE v = u
    <3>1. part'[v] = Upserted(part[u], op) /\ part'[v].peeks \in Int
      BY <1>1, <1>7, <1>11, <2>1 DEF PartInv, TypeOK, PartRecord
    <3> HIDE DEF u, op
    <3> QED
      BY <1>1, <1>2, <1>8, <1>9, <1>11, <3>1
  <2>2. CASE v # u
    <3>1. part'[v] = part[v]
      BY <1>7, <2>2 DEF PartInv, TypeOK
    <3> QED
      BY <1>8, <1>9, <3>1
  <2> QED
    BY <2>1, <2>2
<1>15. \A v \in Users : /\ FitsRole(part[v])'
                        /\ ActiveParticipant(part[v]) => ~ ActivePeeker(part'[v])
  <2> SUFFICES ASSUME NEW v \in Users
               PROVE  /\ FitsRole(part[v])'
                      /\ ActiveParticipant(part[v]) => ~ ActivePeeker(part'[v])
    OBVIOUS
  <2>1. CASE v = u
    <3>1. part'[v] = Upserted(part[u], op)
      BY <1>1, <1>7, <2>1 DEF PartInv, TypeOK
    <3> QED
      BY <1>11, <2>1, <3>1 DEF FitsRole, IsActive
  <2>2. CASE v # u
    <3>1. part'[v] = part[v] /\ FitsRole(part[v])
      BY <1>7, <2>2 DEF PartInv, TypeOK
    <3> QED
      BY <3>1 DEF FitsRole, IsActive, ActiveParticipant, ActivePeeker
  <2> QED
    BY <2>1, <2>2
<1> QED
  BY <1>12, <1>13, <1>14, <1>15 DEF PartInv

LEMMA SetStatusStep ==
  ASSUME PartInv, NEW r \in Reqs, SetStatus(r)
  PROVE  /\ PartInv'
         /\ \A u \in Users : ActiveParticipant(part[u]) => ~ ActivePeeker(part'[u])
<1> DEFINE u == reqs[r].user
           st == DetachedStatus(reqs[r].op)
           rec == [part[u] EXCEPT !.status = st, !.expires = NoExpiry]
<1>1. reqs[r] \in Request /\ u \in Users /\ part[u] \in PartRecord
  BY DEF PartInv, TypeOK, Request
<1>2. st \in {"left", "removed", "expired"}
  <2>1. reqs[r].op \in {"leave", "remove", "expire"}
    BY <1>1, AtLemma, CallerLemma DEF SetStatus
  <2> QED
    BY <2>1 DEF DetachedStatus
<1>3. /\ rec \in PartRecord /\ rec.peeks = part[u].peeks /\ rec.status = st
  <2>1. st \in PartStatuses /\ NoExpiry \in NoExpiry..PeekDuration
    BY <1>2, NumbersAssumption DEF PartStatuses, NoExpiry
  <2> HIDE DEF st
  <2> QED
    BY <1>1, <2>1 DEF PartRecord
<1>4. part' = [part EXCEPT ![u] = rec]
  BY <1>1 DEF SetStatus, PartInv, TypeOK
<1>5. PICK new \in Request :
        /\ reqs' = [reqs EXCEPT ![r] = new] /\ RequestOK(new)
        /\ new.op = "peek" /\ new.settled = "none" => r \in PeeksAhead
  BY GoesOn DEF SetStatus
<1> HIDE DEF u, st, rec
<1>6. part' \in [Users -> PartRecord]
  BY <1>3, <1>4 DEF PartInv, TypeOK
<1>7. ASSUME NEW v \in Users
      PROVE  /\ part'[v].peeks = part[v].peeks /\ FitsRole(part[v])'
             /\ ActiveParticipant(part[v]) => ~ ActivePeeker(part'[v])
  <2>1. CASE v = u
    BY <1>1, <1>2, <1>3, <1>4, <2>1
       DEF PartInv, TypeOK, FitsRole, IsActive, ActivePeeker
  <2>2. CASE v # u
    BY <1>4, <2>2 DEF PartInv, TypeOK, FitsRole, IsActive, ActiveParticipant, ActivePeeker
  <2> QED
    BY <2>1, <2>2
<1>8. called' = called /\ OthersOK'
  BY DEF SetStatus, PartInv, TypeOK, OthersOK, event, bounds
<1> QED
  BY <1>5, <1>6, <1>7, <1>8, RequestStep

-----------------------------------------------------------------------------
(* The other steps of a request.                                           *)

\* Apply and detach plan calls of the kind they may still make.
LEMMA PlanLemma ==
  ASSUME NEW req \in Request, NEW p \in PartRecord
  PROVE  /\ req.kind \in {"joined", "promoted", "peeked"} =>
              SideEffects(req.kind) \in Seq({"add", "count", "cancel", "enqueue"})
         /\ req.op \in {"leave", "remove"} =>
              Detachment(req.op, p) \in Seq({"remove", "status", "count"})
         /\ Detachment("expire", p) \in Seq({"remove", "status", "count", "finish"})
<1>1. req.kind \in {"joined", "promoted", "peeked"} =>
        SideEffects(req.kind) \in Seq({"add", "count", "cancel", "enqueue"})
  <2> DEFINE S == {"add", "count", "cancel", "enqueue"}
  <2>1. <<"add", "count">> \in Seq(S) /\ <<"count", "cancel">> \in Seq(S)
        /\ <<"add", "enqueue">> \in Seq(S)
    OBVIOUS
  <2> HIDE DEF S
  <2>2. req.kind \in {"joined", "promoted", "peeked"} => SideEffects(req.kind) \in Seq(S)
    BY <2>1 DEF SideEffects
  <2> QED
    BY <2>2 DEF S
<1>2. req.op \in {"leave", "remove"} =>
        Detachment(req.op, p) \in Seq({"remove", "status", "count"})
  <2> DEFINE S == {"remove", "status", "count"}
             counting == IF p.role = "participant" THEN <<"count">> ELSE << >>
  <2>1. <<"remove", "status">> \in Seq(S) /\ <<"count">> \in Seq(S) /\ << >> \in Seq(S)
    OBVIOUS
  <2>2. req.op \in {"leave", "remove"} =>
          Detachment(req.op, p) = (<<"remove", "status">> \o counting) \o << >>
    BY DEF Detachment
  <2> HIDE DEF S
  <2>3. counting \in Seq(S)
    BY <2>1
  <2> HIDE DEF counting
  <2>4. (<<"remove", "status">> \o counting) \o << >> \in Seq(S)
    BY <2>1, <2>3
  <2> QED
    BY <2>2, <2>4 DEF S
<1>3. Detachment("expire", p) \in Seq({"remove", "status", "count", "finish"})
  <2> DEFINE S == {"remove", "status", "count", "finish"}
             counting == IF p.role = "participant" THEN <<"count">> ELSE << >>
  <2>1. <<"remove", "status">> \in Seq(S) /\ counting \in Seq(S) /\ <<"finish">> \in Seq(S)
    <3>1. /\ <<"remove", "status">> \in Seq(S) /\ <<"finish">> \in Seq(S)
          /\ <<"count">> \in Seq(S) /\ << >> \in Seq(S)
      OBVIOUS
    <3> HIDE DEF S
    <3> QED
      BY <3>1
  <2>2. Detachment("expire", p) = <<"remove", "status">> \o counting \o <<"finish">>
    BY DEF Detachment
  <2> HIDE DEF S, counting
  <2>3. <<"remove", "status">> \o counting \in Seq(S)
    BY <2>1
  <2>4. <<"remove", "status">> \o counting \o <<"finish">> \in Seq(S)
    BY <2>1, <2>3
  <2> QED
    BY <2>2, <2>4 DEF S
<1> QED
  BY <1>1, <1>2, <1>3

LEMMA EndStep ==
  ASSUME PartInv, NEW r \in Reqs, End(r), part' = part, called' = called, OthersOK'
  PROVE  PartInv'
BY IdleLemma, RequestStep, RecordsKept DEF End

LEMMA AdvanceStep ==
  ASSUME PartInv, NEW r \in Reqs, NEW step, At(r, step), Advance(r),
         part' = part, called' = called, OthersOK'
  PROVE  PartInv'
<1>1. PICK new \in Request :
        /\ reqs' = [reqs EXCEPT ![r] = new] /\ RequestOK(new)
        /\ new.op = "peek" /\ new.settled = "none" => r \in PeeksAhead
  BY GoesOn
<1> QED
  BY <1>1, RequestStep, RecordsKept

\* A step that replaces the calls ahead of request r by others, planned with
\* the record p in mind, and goes no further.
LEMMA PlanStep ==
  ASSUME PartInv, NEW r \in Reqs, NEW new \in Request, RequestOK(new),
         new.op = reqs[r].op, new.settled = reqs[r].settled,
         reqs' = [reqs EXCEPT ![r] = new],
         part' = part, called' = called, OthersOK'
  PROVE  PartInv'
BY RequestStep, RecordsKept DEF PeeksAhead

LEMMA ReadToApplyStep ==
  ASSUME PartInv, NEW r \in Reqs, ReadToApply(r)
  PROVE  PartInv'
<1> DEFINE kind == DecideTransition(part[reqs[r].user], reqs[r].op)
           new == [reqs[r] EXCEPT !.kind = kind, !.todo = <<"upsert">>]
<1>1. reqs[r] \in Request /\ part[reqs[r].user] \in PartRecord
  BY DEF PartInv, TypeOK, Request
<1>2. reqs[r].op \in {"join", "peek"} /\ "read" \in Remaining(reqs[r])
  BY AtLemma DEF ReadToApply
<1>3. reqs[r].settled = "none"
  BY <1>2 DEF Remaining
<1>4. part' = part /\ called' = called /\ OthersOK'
  BY DEF ReadToApply, PartInv, TypeOK, OthersOK, event, bounds
<1>5. CASE End(r)
  BY <1>4, <1>5, EndStep
<1>6. CASE /\ kind \notin {"already_participant", "already_peeking"}
           /\ reqs' = [reqs EXCEPT ![r].kind = kind, ![r].todo = <<"upsert">>]
  <2>1. kind \in Kinds /\ <<"upsert">> \in Seq(Steps) /\ <<"upsert">> \in Seq({"read", "upsert"})
    BY <1>1, <1>2, DecideLemma DEF Steps
  <2>2. /\ new \in Request /\ new.op = reqs[r].op /\ new.settled = "none"
        /\ new.todo = <<"upsert">> /\ new.kind = kind
    BY <1>1, <1>3, <2>1 DEF Request
  <2>3. RequestOK(new)
    BY <1>2, <1>6, <2>1, <2>2 DEF RequestOK, Remaining
  <2>4. reqs' = [reqs EXCEPT ![r] = new]
    BY <1>6
  <2> HIDE DEF new
  <2> QED
    BY <1>3, <1>4, <2>2, <2>3, <2>4, PlanStep
<1> QED
  BY <1>5, <1>6 DEF ReadToApply

LEMMA ReadAfterStep ==
  ASSUME PartInv, NEW r \in Reqs, ReadAfter(r)
  PROVE  PartInv'
<1> DEFINE new == [reqs[r] EXCEPT !.snap = part[reqs[r].user],
                                  !.todo = SideEffects(reqs[r].kind)]
<1>1. reqs[r] \in Request /\ part[reqs[r].user] \in PartRecord
  BY DEF PartInv, TypeOK, Request
<1>2. reqs[r].op \in {"join", "peek"} /\ reqs[r].settled # "none"
  BY <1>1, AtLemma, CallerLemma DEF ReadAfter
<1>3. part' = part /\ called' = called /\ OthersOK'
  BY DEF ReadAfter, PartInv, TypeOK, OthersOK, event, bounds
<1>4. CASE End(r)
  BY <1>3, <1>4, EndStep
<1>5. CASE /\ reqs[r].kind \in {"joined", "promoted", "peeked"}
           /\ reqs' = [reqs EXCEPT ![r].snap = part[reqs[r].user],
                                   ![r].todo = SideEffects(reqs[r].kind)]
  <2>1. SideEffects(reqs[r].kind) \in Seq({"add", "count", "cancel", "enqueue"})
    BY <1>1, <1>5, PlanLemma
  <2>2. /\ SideEffects(reqs[r].kind) \in Seq(Steps)
        /\ SideEffects(reqs[r].kind) \in Seq({"after", "add", "count", "cancel", "enqueue"})
    BY <2>1 DEF Steps
  <2>3. /\ new \in Request /\ new.op = reqs[r].op /\ new.settled = reqs[r].settled
        /\ new.todo = SideEffects(reqs[r].kind) /\ new.kind = reqs[r].kind
    BY <1>1, <2>2 DEF Request
  <2>4. RequestOK(new)
    BY <1>2, <1>5, <2>2, <2>3 DEF RequestOK, Remaining
  <2>5. reqs' = [reqs EXCEPT ![r] = new]
    BY <1>5
  <2> HIDE DEF new
  <2> QED
    BY <1>3, <2>3, <2>4, <2>5, PlanStep
<1>6. reqs[r].settled = reqs[r].kind => reqs[r].kind \in {"joined", "promoted", "peeked"}
  BY <1>1, <1>2 DEF PartInv, RequestOK, Request, Kinds
<1> QED
  BY <1>4, <1>5, <1>6 DEF ReadAfter

LEMMA ReadToDetachStep ==
  ASSUME PartInv, NEW r \in Reqs, ReadToDetach(r)
  PROVE  PartInv'
<1> DEFINE p == part[reqs[r].user]
           todo == Detachment(reqs[r].op, p)
           new == [reqs[r] EXCEPT !.snap = p, !.todo = todo]
<1>1. reqs[r] \in Request /\ p \in PartRecord
  BY DEF PartInv, TypeOK, Request
<1>2. reqs[r].op \in {"leave", "remove"}
  BY DEF ReadToDetach
<1>3. part' = part /\ called' = called /\ OthersOK'
  BY DEF ReadToDetach, PartInv, TypeOK, OthersOK, event, bounds
<1>4. CASE End(r)
  BY <1>3, <1>4, EndStep
<1>5. CASE reqs' = [reqs EXCEPT ![r].snap = p, ![r].todo = todo]
  <2>1. todo \in Seq({"remove", "status", "count"})
    BY <1>1, <1>2, PlanLemma
  <2>2. todo \in Seq(Steps) /\ todo \in Seq({"read", "remove", "status", "count"})
    BY <2>1 DEF Steps
  <2>3. /\ new \in Request /\ new.op = reqs[r].op /\ new.settled = reqs[r].settled
        /\ new.todo = todo /\ new.kind = reqs[r].kind
    BY <1>1, <2>2 DEF Request
  <2>4. RequestOK(new)
    BY <1>2, <2>2, <2>3 DEF PartInv, RequestOK, Remaining
  <2>5. reqs' = [reqs EXCEPT ![r] = new]
    BY <1>5
  <2> HIDE DEF new
  <2> QED
    BY <1>3, <2>3, <2>4, <2>5, PlanStep
<1> QED
  BY <1>4, <1>5 DEF ReadToDetach

LEMMA RunPeekJobStep ==
  ASSUME PartInv, NEW r \in Reqs, NEW u \in Users, NEW n \in 1..MaxRequests,
         RunPeekJob(r, u, n)
  PROVE  PartInv'
<1> DEFINE new == [Idle EXCEPT !.op = "expire", !.user = u,
                               !.peeks = n, !.todo = <<"check">>]
<1>1. <<"check">> \in Seq(Steps) /\ <<"check">> \in Seq({"check", "finish"})
  BY DEF Steps
<1>2. /\ new \in Request /\ new.op = "expire" /\ new.kind = "none"
      /\ new.todo = <<"check">> /\ new.snap = NoPart
  <2>1. n \in 0..MaxRequests
    BY NumbersAssumption
  <2>2. Idle.kind = "none" /\ Idle.snap = NoPart
    BY DEF Idle
  <2> QED
    BY <1>1, <2>1, <2>2, IdleLemma DEF Request
<1>3. RequestOK(new)
  <2>1. Remaining(new) = {"check", "finish"}
    BY <1>2 DEF Remaining, NoPart
  <2> QED
    BY <1>1, <1>2, <2>1 DEF RequestOK
<1>4. reqs' = [reqs EXCEPT ![r] = new] /\ part' = part /\ called' = called
  BY DEF RunPeekJob, bounds
<1>5. peekJobs' \in [PeekKeys -> PeekJob]
  <2>1. \A k \in PeekKeys : [peekJobs[k] EXCEPT !.status = "running"] \in PeekJob
    BY DEF PartInv, TypeOK, PeekJob
  <2> QED
    BY <2>1 DEF RunPeekJob, PartInv, TypeOK
<1>6. OthersOK'
  BY <1>5 DEF RunPeekJob, PartInv, TypeOK, OthersOK, event, bounds
<1> HIDE DEF new
<1> QED
  BY <1>2, <1>3, <1>4, <1>6, RequestStep, RecordsKept

LEMMA CheckExpiryStep ==
  ASSUME PartInv, NEW r \in Reqs, CheckExpiry(r)
  PROVE  PartInv'
<1> DEFINE p == part[reqs[r].user]
           later == {"postpone", "remove", "status", "count", "finish"}
<1>1. reqs[r] \in Request /\ p \in PartRecord
  BY DEF PartInv, TypeOK, Request
<1>2. reqs[r].op = "expire"
  BY <1>1, AtLemma, CallerLemma DEF CheckExpiry
<1>3. part' = part /\ called' = called /\ OthersOK'
  BY DEF CheckExpiry, PartInv, TypeOK, OthersOK, event, bounds
<1>4. PICK todo :
        /\ reqs' = [reqs EXCEPT ![r].snap = p, ![r].todo = todo]
        /\ \/ todo \in Seq(later) /\ p.expires # NoExpiry
           \/ todo = <<"finish">>
  <2>1. CASE ActivePeeker(p) /\ PeekExpired(p)
             /\ reqs' = [reqs EXCEPT ![r].snap = p, ![r].todo = Detachment("expire", p)]
    <3>1. Detachment("expire", p) \in Seq(later)
      BY <1>1, PlanLemma
    <3>2. p.expires # NoExpiry
      BY <2>1 DEF PeekExpired, NoExpiry
    <3> QED
      BY <2>1, <3>1, <3>2
  <2>2. CASE p.expires # NoExpiry
             /\ reqs' = [reqs EXCEPT ![r].snap = p, ![r].todo = <<"postpone">>]
    <3>1. <<"postpone">> \in Seq(later)
      OBVIOUS
    <3> QED
      BY <2>2, <3>1
  <2>3. CASE reqs' = [reqs EXCEPT ![r].snap = p, ![r].todo = <<"finish">>]
    BY <2>3
  <2> QED
    BY <2>1, <2>2, <2>3 DEF CheckExpiry
<1> DEFINE new == [reqs[r] EXCEPT !.snap = p, !.todo = todo]
<1>5. todo \in Seq(Steps)
  <2>1. <<"finish">> \in Seq(Steps)
    BY DEF Steps
  <2>2. todo \in Seq(later) => todo \in Seq(Steps)
    BY DEF Steps
  <2> QED
    BY <1>4, <2>1, <2>2
<1>6. /\ new \in Request /\ new.op = "expire" /\ new.settled = reqs[r].settled
      /\ new.todo = todo /\ new.kind = reqs[r].kind /\ new.snap = p
  BY <1>1, <1>2, <1>5 DEF Request
<1>7. RequestOK(new)
  <2>1. todo \in Seq(Remaining(new))
    <3>1. <<"finish">> \in Seq({"check", "finish"}) /\ <<"finish">> \in Seq(later)
      OBVIOUS
    <3>2. Remaining(new) = IF p.expires = NoExpiry THEN {"check", "finish"} ELSE later
      BY <1>6 DEF Remaining
    <3> HIDE DEF later, new, p
    <3> QED
      BY <1>4, <3>1, <3>2
  <2> QED
    BY <1>6, <2>1 DEF PartInv, RequestOK
<1>8. reqs' = [reqs EXCEPT ![r] = new]
  BY <1>4
<1> HIDE DEF new
<1> QED
  BY <1>2, <1>3, <1>6, <1>7, <1>8, PlanStep

\* The steps that do something outside the records and go on.
LEMMA CallStepsKeep ==
  ASSUME PartInv, NEW r \in Reqs,
         \/ AddMember(r) \/ AddCount(r) \/ CancelPeekJobs(r)
         \/ EnqueuePeekJob(r) \/ RemoveMember(r)
  PROVE  PartInv'
<1>1. reqs[r] \in Request /\ reqs[r].user \in Users /\ reqs[r].snap \in PartRecord
  BY DEF PartInv, TypeOK, Request
<1>2. \A k \in PeekKeys : [peekJobs[k] EXCEPT !.status = "canceled"] \in PeekJob
  BY DEF PartInv, TypeOK, PeekJob
<1>3. CASE AddMember(r)
  <2>1. part' = part /\ called' = called /\ OthersOK'
    BY <1>1, <1>3 DEF AddMember, PartInv, TypeOK, OthersOK, event, bounds
  <2> QED
    BY <1>3, <2>1, AdvanceStep DEF AddMember
<1>4. CASE AddCount(r)
  <2>1. part' = part /\ called' = called /\ OthersOK'
    BY <1>1, <1>4 DEF AddCount, Delta, PartInv, TypeOK, OthersOK, event, bounds
  <2> QED
    BY <1>4, <2>1, AdvanceStep DEF AddCount
<1>5. CASE CancelPeekJobs(r)
  <2>1. part' = part /\ called' = called /\ OthersOK'
    BY <1>2, <1>5 DEF CancelPeekJobs, PartInv, TypeOK, OthersOK, event, bounds
  <2> QED
    BY <1>5, <2>1, AdvanceStep DEF CancelPeekJobs
<1>6. CASE EnqueuePeekJob(r)
  <2> DEFINE job == [status |-> "pending", runAt |-> reqs[r].snap.expires]
  <2>1. reqs[r].snap.expires # NoExpiry => job \in PeekJob
    BY <1>1, NumbersAssumption DEF PeekJob, PartRecord, NoExpiry
  <2>2. \/ peekJobs' = peekJobs
        \/ /\ reqs[r].snap.expires # NoExpiry
           /\ peekJobs' = [peekJobs EXCEPT ![<<reqs[r].user, reqs[r].snap.peeks>>] = job]
    BY <1>6, Zenon DEF EnqueuePeekJob
  <2> HIDE DEF job
  <2>3. peekJobs' \in [PeekKeys -> PeekJob]
    BY <2>1, <2>2 DEF PartInv, TypeOK
  <2>4. part' = part /\ called' = called /\ OthersOK'
    BY <1>6, <2>3 DEF EnqueuePeekJob, PartInv, TypeOK, OthersOK, event, bounds
  <2> QED
    BY <1>6, <2>4, AdvanceStep DEF EnqueuePeekJob
<1>7. CASE RemoveMember(r)
  <2>1. part' = part /\ called' = called /\ OthersOK'
    BY <1>1, <1>7 DEF RemoveMember, PartInv, TypeOK, OthersOK, event, bounds
  <2> QED
    BY <1>7, <2>1, AdvanceStep DEF RemoveMember
<1> QED
  BY <1>3, <1>4, <1>5, <1>6, <1>7

\* The steps that end a request.
LEMMA LastStepsKeep ==
  ASSUME PartInv, NEW r \in Reqs,
         ChannelLost(r) \/ PostponePeekJob(r) \/ FinishPeekJob(r) \/ Abort(r)
  PROVE  PartInv'
<1>1. reqs[r] \in Request /\ reqs[r].snap \in PartRecord
  BY DEF PartInv, TypeOK, Request
<1>2. \A k \in PeekKeys : /\ [peekJobs[k] EXCEPT !.status = "canceled"] \in PeekJob
                          /\ [peekJobs[k] EXCEPT !.status = "done"] \in PeekJob
  BY DEF PartInv, TypeOK, PeekJob
<1>3. CASE ChannelLost(r)
  <2>1. peekJobs' \in [PeekKeys -> PeekJob] /\ {open', lost'} \subseteq BOOLEAN
    BY <1>2, <1>3 DEF ChannelLost, CloseEvent, event, PartInv, TypeOK
  <2>2. part' = part /\ called' = called /\ OthersOK'
    BY <1>3, <2>1 DEF ChannelLost, PartInv, TypeOK, OthersOK, bounds
  <2>3. CASE reqs[r].op # "expire"
    BY <1>3, <2>2, <2>3, EndStep DEF ChannelLost
  <2>4. CASE reqs[r].op = "expire"
    <3> DEFINE new == [reqs[r] EXCEPT !.todo = <<"finish">>]
    <3>1. <<"finish">> \in Seq(Steps)
      BY DEF Steps
    <3>2. /\ new \in Request /\ new.op = "expire" /\ new.todo = <<"finish">>
          /\ new.kind = reqs[r].kind /\ new.settled = reqs[r].settled
      BY <1>1, <2>4, <3>1 DEF Request
    <3>3. reqs' = [reqs EXCEPT ![r] = new]
      BY <1>3, <2>4 DEF ChannelLost
    <3> HIDE DEF new
    <3>4. "finish" \in Remaining(new)
      BY <3>2 DEF Remaining
    <3>5. RequestOK(new)
      BY <3>2, <3>4 DEF PartInv, RequestOK
    <3> QED
      BY <2>2, <2>4, <3>2, <3>3, <3>5, PlanStep
  <2> QED
    BY <2>3, <2>4
<1>4. CASE PostponePeekJob(r)
  <2> DEFINE job == [status |-> "pending", runAt |-> reqs[r].snap.expires]
  <2>1. reqs[r].snap.expires # NoExpiry
    BY <1>1, <1>4, AtLemma, CallerLemma DEF PostponePeekJob
  <2>2. job \in PeekJob
    BY <1>1, <2>1, NumbersAssumption DEF PeekJob, PartRecord, NoExpiry
  <2>3. peekJobs' = [peekJobs EXCEPT ![<<reqs[r].user, reqs[r].peeks>>] = job]
    BY <1>4 DEF PostponePeekJob
  <2> HIDE DEF job
  <2>4. peekJobs' \in [PeekKeys -> PeekJob]
    BY <2>2, <2>3 DEF PartInv, TypeOK
  <2>5. part' = part /\ called' = called /\ OthersOK' /\ End(r)
    BY <1>4, <2>4 DEF PostponePeekJob, PartInv, TypeOK, OthersOK, event, bounds
  <2> QED
    BY <2>5, EndStep
<1>5. CASE FinishPeekJob(r)
  <2>1. peekJobs' \in [PeekKeys -> PeekJob]
    BY <1>2, <1>5 DEF FinishPeekJob, PartInv, TypeOK
  <2>2. part' = part /\ called' = called /\ OthersOK' /\ End(r)
    BY <1>5, <2>1 DEF FinishPeekJob, PartInv, TypeOK, OthersOK, event, bounds
  <2> QED
    BY <2>2, EndStep
<1>6. CASE Abort(r)
  <2>1. [status |-> "pending", runAt |-> 0] \in PeekJob
    BY NumbersAssumption DEF PeekJob
  <2>2. peekJobs' \in [PeekKeys -> PeekJob]
    BY <1>6, <2>1 DEF Abort, PartInv, TypeOK
  <2>3. faults' \in 0..MaxFaults
    BY <1>6, NumbersAssumption DEF Abort, PartInv, TypeOK
  <2>4. part' = part /\ called' = called /\ OthersOK' /\ End(r)
    BY <1>6, <2>2, <2>3 DEF Abort, PartInv, TypeOK, OthersOK, event
  <2> QED
    BY <2>4, EndStep
<1> QED
  BY <1>3, <1>4, <1>5, <1>6

-----------------------------------------------------------------------------
(* The environment, and the theorems.                                      *)

LEMMA NearerLemma ==
  ASSUME NEW t \in NoExpiry..PeekDuration
  PROVE  /\ Nearer(t) \in NoExpiry..PeekDuration
         /\ t \in 0..PeekDuration => Nearer(t) \in 0..PeekDuration
         /\ Nearer(t) = NoExpiry <=> t = NoExpiry
BY NumbersAssumption DEF Nearer, NoExpiry

\* Time changes no record but for the expiry, and no request but for the
\* expiry it has read.
LEMMA TickStep ==
  ASSUME PartInv, Tick
  PROVE  PartInv'
<1>1. ASSUME NEW u \in Users
      PROVE  /\ part'[u] \in PartRecord /\ part'[u].peeks = part[u].peeks
             /\ FitsRole(part[u])'
  <2>1. part[u] \in PartRecord /\ FitsRole(part[u])
    BY DEF PartInv, TypeOK
  <2>2. part'[u] = [part[u] EXCEPT !.expires = Nearer(part[u].expires)]
    BY DEF Tick
  <2>3. /\ Nearer(part[u].expires) \in NoExpiry..PeekDuration
        /\ Nearer(part[u].expires) = NoExpiry <=> part[u].expires = NoExpiry
    BY <2>1, NearerLemma DEF PartRecord
  <2> QED
    BY <2>1, <2>2, <2>3 DEF PartRecord, FitsRole, IsActive
<1>2. ASSUME NEW r \in Reqs
      PROVE  /\ reqs'[r] \in Request /\ RequestOK(reqs[r])'
             /\ reqs'[r].op = reqs[r].op /\ reqs'[r].settled = reqs[r].settled
  <2> DEFINE snap == [reqs[r].snap EXCEPT !.expires = Nearer(reqs[r].snap.expires)]
             new == [reqs[r] EXCEPT !.snap = snap]
  <2>1. reqs[r] \in Request /\ RequestOK(reqs[r]) /\ reqs[r].snap \in PartRecord
    BY DEF PartInv, TypeOK, Request
  <2>2. reqs'[r] = new
    BY DEF Tick
  <2>3. /\ Nearer(reqs[r].snap.expires) \in NoExpiry..PeekDuration
        /\ Nearer(reqs[r].snap.expires) = NoExpiry <=> reqs[r].snap.expires = NoExpiry
    BY <2>1, NearerLemma DEF PartRecord
  <2>4. snap \in PartRecord /\ (snap.expires = NoExpiry <=> reqs[r].snap.expires = NoExpiry)
    BY <2>1, <2>3 DEF PartRecord
  <2> HIDE DEF snap
  <2>5. /\ new \in Request /\ new.op = reqs[r].op /\ new.settled = reqs[r].settled
        /\ new.todo = reqs[r].todo /\ new.kind = reqs[r].kind /\ new.snap = snap
    BY <2>1, <2>4 DEF Request
  <2> HIDE DEF new
  <2>6. Remaining(new) = Remaining(reqs[r])
    BY <2>4, <2>5 DEF Remaining
  <2>7. RequestOK(new)
    BY <2>1, <2>5, <2>6 DEF RequestOK
  <2>8. RequestOK(reqs[r])'
    BY <2>2, <2>7 DEF RequestOK, Remaining
  <2> QED
    BY <2>2, <2>5, <2>8
<1>3. ASSUME NEW k \in PeekKeys PROVE peekJobs'[k] \in PeekJob
  <2>1. peekJobs[k] \in PeekJob
    BY DEF PartInv, TypeOK
  <2>2. peekJobs'[k] = [peekJobs[k] EXCEPT !.runAt = Nearer(peekJobs[k].runAt)]
    BY DEF Tick
  <2>3. Nearer(peekJobs[k].runAt) \in 0..PeekDuration
    BY <2>1, NumbersAssumption DEF PeekJob, Nearer
  <2> QED
    BY <2>1, <2>2, <2>3 DEF PeekJob
<1>4. TypeOK'
  BY <1>1, <1>2, <1>3 DEF Tick, PartInv, TypeOK, event, bounds
<1>5. PeeksCounted'
  <2>1. PeeksAhead' = PeeksAhead
    BY <1>2 DEF PeeksAhead
  <2> QED
    BY <1>1, <2>1 DEF Tick, PartInv, PeeksCounted, bounds
<1> QED
  BY <1>1, <1>2, <1>4, <1>5 DEF PartInv

LEMMA EnvironmentStep ==
  ASSUME PartInv, Close \/ LoseChannel \/ UNCHANGED vars
  PROVE  PartInv'
<1>1. /\ part' = part /\ reqs' = reqs /\ called' = called
  BY DEF Close, LoseChannel, vars, bounds
<1>2. \A k \in PeekKeys : [peekJobs[k] EXCEPT !.status = "canceled"] \in PeekJob
  BY DEF PartInv, TypeOK, PeekJob
<1>3. TypeOK'
  <2>1. CASE Close
    BY <1>2, <2>1 DEF Close, CloseEvent, PartInv, TypeOK, bounds
  <2>2. CASE LoseChannel
    BY <2>2 DEF LoseChannel, PartInv, TypeOK, bounds
  <2>3. CASE UNCHANGED vars
    BY <2>3 DEF vars, PartInv, TypeOK
  <2> QED
    BY <2>1, <2>2, <2>3
<1>4. PeeksAhead' = PeeksAhead
  BY <1>1 DEF PeeksAhead
<1> QED
  BY <1>1, <1>3, <1>4 DEF PartInv, RequestOK, Remaining, PeeksCounted, FitsRole, IsActive

LEMMA InitInv == Init => PartInv
<1> SUFFICES ASSUME Init PROVE PartInv
  OBVIOUS
<1>1. ASSUME NEW u \in Users
      PROVE  part[u] \in PartRecord /\ part[u].peeks = 0 /\ FitsRole(part[u])
  <2>1. CASE u = Organizer
    BY <2>1, NumbersAssumption
       DEF Init, NoPart, PartRecord, PartStatuses, Roles, NoExpiry, FitsRole
  <2>2. CASE u # Organizer
    BY <2>2, NoPartLemma DEF Init
  <2> QED
    BY <2>1, <2>2
<1>2. \A r \in Reqs : reqs[r] = Idle
  BY DEF Init
<1>3. NoJob \in PeekJob
  BY NumbersAssumption DEF NoJob, PeekJob
<1>4. TypeOK
  <2>1. part \in [Users -> PartRecord]
    BY <1>1 DEF Init
  <2>2. peekJobs \in [PeekKeys -> PeekJob] /\ reqs \in [Reqs -> Request]
    BY <1>3, IdleLemma DEF Init
  <2>3. called \in 0..MaxRequests /\ faults \in 0..MaxFaults /\ count \in Int
    BY NumbersAssumption DEF Init
  <2>4. {open, lost} \subseteq BOOLEAN /\ channel \subseteq Users
    BY PartiesAssumption DEF Init
  <2> QED
    BY <2>1, <2>2, <2>3, <2>4 DEF TypeOK
<1>5. PeeksCounted
  <2>1. PeeksAhead = {}
    BY <1>2, IdleLemma DEF PeeksAhead
  <2> QED
    BY <1>1, <2>1, FS_EmptySet DEF Init, PeeksCounted
<1> QED
  BY <1>1, <1>2, <1>4, <1>5, IdleLemma DEF PartInv

\* The steps of requests other than Upsert and SetStatus write no record.
LEMMA OtherStep ==
  ASSUME PartInv, NEW r \in Reqs, Step(r), ~ Upsert(r), ~ SetStatus(r)
  PROVE  PartInv' /\ part' = part
<1>1. part' = part
  BY DEF Step, ReadToApply, ReadAfter, ChannelLost, AddMember, AddCount, CancelPeekJobs,
         EnqueuePeekJob, ReadToDetach, RemoveMember, CheckExpiry, PostponePeekJob,
         FinishPeekJob
<1>2. PartInv'
  BY ReadToApplyStep, ReadAfterStep, ReadToDetachStep, CheckExpiryStep,
     CallStepsKeep, LastStepsKeep DEF Step
<1> QED
  BY <1>1, <1>2

\* Every step keeps the invariant and makes no peeker of a participant.
LEMMA NextInv ==
  ASSUME PartInv, [Next]_vars
  PROVE  /\ PartInv'
         /\ \A u \in Users : ActiveParticipant(part[u]) => ~ ActivePeeker(part'[u])
<1>1. part' = part => \A u \in Users : ActiveParticipant(part[u]) => ~ ActivePeeker(part'[u])
  BY DEF ActiveParticipant, ActivePeeker
<1>2. ASSUME NEW r \in Reqs, NEW op \in AllOps, NEW u \in Users, Call(r, op, u)
      PROVE  PartInv' /\ part' = part
  <2>1. PartInv'
    BY <1>2, CallStep
  <2>2. part' = part
    BY <1>2 DEF Call
  <2> QED
    BY <2>1, <2>2
<1>3. ASSUME NEW r \in Reqs, NEW u \in Users, NEW n \in 1..MaxRequests, RunPeekJob(r, u, n)
      PROVE  PartInv' /\ part' = part
  <2>1. PartInv'
    BY <1>3, RunPeekJobStep
  <2>2. part' = part
    BY <1>3 DEF RunPeekJob
  <2> QED
    BY <2>1, <2>2
<1>4. ASSUME NEW r \in Reqs, Step(r)
      PROVE  /\ PartInv'
             /\ \A u \in Users : ActiveParticipant(part[u]) => ~ ActivePeeker(part'[u])
  <2>1. CASE Upsert(r)
    BY <2>1, UpsertStep
  <2>2. CASE SetStatus(r)
    BY <2>2, SetStatusStep
  <2>3. CASE ~ Upsert(r) /\ ~ SetStatus(r)
    BY <1>1, <1>4, <2>3, OtherStep
  <2> QED
    BY <2>1, <2>2, <2>3
<1>5. ASSUME NEW r \in Reqs, Abort(r) PROVE PartInv' /\ part' = part
  BY <1>5, LastStepsKeep DEF Abort
<1>6. CASE Close \/ LoseChannel \/ UNCHANGED vars
  <2>1. part' = part
    BY <1>6 DEF Close, LoseChannel, vars
  <2> QED
    BY <1>1, <1>6, <2>1, EnvironmentStep
<1>7. CASE Tick
  <2>1. \A u \in Users : ActiveParticipant(part[u]) => ~ ActivePeeker(part'[u])
    BY <1>7 DEF Tick, PartInv, TypeOK, PartRecord, ActiveParticipant, ActivePeeker, IsActive
  <2> QED
    BY <1>7, <2>1, TickStep
<1> QED
  BY <1>1, <1>2, <1>3, <1>4, <1>5, <1>6, <1>7 DEF Next

THEOREM Invariance == Spec => []PartInv
<1>1. PartInv /\ [Next]_vars => PartInv'
  BY NextInv
<1> QED
  BY InitInv, <1>1, PTL DEF Spec

\* participations.go:156-191: records and requests keep their types; above all no
\* user's PeekCount exceeds the operations called, so that there is a key for
\* the peek_expire job of every peek.
THEOREM TypeCorrect == Spec => []TypeOK
<1>1. PartInv => TypeOK
  BY DEF PartInv
<1> QED
  BY Invariance, <1>1, PTL

\* participations.go:95, 184: of active records exactly those of peekers expire.
THEOREM ExpiryKept == Spec => []ExpiryFitsRole
<1>1. PartInv => ExpiryFitsRole
  BY DEF PartInv, FitsRole, ExpiryFitsRole
<1> QED
  BY Invariance, <1>1, PTL

\* participations.go:22: no interleaving of requests, jobs and failures makes a
\* peeker of somebody who takes part.
THEOREM Undemoted == Spec => NoDemotion
<1>1. PartInv /\ [Next]_vars =>
        [\A u \in Users : ActiveParticipant(part[u]) => ~ ActivePeeker(part'[u])]_vars
  BY NextInv
<1> QED
  BY Invariance, <1>1, PTL DEF Spec, NoDemotion

-----------------------------------------------------------------------------
(* The count and the members of the channel, while the requests for one    *)
(* user and the expiry of the user's peek come one after another, none     *)
(* fails, and the channel is there.                                        *)

Undisturbed == OneAtATime /\ FaultyOps = {} /\ ~ MayLose

\* What the record p makes of its user.
Standing(p) == IF IsActive(p) THEN p.role ELSE "out"

\* The place in the channel fits the standing.
Placed(st, member) == member <=> st # "out"

\* How far a request is whose next call is the given one, with the standing of
\* its user and the place in the channel.
Doing(call, req, st, member) ==
  /\ req.op \in AllOps \cup {"expire"}
  /\ call \in Steps
  /\ call = "read" => /\ req.op \in AllOps /\ req.todo = <<"read">> /\ req.settled = "none"
                      /\ Placed(st, member)
  /\ call = "upsert" => /\ req.todo = <<"upsert">> /\ req.settled = "none"
                        /\ \/ req.op = "join" /\ req.kind = "joined" /\ st = "out" /\ ~ member
                           \/ req.op = "join" /\ req.kind = "promoted" /\ st = "peeker" /\ member
                           \/ req.op = "peek" /\ req.kind = "peeked" /\ st = "out" /\ ~ member
  /\ call = "after" =>
       /\ req.todo = <<"after">> /\ req.settled = req.kind
       /\ \/ req.op = "join" /\ req.kind = "joined" /\ st = "participant" /\ ~ member
          \/ req.op = "join" /\ req.kind = "promoted" /\ st = "participant" /\ member
          \/ req.op = "peek" /\ req.kind = "peeked" /\ st = "peeker" /\ ~ member
  /\ call = "add" =>
       /\ ~ member
       /\ \/ req.op = "join" /\ req.todo = <<"add", "count">> /\ st = "participant"
          \/ req.op = "peek" /\ req.todo = <<"add", "enqueue">> /\ st = "peeker"
  /\ call = "count" =>
       \/ req.op = "join" /\ req.todo \in {<<"count">>, <<"count", "cancel">>}
          /\ st = "participant" /\ member
       \/ req.op \in {"leave", "remove"} /\ req.todo = <<"count">> /\ st = "out" /\ ~ member
  /\ call = "cancel" => /\ req.op = "join" /\ req.todo = <<"cancel">>
                        /\ st = "participant" /\ member
  /\ call = "enqueue" => req.op = "peek" /\ req.todo = <<"enqueue">> /\ st = "peeker" /\ member
  /\ call = "remove" =>
       /\ member
       /\ \/ req.op \in {"leave", "remove"} /\ req.todo = <<"remove", "status", "count">>
             /\ st = "participant"
          \/ req.op \in {"leave", "remove"} /\ req.todo = <<"remove", "status">> /\ st = "peeker"
          \/ req.op = "expire" /\ req.todo = <<"remove", "status", "finish">> /\ st = "peeker"
  /\ call = "status" =>
       /\ ~ member
       /\ \/ req.op \in {"leave", "remove"} /\ req.todo = <<"status", "count">>
             /\ st = "participant"
          \/ req.op \in {"leave", "remove"} /\ req.todo = <<"status">> /\ st = "peeker"
          \/ req.op = "expire" /\ req.todo = <<"status", "finish">> /\ st = "peeker"
  /\ call \in {"check", "postpone", "finish"} =>
       req.op = "expire" /\ req.todo = <<call>> /\ Placed(st, member)

\* The request has written a record that is not in the count yet.
Owes(req) ==
  \/ /\ req.op = "join"
     /\ req.todo \in {<<"after">>, <<"add", "count">>, <<"count">>, <<"count", "cancel">>}
  \/ req.op \in {"leave", "remove"} /\ req.todo = <<"count">>

Serves(r, u) == reqs[r].op # "none" /\ reqs[r].user = u

\* Whether the count has the user of a request, given the user's standing.
InCount(req, st) == ~ (st = "participant" <=> req.op # "none" /\ Owes(req))

\* The users the count stands for: those who take part, but for the records
\* that requests owe it.
Counted ==
  {u \in Users : ~ (Standing(part[u]) = "participant"
                      <=> \E r \in Reqs : Serves(r, u) /\ Owes(reqs[r]))}

CalmInv ==
  /\ PartInv
  /\ ~ lost
  /\ \A r \in Reqs :
       IF reqs[r].op = "none" THEN reqs[r].todo = << >>
       ELSE Doing(Head(reqs[r].todo), reqs[r], Standing(part[reqs[r].user]),
                  reqs[r].user \in channel)
  /\ \A q, r \in Reqs : \A u \in Users : Serves(q, u) /\ Serves(r, u) => q = r
  /\ \A u \in Users :
       (\A r \in Reqs : ~ Serves(r, u)) => Placed(Standing(part[u]), u \in channel)
  /\ count = Cardinality(Counted)

\* What a step of request r has to show: it stays in step with the record and
\* the place of its user, which nobody else looks at, and counts what it owes.
LEMMA CalmStep ==
  ASSUME CalmInv, PartInv', NEW r \in Reqs, NEW u \in Users, NEW new,
         new \in Request, new.op # "none" => new.user = u,
         \A q \in Reqs : Serves(q, u) => q = r,
         reqs[r].op # "none" => reqs[r].user = u,
         reqs' = [reqs EXCEPT ![r] = new], ~ lost',
         \A v \in Users \ {u} : part'[v] = part[v] /\ (v \in channel' <=> v \in channel),
         IF new.op = "none"
         THEN new.todo = << >> /\ Placed(Standing(part'[u]), u \in channel')
         ELSE Doing(Head(new.todo), new, Standing(part'[u]), u \in channel'),
         \/ /\ count' = count
            /\ InCount(reqs[r], Standing(part[u])) <=> InCount(new, Standing(part'[u]))
         \/ /\ count' = count + 1
            /\ ~ InCount(reqs[r], Standing(part[u])) /\ InCount(new, Standing(part'[u]))
         \/ /\ count' = count - 1
            /\ InCount(reqs[r], Standing(part[u])) /\ ~ InCount(new, Standing(part'[u]))
  PROVE  CalmInv'
<1>1. /\ reqs \in [Reqs -> Request] /\ reqs'[r] = new
      /\ \A q \in Reqs \ {r} : reqs'[q] = reqs[q] /\ ~ Serves(q, u)
  BY DEF CalmInv, PartInv, TypeOK
<1>2. \A q \in Reqs, v \in Users :
        Serves(q, v)' <=> IF q = r THEN v = u /\ new.op # "none" ELSE Serves(q, v) /\ v # u
  BY <1>1 DEF Serves
<1>3. \A v \in Users \ {u} : ~ Serves(r, v)
  BY DEF Serves
<1>4. \A v \in Users \ {u} : Standing(part'[v]) = Standing(part[v])
  OBVIOUS
<1>5. ASSUME NEW q \in Reqs
      PROVE  IF reqs'[q].op = "none" THEN reqs'[q].todo = << >>
             ELSE Doing(Head(reqs'[q].todo), reqs'[q], Standing(part'[reqs'[q].user]),
                        reqs'[q].user \in channel')
  <2>1. CASE q = r
    BY <1>1, <2>1
  <2>2. CASE q # r /\ reqs[q].op = "none"
    BY <1>1, <2>2 DEF CalmInv
  <2>3. CASE q # r /\ reqs[q].op # "none"
    <3>1. reqs[q].user \in Users \ {u} /\ reqs'[q] = reqs[q]
      BY <1>1, <2>3 DEF Serves, Request
    <3>2. Doing(Head(reqs[q].todo), reqs[q], Standing(part[reqs[q].user]),
                reqs[q].user \in channel)
      BY <2>3 DEF CalmInv
    <3>3. reqs[q].user \in channel' <=> reqs[q].user \in channel
      BY <3>1
    <3>4. Standing(part'[reqs[q].user]) = Standing(part[reqs[q].user])
      BY <1>4, <3>1
    <3>5. Doing(Head(reqs[q].todo), reqs[q], Standing(part'[reqs[q].user]),
                reqs[q].user \in channel')
      BY <3>2, <3>3, <3>4 DEF Doing, Placed
    <3> QED
      BY <2>3, <3>1, <3>5
  <2> QED
    BY <2>1, <2>2, <2>3
<1>6. \A q, s \in Reqs : \A v \in Users : Serves(q, v)' /\ Serves(s, v)' => q = s
  BY <1>2 DEF CalmInv
<1>7. ASSUME NEW v \in Users, \A q \in Reqs : ~ Serves(q, v)'
      PROVE  Placed(Standing(part'[v]), v \in channel')
  <2>1. CASE v = u
    BY <1>2, <1>7, <2>1
  <2>2. CASE v # u
    <3>1. \A q \in Reqs : ~ Serves(q, v)
      BY <1>2, <1>3, <1>7, <2>2
    <3> QED
      BY <1>4, <2>2, <3>1 DEF CalmInv, Placed
  <2> QED
    BY <2>1, <2>2
<1>8. count' = Cardinality(Counted')
  <2> DEFINE before == InCount(reqs[r], Standing(part[u]))
             after == InCount(new, Standing(part'[u]))
             Owing(v) == \E q \in Reqs : Serves(q, v) /\ Owes(reqs[q])
  <2>1. ASSUME NEW v \in Users \ {u} PROVE Owing(v)' <=> Owing(v)
    BY <1>1, <1>2, <1>3 DEF Owes
  <2>2. (Owing(u) <=> reqs[r].op # "none" /\ Owes(reqs[r]))
        /\ (Owing(u)' <=> new.op # "none" /\ Owes(new))
    <3>1. Serves(r, u) <=> reqs[r].op # "none"
      BY DEF Serves
    <3> QED
      BY <1>1, <1>2, <3>1 DEF Owes
  <2>3. Counted = {v \in Users : ~ (Standing(part[v]) = "participant" <=> Owing(v))}
        /\ Counted' = {v \in Users : ~ (Standing(part'[v]) = "participant" <=> Owing(v)')}
    BY DEF Counted, Standing, IsActive
  <2> HIDE DEF Owing
  <2>4. (u \in Counted <=> before) /\ (u \in Counted' <=> after)
    BY <2>2, <2>3 DEF InCount
  <2>5. \A v \in Users \ {u} : v \in Counted' <=> v \in Counted
    BY <1>4, <2>1, <2>3
  <2>6. Counted \subseteq Users /\ Counted' \subseteq Users
    BY <2>3
  <2>7. IsFiniteSet(Counted) /\ count = Cardinality(Counted) /\ count \in Int
    BY <2>6, PartiesAssumption, FS_Subset DEF CalmInv, PartInv, TypeOK
  <2> HIDE DEF before, after
  <2>8. CASE count' = count /\ (before <=> after)
    <3>1. u \in Counted' <=> u \in Counted
      BY <2>4, <2>8
    <3>2. \A v \in Users : v \in Counted' <=> v \in Counted
      BY <2>5, <3>1
    <3>3. Counted' = Counted
      BY <2>6, <3>2
    <3> QED
      BY <2>7, <2>8, <3>3
  <2>9. CASE count' = count + 1 /\ ~ before /\ after
    <3>1. Counted' = Counted \cup {u} /\ u \notin Counted
      BY <2>4, <2>5, <2>6, <2>9
    <3> QED
      BY <2>7, <2>9, <3>1, FS_AddElement
  <2>10. CASE count' = count - 1 /\ before /\ ~ after
    <3>1. Counted' = Counted \ {u} /\ u \in Counted
      BY <2>4, <2>5, <2>6, <2>10
    <3> QED
      BY <2>7, <2>10, <3>1, FS_RemoveElement
  <2> QED
    BY <2>8, <2>9, <2>10 DEF before, after
<1> QED
  BY <1>5, <1>6, <1>7, <1>8 DEF CalmInv, Standing, IsActive

\* What is known at the next call of a request.
LEMMA CallKnown ==
  ASSUME CalmInv, NEW r \in Reqs, NEW call, At(r, call)
  PROVE  /\ reqs[r] \in Request /\ reqs[r].user \in Users /\ reqs[r].op # "none"
         /\ part \in [Users -> PartRecord] /\ part[reqs[r].user] \in PartRecord
         /\ \A q \in Reqs : Serves(q, reqs[r].user) => q = r
         /\ Doing(call, reqs[r], Standing(part[reqs[r].user]), reqs[r].user \in channel)
<1>1. /\ reqs[r] \in Request /\ reqs[r].user \in Users /\ part \in [Users -> PartRecord]
      /\ reqs[r].todo # << >> /\ call = Head(reqs[r].todo)
  BY DEF CalmInv, PartInv, TypeOK, Request, At
<1>2. reqs[r].op # "none"
  BY <1>1 DEF CalmInv
<1>3. Doing(call, reqs[r], Standing(part[reqs[r].user]), reqs[r].user \in channel)
  BY <1>1, <1>2 DEF CalmInv
<1>4. \A q \in Reqs : Serves(q, reqs[r].user) => q = r
  BY <1>1, <1>2 DEF CalmInv, Serves
<1> QED
  BY <1>1, <1>2, <1>3, <1>4

\* The first call of a list, and what is left after it.
LEMMA Lists ==
  /\ \A s \in Steps : Head(<<s>>) = s /\ Len(<<s>>) = 1 /\ <<s>> \in Seq(Steps)
  /\ \A s, t \in Steps : /\ Head(<<s, t>>) = s /\ Len(<<s, t>>) = 2
                         /\ Tail(<<s, t>>) = <<t>> /\ <<s, t>> \in Seq(Steps)
  /\ \A s, t, w \in Steps : /\ Head(<<s, t, w>>) = s /\ Len(<<s, t, w>>) = 3
                            /\ Tail(<<s, t, w>>) = <<t, w>> /\ <<s, t, w>> \in Seq(Steps)
OBVIOUS

\* Of the lists a request has ahead, those with a debt.
LEMMA Debts ==
  ASSUME NEW req, NEW s \in Steps, NEW t \in Steps, NEW w \in Steps
  PROVE  /\ req.todo = <<s>> =>
              (Owes(req) <=> \/ req.op = "join" /\ s \in {"after", "count"}
                             \/ req.op \in {"leave", "remove"} /\ s = "count")
         /\ req.todo = <<s, t>> =>
              (Owes(req) <=> req.op = "join" /\ <<s, t>> \in {<<"add", "count">>, <<"count", "cancel">>})
         /\ req.todo = <<s, t, w>> => ~ Owes(req)
BY DEF Owes

\* A request begins for a user for whom nothing else is done.
LEMMA CalmBegin ==
  ASSUME CalmInv, PartInv', Undisturbed, NEW r \in Reqs, NEW u \in Users, Free(u),
         reqs[r] = Idle, NEW new \in Request, new.user = u,
         \/ new.op \in AllOps /\ new.todo = <<"read">> /\ new.settled = "none"
         \/ new.op = "expire" /\ new.todo = <<"check">>,
         reqs' = [reqs EXCEPT ![r] = new],
         part' = part, count' = count, channel' = channel, lost' = lost
  PROVE  CalmInv'
<1>1. Idle.op = "none" /\ "none" \notin AllOps \cup {"expire"}
  BY DEF Idle, AllOps
<1>2. \A q \in Reqs : ~ Serves(q, u)
  BY DEF Free, Undisturbed, Serves
<1>3. Placed(Standing(part[u]), u \in channel)
  BY <1>2 DEF CalmInv
<1>4. Doing(Head(new.todo), new, Standing(part'[u]), u \in channel')
  <2>1. "read" \in Steps /\ "check" \in Steps
    BY DEF Steps
  <2>2. Head(new.todo) \in {"read", "check"} /\ (Head(new.todo) = "check" <=> new.op = "expire")
    BY <2>1, Lists DEF AllOps
  <2> QED
    BY <1>3, <2>1, <2>2 DEF Doing, AllOps
<1>5. ~ Owes(new)
  <2>1. "read" \in Steps /\ "check" \in Steps
    BY DEF Steps
  <2> QED
    BY <2>1, Debts
<1>6. InCount(reqs[r], Standing(part[u])) <=> InCount(new, Standing(part'[u]))
  BY <1>1, <1>5 DEF InCount
<1>7. new.op # "none" /\ ~ lost'
  BY <1>1 DEF CalmInv
<1> QED
  BY <1>1, <1>2, <1>4, <1>6, <1>7, CalmStep

\* A request has made its last call.
LEMMA CalmEnd ==
  ASSUME CalmInv, PartInv', NEW r \in Reqs, NEW call, At(r, call), End(r), lost' = lost,
         \A v \in Users \ {reqs[r].user} :
            part'[v] = part[v] /\ (v \in channel' <=> v \in channel),
         Placed(Standing(part'[reqs[r].user]), reqs[r].user \in channel'),
         (Standing(part'[reqs[r].user]) = "participant")
           <=> (Standing(part[reqs[r].user]) = "participant"),
         \/ count' = count /\ ~ Owes(reqs[r])
         \/ count' = count + 1 /\ Owes(reqs[r]) /\ Standing(part[reqs[r].user]) = "participant"
         \/ count' = count - 1 /\ Owes(reqs[r]) /\ Standing(part[reqs[r].user]) = "out"
  PROVE  CalmInv'
<1> DEFINE u == reqs[r].user
<1>1. /\ u \in Users /\ \A q \in Reqs : Serves(q, u) => q = r
      /\ reqs[r].op # "none"
  BY CallKnown
<1>2. Idle \in Request /\ Idle.op = "none" /\ Idle.todo = << >>
  BY IdleLemma DEF Idle
<1>3. /\ InCount(Idle, Standing(part'[u])) <=> Standing(part[u]) = "participant"
      /\ InCount(reqs[r], Standing(part[u]))
           <=> ~ (Standing(part[u]) = "participant" <=> Owes(reqs[r]))
  BY <1>1, <1>2 DEF InCount
<1>4. reqs' = [reqs EXCEPT ![r] = Idle] /\ ~ lost'
  BY DEF CalmInv, End
<1> QED
  BY <1>1, <1>2, <1>3, <1>4, CalmStep

\* A request has made a call, and others are ahead.
LEMMA CalmGoOn ==
  ASSUME CalmInv, PartInv', NEW r \in Reqs, NEW call, At(r, call),
         NEW new \in Request, new.op = reqs[r].op, new.user = reqs[r].user,
         reqs' = [reqs EXCEPT ![r] = new], lost' = lost,
         \A v \in Users \ {new.user} :
            part'[v] = part[v] /\ (v \in channel' <=> v \in channel),
         Doing(Head(new.todo), new, Standing(part'[new.user]), new.user \in channel'),
         \/ /\ count' = count
            /\ (Standing(part[new.user]) = "participant" <=> Owes(reqs[r]))
                 <=> (Standing(part'[new.user]) = "participant" <=> Owes(new))
         \/ /\ count' = count + 1 /\ Standing(part[new.user]) = "participant" /\ Owes(reqs[r])
            /\ Standing(part'[new.user]) = "participant" /\ ~ Owes(new)
  PROVE  CalmInv'
<1> DEFINE u == new.user
<1>1. /\ u \in Users /\ \A q \in Reqs : Serves(q, u) => q = r
      /\ reqs[r].op # "none"
  BY CallKnown
<1>2. /\ InCount(reqs[r], Standing(part[u]))
           <=> ~ (Standing(part[u]) = "participant" <=> Owes(reqs[r]))
      /\ InCount(new, Standing(part'[u]))
           <=> ~ (Standing(part'[u]) = "participant" <=> Owes(new))
  BY <1>1 DEF InCount
<1>3. ~ lost'
  BY DEF CalmInv
<1> QED
  BY <1>1, <1>2, <1>3, CalmStep

\* One more call at the end of a list, or none.
LEMMA Longer ==
  /\ \A s \in Seq(Steps) : s \o << >> = s
  /\ \A s, t, w \in Steps : <<s, t>> \o <<w>> = <<s, t, w>>
  /\ \A s, t, w, x \in Steps : <<s, t, w>> \o <<x>> = <<s, t, w, x>>
<1>1. ASSUME NEW s \in Steps, NEW t \in Steps, NEW w \in Steps
      PROVE  <<s, t>> \o <<w>> = <<s, t, w>>
  <2> DEFINE list == <<s, t>> \o <<w>>
  <2>1. list \in Seq(Steps) /\ Len(list) = 3
    OBVIOUS
  <2>2. list[1] = s /\ list[2] = t /\ list[3] = w
    OBVIOUS
  <2> HIDE DEF list
  <2>3. list = <<s, t, w>>
    BY <2>1, <2>2
  <2> QED
    BY <2>3 DEF list
<1>2. ASSUME NEW s \in Steps, NEW t \in Steps, NEW w \in Steps, NEW x \in Steps
      PROVE  <<s, t, w>> \o <<x>> = <<s, t, w, x>>
  <2> DEFINE list == <<s, t, w>> \o <<x>>
  <2>1. list \in Seq(Steps) /\ Len(list) = 4
    OBVIOUS
  <2>2. list[1] = s /\ list[2] = t /\ list[3] = w /\ list[4] = x
    OBVIOUS
  <2> HIDE DEF list
  <2>3. list = <<s, t, w, x>>
    BY <2>1, <2>2
  <2> QED
    BY <2>3 DEF list
<1>3. \A s \in Seq(Steps) : s \o << >> = s
  OBVIOUS
<1> QED
  BY <1>1, <1>2, <1>3

\* What leaving, removal and expiry do with the record of a user who takes part
\* or peeks.
LEMMA Detaching ==
  ASSUME NEW op \in {"leave", "remove", "expire"}, NEW p
  PROVE  Detachment(op, p) =
           IF p.role = "participant"
           THEN IF op = "expire" THEN <<"remove", "status", "count", "finish">>
                ELSE <<"remove", "status", "count">>
           ELSE IF op = "expire" THEN <<"remove", "status", "finish">>
                ELSE <<"remove", "status">>
<1> DEFINE s == IF p.role = "participant" THEN <<"count">> ELSE << >>
           t == IF op = "expire" THEN <<"finish">> ELSE << >>
<1>1. Detachment(op, p) = (<<"remove", "status">> \o s) \o t
  BY Zenon DEF Detachment
<1>2. /\ "remove" \in Steps /\ "status" \in Steps /\ "count" \in Steps /\ "finish" \in Steps
  BY DEF Steps
<1>3. /\ <<"remove", "status">> \o <<"count">> = <<"remove", "status", "count">>
      /\ <<"remove", "status">> \o <<"finish">> = <<"remove", "status", "finish">>
      /\ <<"remove", "status", "count">> \o <<"finish">>
           = <<"remove", "status", "count", "finish">>
  BY <1>2, Longer
<1>4. /\ <<"remove", "status">> \o << >> = <<"remove", "status">>
      /\ <<"remove", "status", "count">> \o << >> = <<"remove", "status", "count">>
  BY <1>2, Lists, Longer
<1> HIDE DEF s, t
<1>5. CASE p.role = "participant"
  BY <1>1, <1>3, <1>4, <1>5 DEF s, t
<1>6. CASE p.role # "participant"
  BY <1>1, <1>3, <1>4, <1>6 DEF s, t
<1> QED
  BY <1>5, <1>6

\* A call that changes the database or the channel for its user alone, and the
\* calls that are left.
LEMMA CalmAdvance ==
  ASSUME CalmInv, PartInv', NEW r \in Reqs, NEW call, At(r, call), Advance(r), lost' = lost,
         NEW rest \in Seq(Steps), Len(reqs[r].todo) # 1, Tail(reqs[r].todo) = rest,
         LET new == [reqs[r] EXCEPT !.todo = rest] IN
           /\ \A v \in Users \ {new.user} :
                part'[v] = part[v] /\ (v \in channel' <=> v \in channel)
           /\ Doing(Head(rest), new, Standing(part'[new.user]), new.user \in channel')
           /\ \/ /\ count' = count
                 /\ (Standing(part[new.user]) = "participant" <=> Owes(reqs[r]))
                      <=> (Standing(part'[new.user]) = "participant" <=> Owes(new))
              \/ /\ count' = count + 1 /\ Standing(part[new.user]) = "participant"
                 /\ Owes(reqs[r]) /\ Standing(part'[new.user]) = "participant" /\ ~ Owes(new)
  PROVE  CalmInv'
<1> DEFINE new == [reqs[r] EXCEPT !.todo = rest]
<1>1. reqs[r] \in Request
  BY CallKnown
<1>2. /\ new \in Request /\ new.op = reqs[r].op /\ new.user = reqs[r].user
      /\ new.todo = rest
  BY <1>1 DEF Request
<1>3. reqs' = [reqs EXCEPT ![r] = new]
  BY DEF Advance
<1> QED
  BY <1>2, <1>3, CalmGoOn

\* The steps of joining and peeking.
LEMMA CalmApply ==
  ASSUME CalmInv, PartInv', NEW r \in Reqs, ReadToApply(r) \/ Upsert(r) \/ ReadAfter(r)
  PROVE  CalmInv'
<1> DEFINE req == reqs[r]
           u == req.user
           st == Standing(part[u])
           member == u \in channel
<1> USE DEF AllOps
<1>1. ASSUME NEW call, At(r, call)
      PROVE  /\ req \in Request /\ u \in Users /\ req.op # "none"
             /\ part \in [Users -> PartRecord] /\ part[u] \in PartRecord
             /\ Doing(call, req, st, member)
  BY <1>1, CallKnown
<1>2. \A s \in {"read", "upsert", "after"} : s \in Steps
  BY DEF Steps
<1>3. CASE ReadToApply(r)
  <2>1. /\ At(r, "read") /\ req.op \in {"join", "peek"} /\ req.settled = "none"
        /\ req.todo = <<"read">> /\ Placed(st, member)
        /\ u \in Users /\ req \in Request /\ part[u] \in PartRecord
    BY <1>1, <1>3 DEF ReadToApply, Doing
  <2>2. /\ part' = part /\ channel' = channel /\ count' = count /\ lost' = lost
    BY <1>3 DEF ReadToApply, event
  <2>3. ~ Owes(req)
    BY <1>2, <2>1, Debts
  <2> DEFINE kind == DecideTransition(part[u], req.op)
  <2>4. \/ kind \in {"already_participant", "already_peeking"}
        \/ req.op = "join" /\ kind = "joined" /\ st = "out" /\ ~ member
        \/ req.op = "join" /\ kind = "promoted" /\ st = "peeker" /\ member
        \/ req.op = "peek" /\ kind = "peeked" /\ st = "out" /\ ~ member
    BY <2>1 DEF DecideTransition, ActiveParticipant, ActivePeeker, Standing, IsActive, Placed,
                PartRecord, Roles
  <2> HIDE DEF kind
  <2>5. CASE kind \in {"already_participant", "already_peeking"}
    <3>1. End(r)
      BY <1>3, <2>5 DEF ReadToApply, kind
    <3> QED
      BY <2>1, <2>2, <2>3, <3>1, CalmEnd
  <2>6. CASE kind \notin {"already_participant", "already_peeking"}
    <3> DEFINE new == [req EXCEPT !.kind = kind, !.todo = <<"upsert">>]
    <3>1. reqs' = [reqs EXCEPT ![r] = new]
      BY <1>3, <2>6 DEF ReadToApply, kind
    <3>2. /\ new \in Request /\ new.op = req.op /\ new.user = u /\ new.kind = kind
          /\ new.settled = "none" /\ new.todo = <<"upsert">>
      <4>1. <<"upsert">> \in Seq(Steps) /\ kind \in Kinds
        BY <1>2, <2>4, Lists DEF Kinds
      <4> QED
        BY <2>1, <4>1 DEF Request
    <3> HIDE DEF new
    <3>3. ~ Owes(new) /\ Head(new.todo) = "upsert"
      BY <1>2, <3>2, Debts, Lists
    <3>4. Doing("upsert", new, Standing(part'[u]), u \in channel')
      BY <1>2, <2>1, <2>2, <2>4, <2>6, <3>2 DEF Doing
    <3> QED
      BY <2>1, <2>2, <2>3, <3>1, <3>2, <3>3, <3>4, CalmGoOn
  <2> QED
    BY <2>5, <2>6
<1>4. CASE Upsert(r)
  <2>1. /\ At(r, "upsert") /\ req.todo = <<"upsert">> /\ req.settled = "none"
        /\ \/ req.op = "join" /\ req.kind = "joined" /\ st = "out" /\ ~ member
           \/ req.op = "join" /\ req.kind = "promoted" /\ st = "peeker" /\ member
           \/ req.op = "peek" /\ req.kind = "peeked" /\ st = "out" /\ ~ member
        /\ u \in Users /\ req \in Request /\ part[u] \in PartRecord
        /\ part \in [Users -> PartRecord]
    BY <1>1, <1>4 DEF Upsert, Doing
  <2>2. DecideTransition(part[u], req.op) = req.kind
    BY <2>1 DEF DecideTransition, ActiveParticipant, ActivePeeker, Standing, IsActive,
                PartRecord, Roles
  <2> DEFINE new == [req EXCEPT !.settled = req.kind, !.todo = <<"after">>]
  <2>3. /\ reqs' = [reqs EXCEPT ![r] = new]
        /\ part' = [part EXCEPT ![u] = Upserted(part[u], req.op)]
        /\ channel' = channel /\ count' = count /\ lost' = lost
    BY <1>4, <2>1, <2>2 DEF Upsert, event
  <2>4. Standing(part'[u]) = IF req.op = "join" THEN "participant" ELSE "peeker"
    <3>1. part'[u] = Upserted(part[u], req.op)
      BY <2>1, <2>3
    <3>2. ~ ActiveParticipant(part[u])
      BY <2>1 DEF ActiveParticipant, Standing
    <3> QED
      BY <3>1, <3>2 DEF Upserted, Standing, IsActive
  <2>5. /\ new \in Request /\ new.op = req.op /\ new.user = u /\ new.kind = req.kind
        /\ new.settled = req.kind /\ new.todo = <<"after">>
    <3>1. <<"after">> \in Seq(Steps) /\ req.kind \in Kinds
      BY <1>2, <2>1, Lists DEF Request
    <3> QED
      BY <2>1, <3>1 DEF Request
  <2> HIDE DEF new
  <2>6. /\ ~ Owes(req) /\ (Owes(new) <=> req.op = "join")
        /\ Head(new.todo) = "after"
    BY <1>2, <2>1, <2>5, Debts, Lists
  <2>7. Doing("after", new, Standing(part'[u]), u \in channel')
    BY <1>2, <2>1, <2>3, <2>4, <2>5 DEF Doing
  <2>8. \A v \in Users \ {u} : part'[v] = part[v]
    BY <2>1, <2>3
  <2> QED
    BY <2>1, <2>3, <2>4, <2>5, <2>6, <2>7, <2>8, CalmGoOn
<1>5. CASE ReadAfter(r)
  <2>1. /\ At(r, "after") /\ req.todo = <<"after">> /\ req.settled = req.kind
        /\ \/ req.op = "join" /\ req.kind = "joined" /\ st = "participant" /\ ~ member
           \/ req.op = "join" /\ req.kind = "promoted" /\ st = "participant" /\ member
           \/ req.op = "peek" /\ req.kind = "peeked" /\ st = "peeker" /\ ~ member
        /\ u \in Users /\ req \in Request /\ part[u] \in PartRecord
    BY <1>1, <1>5 DEF ReadAfter, Doing
  <2> DEFINE rest == SideEffects(req.kind)
             new == [req EXCEPT !.snap = part[u], !.todo = rest]
  <2>2. /\ reqs' = [reqs EXCEPT ![r] = new]
        /\ part' = part /\ channel' = channel /\ count' = count /\ lost' = lost
    BY <1>5, <2>1 DEF ReadAfter, event
  <2>3. rest = CASE req.kind = "joined"   -> <<"add", "count">>
                 [] req.kind = "promoted" -> <<"count", "cancel">>
                 [] req.kind = "peeked"   -> <<"add", "enqueue">>
    BY DEF SideEffects
  <2> HIDE DEF rest
  <2>4. {"add", "count", "cancel", "enqueue"} \subseteq Steps
    BY DEF Steps
  <2>5. rest \in Seq(Steps) /\ Head(rest) = IF req.kind = "promoted" THEN "count" ELSE "add"
    BY <2>1, <2>3, <2>4, Lists
  <2>6. /\ new \in Request /\ new.op = req.op /\ new.user = u /\ new.todo = rest
    BY <2>1, <2>5 DEF Request
  <2> HIDE DEF new
  <2>7. (Owes(req) <=> req.op = "join") /\ (Owes(new) <=> req.op = "join")
    <3>1. Owes(req) <=> req.op = "join"
      BY <1>2, <2>1, Debts
    <3>2. CASE req.kind = "joined" \/ req.kind = "promoted"
      BY <2>1, <2>3, <2>6, <3>1, <3>2 DEF Owes
    <3>3. CASE req.kind = "peeked"
      BY <2>1, <2>3, <2>6, <3>1, <3>3 DEF Owes
    <3> QED
      BY <2>1, <3>1, <3>2, <3>3
  <2>8. Doing(Head(rest), new, Standing(part'[u]), u \in channel')
    BY <2>1, <2>2, <2>3, <2>4, <2>5, <2>6 DEF Doing
  <2> QED
    BY <2>1, <2>2, <2>6, <2>7, <2>8, CalmGoOn
<1> QED
  BY <1>3, <1>4, <1>5

\* The calls with which a join or peek takes its place.
LEMMA CalmJoin ==
  ASSUME CalmInv, PartInv', NEW r \in Reqs,
         AddMember(r) \/ AddCount(r) \/ CancelPeekJobs(r) \/ EnqueuePeekJob(r)
  PROVE  CalmInv'
<1> DEFINE req == reqs[r]
           u == req.user
           st == Standing(part[u])
           member == u \in channel
<1> USE DEF AllOps
<1>1. ASSUME NEW call, At(r, call)
      PROVE  /\ req \in Request /\ u \in Users /\ Doing(call, req, st, member)
             /\ channel \subseteq Users
  BY <1>1, CallKnown DEF CalmInv, PartInv, TypeOK
<1>2. {"add", "count", "cancel", "enqueue"} \subseteq Steps
  BY DEF Steps
<1>3. CASE AddMember(r)
  <2>1. /\ At(r, "add") /\ ~ member /\ req \in Request /\ u \in Users
        /\ \/ req.op = "join" /\ req.todo = <<"add", "count">> /\ st = "participant"
           \/ req.op = "peek" /\ req.todo = <<"add", "enqueue">> /\ st = "peeker"
    BY <1>1, <1>3 DEF AddMember, Doing
  <2>2. /\ Advance(r) /\ part' = part /\ channel' = channel \cup {u}
        /\ count' = count /\ lost' = lost
    BY <1>3 DEF AddMember, event
  <2> DEFINE next == IF req.op = "join" THEN "count" ELSE "enqueue"
             new == [req EXCEPT !.todo = <<next>>]
  <2>3. /\ Len(req.todo) # 1 /\ Tail(req.todo) = <<next>> /\ <<next>> \in Seq(Steps)
        /\ Head(<<next>>) = next /\ next \in Steps
    <3>1. req.todo = <<"add", next>> /\ next \in Steps /\ "add" \in Steps
      BY <1>2, <2>1
    <3> HIDE DEF next
    <3> QED
      BY <3>1, Lists
  <2>4. /\ new.op = req.op /\ new.user = u /\ new.todo = <<next>>
    BY <2>1 DEF Request
  <2>5. /\ Owes(req) <=> req.op = "join"
        /\ Owes(new) <=> req.op = "join"
    <3>1. CASE req.op = "join"
      BY <2>1, <2>4, <3>1 DEF Owes
    <3>2. CASE req.op = "peek"
      BY <2>1, <2>4, <3>2 DEF Owes
    <3> QED
      BY <2>1, <3>1, <3>2
  <2>6. Doing(next, new, Standing(part'[u]), u \in channel')
    BY <2>1, <2>2, <2>3, <2>4 DEF Doing
  <2> QED
    BY <2>1, <2>2, <2>3, <2>4, <2>5, <2>6, CalmAdvance
<1>4. CASE AddCount(r)
  <2>1. /\ At(r, "count") /\ req \in Request /\ u \in Users
        /\ \/ req.op = "join" /\ req.todo \in {<<"count">>, <<"count", "cancel">>}
                /\ st = "participant" /\ member
           \/ req.op \in {"leave", "remove"} /\ req.todo = <<"count">> /\ st = "out" /\ ~ member
    BY <1>1, <1>4 DEF AddCount, Doing
  <2>2. /\ Advance(r) /\ part' = part /\ channel' = channel /\ lost' = lost
        /\ count' = count + (IF req.op = "join" THEN 1 ELSE -1)
    BY <1>4, <2>1 DEF AddCount, Delta, event
  <2>3. count \in Int
    BY DEF CalmInv, PartInv, TypeOK
  <2>4. CASE req.todo = <<"count">>
    <3>1. Owes(req) /\ End(r)
      BY <1>2, <2>1, <2>2, <2>4, Lists DEF Advance, Owes
    <3>2. Placed(st, member)
      BY <2>1 DEF Placed
    <3>3. \/ count' = count + 1 /\ st = "participant"
          \/ count' = count - 1 /\ st = "out"
      BY <2>1, <2>2, <2>3
    <3> QED
      BY <2>1, <2>2, <3>1, <3>2, <3>3, CalmEnd
  <2>5. CASE req.op = "join" /\ req.todo = <<"count", "cancel">>
    <3> DEFINE new == [req EXCEPT !.todo = <<"cancel">>]
    <3>1. /\ Len(req.todo) # 1 /\ Tail(req.todo) = <<"cancel">> /\ <<"cancel">> \in Seq(Steps)
          /\ Head(<<"cancel">>) = "cancel"
      BY <1>2, <2>5, Lists
    <3>2. /\ new.op = req.op /\ new.user = u /\ new.todo = <<"cancel">>
      BY <2>1 DEF Request
    <3>3. Owes(req) /\ ~ Owes(new)
      BY <1>2, <2>5, <3>2, Debts DEF Owes
    <3>4. Doing("cancel", new, Standing(part'[u]), u \in channel')
      BY <1>2, <2>1, <2>2, <2>5, <3>2 DEF Doing
    <3> QED
      BY <2>1, <2>2, <2>5, <3>1, <3>2, <3>3, <3>4, CalmAdvance
  <2> QED
    BY <2>1, <2>4, <2>5
<1>5. CASE CancelPeekJobs(r) \/ EnqueuePeekJob(r)
  <2>1. PICK call \in {"cancel", "enqueue"} : At(r, call)
    BY <1>5 DEF CancelPeekJobs, EnqueuePeekJob
  <2>2. /\ req.todo = <<call>> /\ Placed(st, member) /\ req.op \in {"join", "peek"}
    BY <1>1, <2>1 DEF Doing, Placed
  <2>3. /\ Advance(r) /\ part' = part /\ channel' = channel /\ lost' = lost /\ count' = count
    BY <1>5 DEF CancelPeekJobs, EnqueuePeekJob, event
  <2>4. End(r) /\ ~ Owes(req)
    BY <1>2, <2>1, <2>2, <2>3, Lists, Debts DEF Advance
  <2> QED
    BY <2>1, <2>2, <2>3, <2>4, CalmEnd
<1> QED
  BY <1>3, <1>4, <1>5

\* The reads with which a user's place is given up.
LEMMA CalmLook ==
  ASSUME CalmInv, PartInv', NEW r \in Reqs, ReadToDetach(r) \/ CheckExpiry(r)
  PROVE  CalmInv'
<1> DEFINE req == reqs[r]
           u == req.user
           st == Standing(part[u])
           member == u \in channel
<1> USE DEF AllOps
<1>1. PICK call \in {"read", "check"} :
        /\ At(r, call) /\ req \in Request /\ u \in Users /\ part[u] \in PartRecord
        /\ req.op \in {"leave", "remove", "expire"} /\ (call = "check" <=> req.op = "expire")
        /\ req.todo = <<call>> /\ Placed(st, member)
  <2>1. PICK call \in {"read", "check"} :
          At(r, call) /\ (call = "read" => req.op \in {"leave", "remove"})
    BY DEF ReadToDetach, CheckExpiry
  <2>2. /\ req \in Request /\ u \in Users /\ part[u] \in PartRecord
        /\ Doing(call, req, st, member)
    BY <2>1, CallKnown
  <2> QED
    BY <2>1, <2>2 DEF Doing
<1>2. part' = part /\ channel' = channel /\ count' = count /\ lost' = lost
  BY DEF ReadToDetach, CheckExpiry, event
<1>3. {"read", "check", "remove", "status", "count", "finish", "postpone"} \subseteq Steps
  BY DEF Steps
<1>4. ~ Owes(req)
  BY <1>1, <1>3, Debts
<1>5. ASSUME NEW todo \in Seq(Steps), ~ (req.op = "join"),
             reqs' = [reqs EXCEPT ![r].snap = part[u], ![r].todo = todo],
             todo # <<"count">>,
             \A new : new.op = req.op /\ new.todo = todo =>
                        Doing(Head(todo), new, st, member)
      PROVE  CalmInv'
  <2> DEFINE new == [req EXCEPT !.snap = part[u], !.todo = todo]
  <2>1. /\ new \in Request /\ new.op = req.op /\ new.user = u /\ new.todo = todo
    BY <1>1, <1>5 DEF Request
  <2>2. reqs' = [reqs EXCEPT ![r] = new]
    BY <1>5
  <2> HIDE DEF new
  <2>3. ~ Owes(new)
    BY <1>5, <2>1 DEF Owes
  <2>4. Doing(Head(new.todo), new, Standing(part'[u]), u \in channel')
    BY <1>2, <1>5, <2>1
  <2> QED
    BY <1>1, <1>2, <1>4, <2>1, <2>2, <2>3, <2>4, CalmGoOn
<1>6. CASE IsActive(part[u]) /\ reqs' = [reqs EXCEPT ![r].snap = part[u],
                                                     ![r].todo = Detachment(req.op, part[u])]
                             /\ (req.op = "expire" => part[u].role = "peeker")
  <2> DEFINE todo == Detachment(req.op, part[u])
  <2>1. st \in {"participant", "peeker"} /\ part[u].role = st /\ member
    BY <1>1, <1>6 DEF Standing, Placed, PartRecord, Roles
  <2>2. todo = IF st = "participant" THEN <<"remove", "status", "count">>
               ELSE IF req.op = "expire" THEN <<"remove", "status", "finish">>
               ELSE <<"remove", "status">>
    BY <1>1, <1>6, <2>1, Detaching
  <2> HIDE DEF todo
  <2>3. todo \in Seq(Steps) /\ Head(todo) = "remove"
    BY <1>3, <2>2, Lists
  <2>4. todo # <<"count">>
    BY <2>2
  <2>5. ASSUME NEW new, new.op = req.op, new.todo = todo
        PROVE  Doing("remove", new, st, member)
    BY <1>1, <1>3, <1>6, <2>1, <2>2, <2>5 DEF Doing
  <2> QED
    BY <1>1, <1>5, <1>6, <2>3, <2>4, <2>5 DEF todo
<1>7. CASE req.op \in {"leave", "remove"} /\ End(r)
  BY <1>1, <1>2, <1>4, <1>7, CalmEnd
<1>8. CASE req.op = "expire" /\ \E last \in {"postpone", "finish"} :
             reqs' = [reqs EXCEPT ![r].snap = part[u], ![r].todo = <<last>>]
  <2>1. PICK next \in {"postpone", "finish"} :
               reqs' = [reqs EXCEPT ![r].snap = part[u], ![r].todo = <<next>>]
    BY <1>8
  <2>2. <<next>> \in Seq(Steps) /\ Head(<<next>>) = next /\ next \in Steps
    BY <1>3, Lists
  <2>3. <<next>> # <<"count">>
    OBVIOUS
  <2>4. ASSUME NEW new, new.op = req.op, new.todo = <<next>>
        PROVE  Doing(next, new, st, member)
    BY <1>1, <1>8, <2>2, <2>4 DEF Doing
  <2> QED
    BY <1>5, <1>8, <2>1, <2>2, <2>3, <2>4
<1> QED
  <2>1. CASE ReadToDetach(r)
    BY <1>1, <1>6, <1>7, <2>1 DEF ReadToDetach
  <2>2. CASE CheckExpiry(r)
    <3>1. At(r, "check") /\ req.op = "expire"
      <4>1. At(r, "check") /\ Doing("check", req, st, member)
        BY <2>2, CallKnown DEF CheckExpiry
      <4> QED
        BY <4>1 DEF Doing
    <3> QED
      BY <1>6, <1>8, <2>2, <3>1 DEF CheckExpiry, ActivePeeker
  <2> QED
    BY <2>1, <2>2

\* The calls with which it is given up.
LEMMA CalmDetach ==
  ASSUME CalmInv, PartInv', NEW r \in Reqs, RemoveMember(r) \/ SetStatus(r)
  PROVE  CalmInv'
<1> DEFINE req == reqs[r]
           u == req.user
           st == Standing(part[u])
           member == u \in channel
<1> USE DEF AllOps
<1>1. ASSUME NEW call, At(r, call)
      PROVE  /\ req \in Request /\ u \in Users /\ Doing(call, req, st, member)
             /\ part \in [Users -> PartRecord] /\ part[u] \in PartRecord
  BY <1>1, CallKnown
<1>2. {"remove", "status", "count", "finish"} \subseteq Steps
  BY DEF Steps
<1>3. CASE RemoveMember(r)
  <2>1. /\ At(r, "remove") /\ member /\ req \in Request /\ u \in Users
        /\ \/ req.op \in {"leave", "remove"} /\ req.todo = <<"remove", "status", "count">>
                /\ st = "participant"
           \/ req.op \in {"leave", "remove"} /\ req.todo = <<"remove", "status">>
                /\ st = "peeker"
           \/ req.op = "expire" /\ req.todo = <<"remove", "status", "finish">> /\ st = "peeker"
    BY <1>1, <1>3 DEF RemoveMember, Doing
  <2>2. /\ Advance(r) /\ part' = part /\ channel' = channel \ {u}
        /\ count' = count /\ lost' = lost
    BY <1>3 DEF RemoveMember, event
  <2>3. PICK rest \in Seq(Steps) :
          /\ Len(req.todo) # 1 /\ Tail(req.todo) = rest /\ Head(rest) = "status"
          /\ rest # <<"count">>
          /\ \/ req.op \in {"leave", "remove"} /\ rest = <<"status", "count">>
                  /\ st = "participant"
             \/ req.op \in {"leave", "remove"} /\ rest = <<"status">> /\ st = "peeker"
             \/ req.op = "expire" /\ rest = <<"status", "finish">> /\ st = "peeker"
    <3>1. CASE req.todo = <<"remove", "status", "count">>
      <4>1. /\ Len(req.todo) # 1 /\ Tail(req.todo) = <<"status", "count">> /\ Head(<<"status", "count">>) = "status"
            /\ <<"status", "count">> \in Seq(Steps)
        BY <1>2, <3>1, Lists
      <4>2. <<"status", "count">> # <<"count">>
        BY <1>2, <4>1, Lists
      <4>3. req.op \in {"leave", "remove"} /\ st = "participant"
        BY <1>2, <2>1, <3>1, <4>1, Lists
      <4> <<"status", "count">> \in Seq(Steps)
        BY <4>1
      <4> WITNESS <<"status", "count">> \in Seq(Steps)
      <4> QED
        BY <4>1, <4>2, <4>3
    <3>2. CASE req.todo = <<"remove", "status">>
      <4>1. /\ Len(req.todo) # 1 /\ Tail(req.todo) = <<"status">> /\ Head(<<"status">>) = "status"
            /\ <<"status">> \in Seq(Steps)
        BY <1>2, <3>2, Lists
      <4>2. <<"status">> # <<"count">>
        BY <1>2, <4>1, Lists
      <4>3. req.op \in {"leave", "remove"} /\ st = "peeker"
        BY <1>2, <2>1, <3>2, <4>1, Lists
      <4> <<"status">> \in Seq(Steps)
        BY <4>1
      <4> WITNESS <<"status">> \in Seq(Steps)
      <4> QED
        BY <4>1, <4>2, <4>3
    <3>3. CASE req.todo = <<"remove", "status", "finish">>
      <4>1. /\ Len(req.todo) # 1 /\ Tail(req.todo) = <<"status", "finish">> /\ Head(<<"status", "finish">>) = "status"
            /\ <<"status", "finish">> \in Seq(Steps)
        BY <1>2, <3>3, Lists
      <4>2. <<"status", "finish">> # <<"count">>
        BY <1>2, <4>1, Lists
      <4>3. req.op = "expire" /\ st = "peeker"
        BY <1>2, <2>1, <3>3, <4>1, Lists
      <4> <<"status", "finish">> \in Seq(Steps)
        BY <4>1
      <4> WITNESS <<"status", "finish">> \in Seq(Steps)
      <4> QED
        BY <4>1, <4>2, <4>3
    <3> QED
      BY <2>1, <3>1, <3>2, <3>3
  <2> DEFINE new == [req EXCEPT !.todo = rest]
  <2>4. new.op = req.op /\ new.user = u /\ new.todo = rest
    BY <2>1 DEF Request
  <2>5. ~ Owes(req) /\ ~ Owes(new)
    <3>1. req.op # "join"
      BY <2>1
    <3>2. req.todo # <<"count">>
      BY <1>2, <2>3, Lists
    <3> QED
      BY <2>3, <2>4, <3>1, <3>2 DEF Owes
  <2>6. Doing("status", new, Standing(part'[u]), u \in channel')
    BY <1>2, <2>1, <2>2, <2>3, <2>4 DEF Doing
  <2> QED
    BY <2>1, <2>2, <2>3, <2>4, <2>5, <2>6, CalmAdvance
<1>4. CASE SetStatus(r)
  <2>1. /\ At(r, "status") /\ ~ member /\ req \in Request /\ u \in Users
        /\ \/ req.op \in {"leave", "remove"} /\ req.todo = <<"status", "count">>
                /\ st = "participant"
           \/ req.op \in {"leave", "remove"} /\ req.todo = <<"status">> /\ st = "peeker"
           \/ req.op = "expire" /\ req.todo = <<"status", "finish">> /\ st = "peeker"
        /\ part \in [Users -> PartRecord] /\ part[u] \in PartRecord
    BY <1>1, <1>4 DEF SetStatus, Doing
  <2>2. /\ Advance(r) /\ channel' = channel /\ count' = count /\ lost' = lost
        /\ part' = [part EXCEPT ![u].status = DetachedStatus(req.op), ![u].expires = NoExpiry]
    BY <1>4 DEF SetStatus, event
  <2>3. Standing(part'[u]) = "out" /\ \A v \in Users \ {u} : part'[v] = part[v]
    <3>1. DetachedStatus(req.op) # "active"
      BY <2>1 DEF DetachedStatus
    <3>2. part'[u].status = DetachedStatus(req.op) /\ \A v \in Users \ {u} : part'[v] = part[v]
      BY <2>1, <2>2 DEF PartRecord
    <3> QED
      BY <3>1, <3>2 DEF Standing, IsActive
  <2>4. ~ Owes(req)
    <3>1. req.op # "join"
      BY <2>1
    <3>2. req.todo # <<"count">>
      BY <1>2, <2>1, Lists
    <3> QED
      BY <3>1, <3>2 DEF Owes
  <2>5. CASE req.todo = <<"status">>
    <3>1. End(r)
      BY <1>2, <2>2, <2>5, Lists DEF Advance
    <3>2. st = "peeker" /\ Placed(Standing(part'[u]), u \in channel')
      <4>1. <<"status">> # <<"status", "count">> /\ <<"status">> # <<"status", "finish">>
        BY <1>2, Lists
      <4> QED
        BY <2>1, <2>2, <2>3, <2>5, <4>1 DEF Placed
    <3> QED
      BY <2>1, <2>2, <2>3, <2>4, <3>1, <3>2, CalmEnd
  <2>6. CASE \E s \in {"count", "finish"} : req.todo = <<"status", s>>
    <3>1. PICK s \in {"count", "finish"} :
            /\ req.todo = <<"status", s>> /\ (s = "count" <=> req.op \in {"leave", "remove"})
            /\ req.op \in {"leave", "remove", "expire"}
            /\ s = "count" <=> st = "participant"
      <4>1. <<"status">> # <<"status", "count">> /\ <<"status">> # <<"status", "finish">>
            /\ <<"status", "count">> # <<"status", "finish">>
        BY <1>2, Lists
      <4> QED
        BY <2>1, <2>6, <4>1
    <3> DEFINE new == [req EXCEPT !.todo = <<s>>]
    <3>2. /\ Len(req.todo) # 1 /\ Tail(req.todo) = <<s>> /\ <<s>> \in Seq(Steps)
          /\ Head(<<s>>) = s /\ s \in Steps
      BY <1>2, <3>1, Lists
    <3>3. new.op = req.op /\ new.user = u /\ new.todo = <<s>>
      BY <2>1 DEF Request
    <3>4. Owes(new) <=> s = "count"
      <4>1. Owes(new) <=> \/ req.op = "join" /\ s \in {"after", "count"}
                          \/ req.op \in {"leave", "remove"} /\ s = "count"
        BY <3>2, <3>3, Debts
      <4> QED
        BY <3>1, <4>1
    <3>5. Doing(s, new, Standing(part'[u]), u \in channel')
      BY <2>1, <2>2, <2>3, <3>1, <3>2, <3>3 DEF Doing, Placed
    <3>6. (st = "participant" <=> Owes(req))
            <=> (Standing(part'[u]) = "participant" <=> Owes(new))
      BY <2>3, <2>4, <3>1, <3>4
    <3> QED
      BY <2>1, <2>2, <2>3, <3>2, <3>3, <3>5, <3>6, CalmAdvance
  <2> QED
    BY <2>1, <2>5, <2>6
<1> QED
  BY <1>3, <1>4

LEMMA CalmRequest ==
  ASSUME CalmInv, PartInv', NEW r \in Reqs, Step(r)
  PROVE  CalmInv'
<1>1. ~ ChannelLost(r)
  BY DEF ChannelLost, CalmInv
<1>2. CASE PostponePeekJob(r) \/ FinishPeekJob(r)
  <2> DEFINE req == reqs[r]
  <2>1. PICK call \in {"postpone", "finish"} : At(r, call)
    BY <1>2 DEF PostponePeekJob, FinishPeekJob
  <2>2. /\ req.op = "expire" /\ req.user \in Users
        /\ Placed(Standing(part[req.user]), req.user \in channel)
    BY <2>1, CallKnown DEF Doing
  <2>3. /\ End(r) /\ part' = part /\ channel' = channel /\ count' = count /\ lost' = lost
    BY <1>2 DEF PostponePeekJob, FinishPeekJob, event
  <2>4. ~ Owes(req)
    BY <2>2 DEF Owes
  <2> QED
    BY <2>1, <2>2, <2>3, <2>4, CalmEnd
<1> QED
  BY <1>1, <1>2, CalmApply, CalmJoin, CalmLook, CalmDetach DEF Step

LEMMA CalmNext ==
  ASSUME CalmInv, PartInv', Undisturbed, [Next]_vars
  PROVE  CalmInv'
<1>1. ASSUME NEW r \in Reqs, NEW u \in Users, NEW n \in 1..MaxRequests, RunPeekJob(r, u, n)
      PROVE  CalmInv'
  <2> DEFINE new == [Idle EXCEPT !.op = "expire", !.user = u, !.peeks = n, !.todo = <<"check">>]
  <2>1. /\ reqs[r] = Idle /\ Free(u) /\ reqs' = [reqs EXCEPT ![r] = new]
        /\ part' = part /\ count' = count /\ channel' = channel /\ lost' = lost
    BY <1>1 DEF RunPeekJob, event
  <2>2. <<"check">> \in Seq(Steps)
    BY DEF Steps
  <2>3. MaxRequests \in Nat
    BY NumbersAssumption
  <2>4. new \in Request /\ new.op = "expire" /\ new.user = u /\ new.todo = <<"check">>
    <3>1. Idle \in Request /\ n \in 0..MaxRequests
      BY <2>3, IdleLemma
    <3> QED
      BY <2>2, <3>1 DEF Request
  <2> HIDE DEF new
  <2>5. \/ new.op \in AllOps /\ new.todo = <<"read">> /\ new.settled = "none"
        \/ new.op = "expire" /\ new.todo = <<"check">>
    BY <2>4
  <2> QED
    BY <2>1, <2>4, <2>5, CalmBegin
<1>2. ASSUME NEW r \in Reqs, NEW op \in AllOps, NEW u \in Users, Call(r, op, u)
      PROVE  CalmInv'
  <2> DEFINE new == [Idle EXCEPT !.op = op, !.user = u, !.todo = <<"read">>]
  <2>1. /\ reqs[r] = Idle /\ Free(u) /\ reqs' = [reqs EXCEPT ![r] = new]
        /\ part' = part /\ count' = count /\ channel' = channel /\ lost' = lost
    BY <1>2 DEF Call, event
  <2>2. <<"read">> \in Seq(Steps)
    BY DEF Steps
  <2>3. /\ new \in Request /\ new.op = op /\ new.user = u /\ new.todo = <<"read">>
        /\ new.settled = "none"
    BY <2>2, IdleLemma DEF Request, Idle
  <2> HIDE DEF new
  <2>4. \/ new.op \in AllOps /\ new.todo = <<"read">> /\ new.settled = "none"
        \/ new.op = "expire" /\ new.todo = <<"check">>
    BY <2>3
  <2> QED
    BY <2>1, <2>3, <2>4, CalmBegin
<1>3. ~ LoseChannel
  BY DEF LoseChannel, Undisturbed
<1>4. ASSUME NEW r \in Reqs PROVE ~ Abort(r)
  BY DEF Abort, Undisturbed
<1>5. CASE Close \/ UNCHANGED vars
  <2>1. /\ part' = part /\ channel' = channel /\ count' = count /\ reqs' = reqs /\ lost' = lost
    BY <1>5 DEF Close, CloseEvent, vars
  <2>2. Counted' = Counted
    BY <2>1 DEF Counted, Serves
  <2> QED
    BY <2>1, <2>2 DEF CalmInv, Serves
<1>6. CASE Tick
  <2>1. /\ channel' = channel /\ count' = count /\ lost' = lost
        /\ \A u \in Users : part'[u].role = part[u].role /\ part'[u].status = part[u].status
    BY <1>6 DEF Tick, event, CalmInv, PartInv, TypeOK, PartRecord
  <2>2. \A r \in Reqs : /\ reqs'[r].op = reqs[r].op /\ reqs'[r].user = reqs[r].user
                        /\ reqs'[r].todo = reqs[r].todo /\ reqs'[r].kind = reqs[r].kind
                        /\ reqs'[r].settled = reqs[r].settled /\ reqs[r].user \in Users
    BY <1>6 DEF Tick, CalmInv, PartInv, TypeOK, Request
  <2>3. \A u \in Users : Standing(part'[u]) = Standing(part[u])
    BY <2>1 DEF Standing, IsActive
  <2>4. \A r \in Reqs : /\ Owes(reqs'[r]) <=> Owes(reqs[r])
                        /\ \A u \in Users : Serves(r, u)' <=> Serves(r, u)
    BY <2>2 DEF Owes, Serves
  <2>5. Counted' = Counted
    BY <2>3, <2>4 DEF Counted
  <2>6. ASSUME NEW r \in Reqs
        PROVE  IF reqs'[r].op = "none" THEN reqs'[r].todo = << >>
               ELSE Doing(Head(reqs'[r].todo), reqs'[r], Standing(part'[reqs'[r].user]),
                          reqs'[r].user \in channel')
    <3>1. CASE reqs[r].op = "none"
      BY <2>2, <3>1 DEF CalmInv
    <3>2. CASE reqs[r].op # "none"
      <4>1. Doing(Head(reqs[r].todo), reqs[r], Standing(part[reqs[r].user]),
                  reqs[r].user \in channel)
        BY <3>2 DEF CalmInv
      <4>2. Standing(part'[reqs'[r].user]) = Standing(part[reqs[r].user])
            /\ (reqs'[r].user \in channel' <=> reqs[r].user \in channel)
        BY <2>1, <2>2, <2>3
      <4> QED
        BY <2>2, <3>2, <4>1, <4>2 DEF Doing, Placed
    <3> QED
      BY <3>1, <3>2
  <2> QED
    BY <2>1, <2>3, <2>4, <2>5, <2>6 DEF CalmInv, Placed
<1> QED
  BY <1>1, <1>2, <1>3, <1>4, <1>5, <1>6, CalmRequest DEF Next

LEMMA CalmInit == Init => CalmInv
<1> SUFFICES ASSUME Init PROVE CalmInv
  OBVIOUS
<1>1. /\ \A r \in Reqs : reqs[r] = Idle
      /\ Idle.op = "none" /\ Idle.todo = << >>
  BY IdleLemma DEF Init, Idle
<1>2. \A u \in Users : /\ Placed(Standing(part[u]), u \in channel)
                       /\ Standing(part[u]) = "participant" <=> u = Organizer
  BY DEF Init, NoPart, IsActive, Standing, Placed
<1>3. Counted = {Organizer}
  BY <1>1, <1>2, PartiesAssumption DEF Counted, Serves
<1>4. count = Cardinality(Counted)
  BY <1>3, FS_Singleton DEF Init
<1>5. ~ lost
  BY DEF Init
<1> QED
  BY <1>1, <1>2, <1>4, <1>5, InitInv DEF CalmInv, Serves

THEOREM CalmInvariance ==
  ASSUME Undisturbed
  PROVE  Spec => []CalmInv
<1>1. CalmInv /\ [Next]_vars => CalmInv'
  BY NextInv, CalmNext DEF CalmInv
<1> QED
  BY CalmInit, <1>1, PTL DEF Spec

\* docs/04 section 2.3, participation.go:42: whenever no request is under way,
\* participantCount is the number of participants, if the requests for a user,
\* the expiry of the user's peek included, came one after another and each did all
\* of its calls.
THEOREM CountRight ==
  ASSUME Undisturbed
  PROVE  Spec => []CountMatches
<1>1. CalmInv => CountMatches
  <2> SUFFICES ASSUME CalmInv, Quiescent PROVE count = Cardinality(ActiveParticipants)
    BY DEF CountMatches
  <2>1. \A u \in Users : Standing(part[u]) = "participant" <=> ActiveParticipant(part[u])
    BY DEF Standing, ActiveParticipant
  <2>2. Counted = ActiveParticipants
    BY <2>1 DEF Counted, ActiveParticipants, Serves, Quiescent
  <2> QED
    BY <2>2 DEF CalmInv
<1> QED
  BY CalmInvariance, <1>1, PTL

\* domain/participation.go:90: whoever takes part or peeks then has a place in the
\* channel.
THEOREM ActivePlaced ==
  ASSUME Undisturbed
  PROVE  Spec => []ActiveIsMember
<1>1. CalmInv => ActiveIsMember
  BY DEF CalmInv, PartInv, TypeOK, PartRecord, Roles, ActiveIsMember, Quiescent, Serves,
         Placed, Standing
<1> QED
  BY CalmInvariance, <1>1, PTL

\* participation.go:221-301: and nobody else has one, after leaving, removal and
\* the end of a peek.
THEOREM PlacedActive ==
  ASSUME Undisturbed
  PROVE  Spec => []MemberIsActive
<1>1. CalmInv => MemberIsActive
  BY DEF CalmInv, PartInv, TypeOK, MemberIsActive, Quiescent, Serves, Placed, Standing
<1> QED
  BY CalmInvariance, <1>1, PTL

-----------------------------------------------------------------------------
(* The job of every peek, while no "peek" is cut short.                    *)

\* The calls that are ahead of a request, where the jobs depend on them.
CallsAhead(req) ==
  /\ req.op = "join" => req.kind # "peeked" /\ req.todo \in Seq(Steps \ {"enqueue"})
  /\ req.op = "peek" =>
       \/ req.todo = <<"read">> /\ req.settled = "none"
       \/ /\ req.kind = "peeked"
          /\ req.todo \in {<<"upsert">>, <<"after">>, <<"add", "enqueue">>, <<"enqueue">>}
  /\ req.op = "expire" =>
       req.todo \in {<<"check">>, <<"postpone">>, <<"remove", "status", "finish">>,
                     <<"status", "finish">>, <<"finish">>}

\* A peek that will enqueue a job, or a run of a job that will end the peek or
\* postpone the job.
WillEnqueue(req, u) ==
  /\ req.op = "peek" /\ req.user = u
  /\ \/ req.todo = <<"after">> /\ req.settled = "peeked"
     \/ /\ req.todo \in {<<"add", "enqueue">>, <<"enqueue">>}
        /\ req.snap.expires # NoExpiry
        /\ peekJobs[<<u, req.snap.peeks>>].status = "absent"

WillExpire(req, u) ==
  /\ req.op = "expire" /\ req.user = u
  /\ req.todo \in {<<"check">>, <<"postpone">>, <<"remove", "status", "finish">>,
                   <<"status", "finish">>}

\* A job that will be taken up: pending, or left behind as running.
Waiting(u, n) ==
  \/ peekJobs[<<u, n>>].status = "pending"
  \/ peekJobs[<<u, n>>].status = "running" /\ \A q \in Reqs : ~ Runs(q, u, n)

SeenTo(u) ==
  \/ \E n \in 1..MaxRequests : Waiting(u, n)
  \/ \E r \in Reqs : WillEnqueue(reqs[r], u) \/ WillExpire(reqs[r], u)

\* Nothing more is done by the job of a peek that is over.
Over(u, n) ==
  \/ peekJobs[<<u, n>>].status = "done"
  \/ \E r \in Reqs : Runs(r, u, n) /\ reqs[r].todo = <<"finish">>

\* A job is run by one request at most, and is running then.
RunsMatch ==
  /\ \A r \in Reqs, u \in Users, n \in 1..MaxRequests :
       Runs(r, u, n) => peekJobs[<<u, n>>].status = "running"
  /\ \A q, r \in Reqs : \A u \in Users : \A n \in 1..MaxRequests :
       Runs(q, u, n) /\ Runs(r, u, n) => q = r
  /\ \A r \in Reqs : reqs[r].op = "expire" => reqs[r].peeks # 0

\* No key runs ahead of PeekCount.
KeysInOrder ==
  /\ \A u \in Users : part[u].expires # NoExpiry => part[u].peeks # 0
  /\ \A u \in Users, n \in 1..MaxRequests :
       peekJobs[<<u, n>>].status # "absent" => n <= part[u].peeks
  /\ \A r \in Reqs :
       reqs[r].op = "peek" =>
         /\ reqs[r].snap.peeks <= part[reqs[r].user].peeks
         /\ reqs[r].snap.expires # NoExpiry => reqs[r].snap.peeks # 0

\* The job of a peek that goes on is not over.
NoneOver ==
  open => \A u \in Users, n \in 1..MaxRequests :
            ActivePeeker(part[u]) /\ Over(u, n) => n < part[u].peeks

AllSeenTo ==
  open /\ ~ Canceled => \A u \in Users : ActivePeeker(part[u]) => SeenTo(u)

JobsInv ==
  /\ PartInv
  /\ \A r \in Reqs : CallsAhead(reqs[r])
  /\ RunsMatch /\ KeysInOrder /\ NoneOver /\ AllSeenTo

LEMMA PeeksLemma ==
  ASSUME JobsInv
  PROVE  \A v \in Users : /\ part[v].peeks \in Nat
                          /\ part[v].expires # NoExpiry => part[v].peeks # 0
<1>1. \A v \in Users : part[v] \in PartRecord
  BY DEF JobsInv, PartInv, TypeOK
<1>2. \A v \in Users : part[v].peeks \in Nat
  BY <1>1 DEF PartRecord
<1> QED
  BY <1>2 DEF JobsInv, KeysInOrder

LEMMA SnapsLemma ==
  ASSUME PartInv'
  PROVE  \A q \in Reqs : reqs'[q].user \in Users /\ reqs'[q].snap.peeks \in Nat
<1>1. \A q \in Reqs : reqs'[q] \in Request
  BY DEF PartInv, TypeOK
<1> QED
  BY <1>1 DEF Request, PartRecord

\* A step of one request that changes neither records nor jobs: a run stays
\* the same run and is over only when the peek is, and no peek is left without
\* somebody who will see to it.
LEMMA PlainStep ==
  ASSUME JobsInv, PartInv', NEW r \in Reqs, NEW new \in Request,
         reqs' = [reqs EXCEPT ![r] = new], part' = part, peekJobs' = peekJobs, open' = open,
         CallsAhead(new),
         \/ new.op # "expire" /\ reqs[r].op # "expire"
         \/ /\ new.op = "expire" /\ reqs[r].op = "expire"
            /\ new.user = reqs[r].user /\ new.peeks = reqs[r].peeks,
         new.op = "peek" => /\ new.snap.peeks <= part[new.user].peeks
                            /\ new.snap.expires # NoExpiry => new.snap.peeks # 0,
         new.op = "expire" /\ new.todo = <<"finish">> =>
           reqs[r].todo = <<"finish">> \/ ~ ActivePeeker(part[new.user]),
         \A u \in Users :
           /\ open /\ ~ Canceled /\ ActivePeeker(part[u])
           /\ WillEnqueue(reqs[r], u) \/ WillExpire(reqs[r], u)
           => SeenTo(u)'
  PROVE  JobsInv'
<1>1. reqs'[r] = new /\ \A q \in Reqs \ {r} : reqs'[q] = reqs[q]
  BY DEF JobsInv, PartInv, TypeOK
<1>2. \A q \in Reqs, u \in Users, n \in 1..MaxRequests : Runs(q, u, n)' <=> Runs(q, u, n)
  BY <1>1 DEF Runs
<1>3. (\A q \in Reqs : CallsAhead(reqs[q]))'
  BY <1>1 DEF JobsInv, CallsAhead
<1>4. RunsMatch'
  <2>1. \A q \in Reqs : reqs'[q].op = "expire" => reqs'[q].peeks # 0
    BY <1>1 DEF JobsInv, RunsMatch
  <2> QED
    BY <1>2, <2>1 DEF JobsInv, RunsMatch
<1>5. KeysInOrder'
  <2>1. \A q \in Reqs : reqs'[q].op = "peek" =>
          /\ reqs'[q].snap.peeks <= part[reqs'[q].user].peeks
          /\ reqs'[q].snap.expires # NoExpiry => reqs'[q].snap.peeks # 0
    BY <1>1 DEF JobsInv, KeysInOrder
  <2> QED
    BY <2>1 DEF JobsInv, KeysInOrder
<1>6. NoneOver'
  <2> SUFFICES ASSUME open, NEW u \in Users, NEW n \in 1..MaxRequests,
                      ActivePeeker(part[u]), Over(u, n)'
               PROVE  n < part[u].peeks
    BY DEF NoneOver, ActivePeeker, IsActive
  <2>1. CASE peekJobs[<<u, n>>].status = "done"
    BY <2>1 DEF JobsInv, NoneOver, Over
  <2>2. ASSUME NEW q \in Reqs, Runs(q, u, n)', reqs'[q].todo = <<"finish">>
        PROVE  n < part[u].peeks
    <3>1. Runs(q, u, n) /\ reqs[q].todo = <<"finish">>
      BY <1>1, <1>2, <2>2 DEF Runs
    <3> QED
      BY <3>1 DEF JobsInv, NoneOver, Over
  <2> QED
    BY <2>1, <2>2 DEF Over
<1>7. AllSeenTo'
  <2> SUFFICES ASSUME open, ~ Canceled, NEW u \in Users, ActivePeeker(part[u])
               PROVE  SeenTo(u)'
    BY DEF AllSeenTo, ActivePeeker, IsActive, Canceled
  <2>1. SeenTo(u)
    BY DEF JobsInv, AllSeenTo
  <2>2. ASSUME NEW q \in Reqs \ {r}, WillEnqueue(reqs[q], u) \/ WillExpire(reqs[q], u)
        PROVE  SeenTo(u)'
    <3>1. WillEnqueue(reqs[q], u)' \/ WillExpire(reqs[q], u)'
      BY <1>1, <2>2 DEF WillEnqueue, WillExpire
    <3> QED
      BY <3>1 DEF SeenTo
  <2>3. ASSUME NEW n \in 1..MaxRequests, Waiting(u, n) PROVE SeenTo(u)'
    BY <1>2, <2>3 DEF SeenTo, Waiting
  <2> QED
    BY <2>1, <2>2, <2>3 DEF SeenTo
<1> QED
  BY <1>3, <1>4, <1>5, <1>6, <1>7 DEF JobsInv

\* The calls ahead of a request at its next call.
LEMMA AheadLemma ==
  ASSUME JobsInv, NEW r \in Reqs, NEW step, At(r, step)
  PROVE  /\ reqs[r] \in Request /\ reqs[r].user \in Users
         /\ part[reqs[r].user] \in PartRecord /\ FitsRole(part[reqs[r].user])
         /\ reqs[r].op # "none" /\ step \in Remaining(reqs[r])
         /\ reqs[r].op = "join" => step # "enqueue"
         /\ reqs[r].op = "peek" =>
              /\ step \in {"read", "upsert", "after", "add", "enqueue"}
              /\ step # "read" => reqs[r].kind = "peeked"
              /\ step = "after" => reqs[r].todo = <<"after">>
              /\ step = "add" => reqs[r].todo = <<"add", "enqueue">>
              /\ step = "enqueue" => reqs[r].todo = <<"enqueue">>
              /\ step \in {"read", "upsert"} =>
                   reqs[r].todo = <<step>>
         /\ reqs[r].op = "expire" =>
              /\ step \in {"check", "postpone", "remove", "status", "finish"}
              /\ step = "remove" => reqs[r].todo = <<"remove", "status", "finish">>
              /\ step = "status" => reqs[r].todo = <<"status", "finish">>
              /\ step \in {"check", "postpone", "finish"} => reqs[r].todo = <<step>>
<1> DEFINE req == reqs[r]
<1>1. /\ req \in Request /\ req.user \in Users /\ part[req.user] \in PartRecord
      /\ FitsRole(part[req.user]) /\ step \in Remaining(req)
      /\ req.todo # << >> /\ step = Head(req.todo) /\ CallsAhead(req)
  BY AtLemma DEF JobsInv, PartInv, TypeOK, Request, At
<1>2. req.op # "none"
  BY <1>1 DEF Remaining
<1> HIDE DEF req
<1>3. /\ Head(<<"read">>) = "read" /\ Head(<<"upsert">>) = "upsert"
      /\ Head(<<"after">>) = "after" /\ Head(<<"add", "enqueue">>) = "add"
      /\ Head(<<"enqueue">>) = "enqueue" /\ Head(<<"check">>) = "check"
      /\ Head(<<"postpone">>) = "postpone" /\ Head(<<"finish">>) = "finish"
      /\ Head(<<"status", "finish">>) = "status"
      /\ Head(<<"remove", "status", "finish">>) = "remove"
  OBVIOUS
<1>4. req.op = "join" => step # "enqueue"
  BY <1>1, TodoLemma DEF CallsAhead
<1>5. req.op = "peek" =>
        /\ step \in {"read", "upsert", "after", "add", "enqueue"}
        /\ step # "read" => req.kind = "peeked"
        /\ step = "after" => req.todo = <<"after">>
        /\ step = "add" => req.todo = <<"add", "enqueue">>
        /\ step = "enqueue" => req.todo = <<"enqueue">>
        /\ step \in {"read", "upsert"} => req.todo = <<step>>
  BY <1>1, <1>3 DEF CallsAhead
<1>6. req.op = "expire" =>
        /\ step \in {"check", "postpone", "remove", "status", "finish"}
        /\ step = "remove" => req.todo = <<"remove", "status", "finish">>
        /\ step = "status" => req.todo = <<"status", "finish">>
        /\ step \in {"check", "postpone", "finish"} => req.todo = <<step>>
  BY <1>1, <1>3 DEF CallsAhead
<1> QED
  BY <1>1, <1>2, <1>4, <1>5, <1>6 DEF req

\* What advancing makes of a request: the first call is done.
LEMMA AdvanceLemma ==
  ASSUME JobsInv, NEW r \in Reqs, NEW step, At(r, step), Advance(r), reqs[r].op # "expire"
  PROVE  \E new \in Request :
           /\ reqs' = [reqs EXCEPT ![r] = new] /\ CallsAhead(new)
           /\ new.op \in {"none", reqs[r].op} /\ new.snap \in {NoPart, reqs[r].snap}
           /\ new.op # "none" => /\ new.user = reqs[r].user /\ new.snap = reqs[r].snap
                                 /\ new.todo = Tail(reqs[r].todo)
           /\ new.op = "none" => Len(reqs[r].todo) = 1
<1>1. CASE Len(reqs[r].todo) = 1
  BY <1>1, IdleLemma DEF Advance, End, CallsAhead, Idle
<1>2. CASE Len(reqs[r].todo) # 1
  <2> DEFINE new == [reqs[r] EXCEPT !.todo = Tail(@)]
  <2>1. reqs[r] \in Request /\ reqs[r].todo \in Seq(Steps) /\ reqs[r].todo # << >>
        /\ CallsAhead(reqs[r])
    BY DEF JobsInv, PartInv, TypeOK, Request, At
  <2>2. Tail(reqs[r].todo) \in Seq(Steps)
    BY <2>1, TodoLemma
  <2>3. new \in Request /\ new.todo = Tail(reqs[r].todo) /\ new.op = reqs[r].op
        /\ new.user = reqs[r].user /\ new.snap = reqs[r].snap /\ new.kind = reqs[r].kind
        /\ new.settled = reqs[r].settled
    BY <2>1, <2>2 DEF Request
  <2>4. reqs' = [reqs EXCEPT ![r] = new]
    BY <1>2 DEF Advance
  <2> HIDE DEF new
  <2>5. CallsAhead(new)
    <3>1. CASE reqs[r].op = "join"
      BY <2>1, <2>3, <3>1, TodoLemma DEF CallsAhead
    <3>2. CASE reqs[r].op = "peek"
      <4>1. reqs[r].todo = <<"add", "enqueue">> /\ reqs[r].kind = "peeked"
        <5>1. /\ Len(<<"read">>) = 1 /\ Len(<<"upsert">>) = 1
              /\ Len(<<"after">>) = 1 /\ Len(<<"enqueue">>) = 1
          OBVIOUS
        <5> QED
          BY <1>2, <2>1, <3>2, <5>1 DEF CallsAhead
      <4>2. Tail(<<"add", "enqueue">>) = <<"enqueue">>
        OBVIOUS
      <4> QED
        BY <2>3, <3>2, <4>1, <4>2 DEF CallsAhead
    <3> QED
      BY <2>3, <3>1, <3>2 DEF CallsAhead
  <2>6. reqs[r].op # "none"
    BY AheadLemma
  <2> QED
    BY <2>3, <2>4, <2>5, <2>6
<1> QED
  BY <1>1, <1>2

\* A request that is no run of a job ends, and was not the one to enqueue.
LEMMA PlainEnd ==
  ASSUME JobsInv, PartInv', NEW r \in Reqs, End(r), reqs[r].op # "expire",
         part' = part, peekJobs' = peekJobs, open' = open,
         \A u \in Users : ~ WillEnqueue(reqs[r], u)
  PROVE  JobsInv'
<1>1. Idle \in Request /\ Idle.op = "none" /\ CallsAhead(Idle)
  BY IdleLemma DEF CallsAhead
<1> QED
  BY <1>1, PlainStep DEF End, WillExpire

\* What the end of a peek does with the record of a peeker.
LEMMA DetachedPeeker ==
  ASSUME NEW p, p.role = "peeker"
  PROVE  Detachment("expire", p) = <<"remove", "status", "finish">>
<1> DEFINE s == <<"remove", "status">> \o <<"finish">>
<1>1. Detachment("expire", p) = <<"remove", "status">> \o << >> \o <<"finish">>
  BY Zenon DEF Detachment
<1>2. <<"remove", "status">> \o << >> = <<"remove", "status">>
  OBVIOUS
<1>3. s \in Seq(Steps) /\ Len(s) = 3
  BY DEF Steps
<1>4. s[1] = "remove" /\ s[2] = "status" /\ s[3] = "finish"
  OBVIOUS
<1> HIDE DEF s
<1>5. s = <<"remove", "status", "finish">>
  BY <1>3, <1>4
<1> QED
  BY <1>1, <1>2, <1>5 DEF s

LEMMA PlainSteps ==
  ASSUME JobsInv, PartInv', NEW r \in Reqs,
         \/ ReadToApply(r) \/ ReadAfter(r) \/ AddMember(r) \/ AddCount(r)
         \/ ReadToDetach(r) \/ RemoveMember(r) \/ CheckExpiry(r)
  PROVE  JobsInv'
<1> DEFINE req == reqs[r]
           u == req.user
<1>1. CASE ReadToApply(r)
  <2>1. /\ At(r, "read") /\ req.op \in {"join", "peek"} /\ req \in Request
        /\ req.op = "peek" => req.todo = <<"read">>
        /\ part[u] \in PartRecord
        /\ part' = part /\ peekJobs' = peekJobs /\ open' = open
    BY <1>1, AheadLemma DEF ReadToApply, event
  <2>2. \A v \in Users : ~ WillEnqueue(req, v)
    BY <2>1 DEF WillEnqueue
  <2>3. CASE End(r)
    BY <2>1, <2>2, <2>3, PlainEnd
  <2>4. CASE ~ End(r)
    <3> DEFINE kind == DecideTransition(part[u], req.op)
               new == [req EXCEPT !.kind = kind, !.todo = <<"upsert">>]
    <3>1. /\ kind \in Kinds /\ kind \notin {"none", "already_participant", "already_peeking"}
          /\ reqs' = [reqs EXCEPT ![r] = new]
      BY <1>1, <2>1, <2>4, DecideLemma DEF ReadToApply
    <3>2. req.op = "join" => kind # "peeked"
      BY <2>1, <3>1 DEF DecideTransition, ActiveParticipant, ActivePeeker, PartRecord, Roles
    <3>3. req.op = "peek" => kind = "peeked"
      BY <2>1, <3>1 DEF DecideTransition, ActiveParticipant, ActivePeeker, PartRecord, Roles
    <3>4. <<"upsert">> \in Seq(Steps) /\ <<"upsert">> \in Seq(Steps \ {"enqueue"})
      BY DEF Steps
    <3> HIDE DEF kind
    <3>5. /\ new \in Request /\ new.op = req.op /\ new.user = u /\ new.kind = kind
          /\ new.todo = <<"upsert">> /\ new.snap = req.snap
      BY <2>1, <3>1, <3>4 DEF Request
    <3> HIDE DEF new
    <3>6. CallsAhead(new)
      BY <2>1, <3>2, <3>3, <3>4, <3>5 DEF CallsAhead
    <3>7. new.op = "peek" => /\ new.snap.peeks <= part[new.user].peeks
                             /\ new.snap.expires # NoExpiry => new.snap.peeks # 0
      BY <3>5 DEF JobsInv, KeysInOrder
    <3>8. \A v \in Users : ~ WillExpire(req, v)
      BY <2>1 DEF WillExpire
    <3> QED
      BY <2>1, <2>2, <3>1, <3>5, <3>6, <3>7, <3>8, PlainStep
  <2> QED
    BY <2>3, <2>4
<1>2. CASE ReadAfter(r)
  <2>1. /\ At(r, "after") /\ req \in Request /\ req.op \in {"join", "peek"}
        /\ req.op = "peek" => req.kind = "peeked" /\ req.todo = <<"after">>
        /\ part[u] \in PartRecord /\ FitsRole(part[u]) /\ u \in Users
        /\ part' = part /\ peekJobs' = peekJobs /\ open' = open
    BY <1>2, AheadLemma, CallerLemma DEF ReadAfter, event
  <2>2. \A v \in Users : ~ WillExpire(req, v)
    BY <2>1 DEF WillExpire
  <2>3. CASE End(r)
    <3>1. CASE req.settled # req.kind
      <4>1. \A v \in Users : ~ WillEnqueue(req, v)
        BY <2>1, <3>1 DEF WillEnqueue
      <4> QED
        BY <2>1, <2>3, <4>1, PlainEnd
    <3>2. CASE req.settled = req.kind
      <4>1. reqs'[r].todo = SideEffects(req.kind) /\ reqs'[r].todo = << >>
        <5>1. reqs' = [reqs EXCEPT ![r].snap = part[u], ![r].todo = SideEffects(req.kind)]
              /\ reqs' = [reqs EXCEPT ![r] = Idle]
          BY <1>2, <2>3, <3>2 DEF ReadAfter, End
        <5>2. reqs'[r] = Idle /\ Idle.todo = << >>
          BY <5>1 DEF Idle, JobsInv, PartInv, TypeOK
        <5>3. reqs'[r].todo = SideEffects(req.kind)
          BY <2>1, <5>1 DEF JobsInv, PartInv, TypeOK, Request
        <5> QED
          BY <5>2, <5>3
      <4>2. req.kind \in {"joined", "promoted", "peeked"}
        BY <2>1, <3>2, AheadLemma, CallerLemma DEF JobsInv, PartInv, RequestOK, Request, Kinds
      <4>3. SideEffects(req.kind) # << >>
        BY <4>2 DEF SideEffects
      <4> QED
        BY <4>1, <4>3
    <3> QED
      BY <3>1, <3>2
  <2>4. CASE ~ End(r)
    <3> DEFINE new == [req EXCEPT !.snap = part[u], !.todo = SideEffects(req.kind)]
    <3>1. reqs' = [reqs EXCEPT ![r] = new] /\ req.settled = req.kind
      BY <1>2, <2>4 DEF ReadAfter
    <3>2. req.kind \in {"joined", "promoted", "peeked"} /\ req.settled # "none"
      BY <2>1, <3>1, AheadLemma, CallerLemma DEF JobsInv, PartInv, RequestOK, Request, Kinds
    <3>3. /\ SideEffects(req.kind) \in Seq(Steps)
          /\ req.kind # "peeked" => SideEffects(req.kind) \in Seq(Steps \ {"enqueue"})
          /\ req.kind = "peeked" => SideEffects(req.kind) = <<"add", "enqueue">>
      <4>1. /\ <<"add", "count">> \in Seq(Steps \ {"enqueue"})
            /\ <<"count", "cancel">> \in Seq(Steps \ {"enqueue"})
            /\ <<"add", "count">> \in Seq(Steps) /\ <<"count", "cancel">> \in Seq(Steps)
            /\ <<"add", "enqueue">> \in Seq(Steps)
        BY DEF Steps
      <4> QED
        BY <3>2, <4>1 DEF SideEffects
    <3>4. /\ new \in Request /\ new.op = req.op /\ new.user = u /\ new.kind = req.kind
          /\ new.todo = SideEffects(req.kind) /\ new.snap = part[u]
      BY <2>1, <3>3 DEF Request
    <3> HIDE DEF new
    <3>5. CallsAhead(new)
      <4>1. req.op = "join" => req.kind # "peeked"
        BY DEF JobsInv, CallsAhead
      <4> QED
        BY <2>1, <3>3, <3>4, <4>1 DEF CallsAhead
    <3>6. new.op = "peek" => /\ new.snap.peeks <= part[new.user].peeks
                             /\ new.snap.expires # NoExpiry => new.snap.peeks # 0
      BY <2>1, <3>4 DEF JobsInv, KeysInOrder, PartRecord
    <3>7. ASSUME NEW v \in Users, open, ~ Canceled, ActivePeeker(part[v]), WillEnqueue(req, v)
          PROVE  SeenTo(v)'
      <4> DEFINE n == part[u].peeks
                 job == peekJobs[<<u, n>>]
      <4>1. v = u /\ req.op = "peek"
        BY <3>7 DEF WillEnqueue
      <4>2. part[u].expires # NoExpiry /\ n \in 1..MaxRequests
        BY <2>1, <3>7, <4>1, NumbersAssumption
           DEF FitsRole, ActivePeeker, JobsInv, KeysInOrder, PartRecord
      <4>3. reqs'[r] = new /\ \A q \in Reqs \ {r} : reqs'[q] = reqs[q]
        BY <3>1 DEF JobsInv, PartInv, TypeOK
      <4>4. job.status \in {"absent", "pending", "running", "done", "canceled"}
        BY <2>1, <4>2 DEF JobsInv, PartInv, TypeOK, PeekJob, PeekKeys
      <4>5. job.status \notin {"canceled", "done"}
        BY <2>1, <3>7, <4>1, <4>2 DEF Canceled, PeekKeys, JobsInv, NoneOver, Over, PartRecord
      <4>6. CASE job.status = "absent"
        <5>1. WillEnqueue(reqs[r], v)'
          BY <2>1, <3>2, <3>3, <3>4, <4>1, <4>2, <4>3, <4>6 DEF WillEnqueue
        <5> QED
          BY <4>1, <5>1 DEF SeenTo
      <4>7. CASE job.status = "pending"
        BY <2>1, <4>1, <4>2, <4>7 DEF SeenTo, Waiting
      <4>8. CASE job.status = "running" /\ \A q \in Reqs : ~ Runs(q, u, n)
        <5>1. PICK m \in 1..MaxRequests : m = n
          BY <4>2
        <5>2. \A q \in Reqs : ~ Runs(q, v, m)'
          BY <2>1, <3>4, <4>1, <4>3, <4>8, <5>1 DEF Runs
        <5>3. Waiting(v, m)'
          BY <2>1, <4>1, <4>8, <5>1, <5>2 DEF Waiting
        <5> QED
          BY <5>3 DEF SeenTo
      <4>9. CASE job.status = "running" /\ \E q \in Reqs : Runs(q, u, n)
        <5>1. PICK q \in Reqs : Runs(q, u, n)
          BY <4>9
        <5>2. reqs[q].todo # <<"finish">>
          <6>1. ~ Over(u, n)
            BY <2>1, <3>7, <4>1, <4>2 DEF JobsInv, NoneOver
          <6> QED
            BY <5>1, <6>1 DEF Over
        <5>3. WillExpire(reqs[q], v) /\ q # r
          BY <4>1, <5>1, <5>2 DEF JobsInv, CallsAhead, Runs, WillExpire
        <5>4. WillExpire(reqs[q], v)'
          BY <4>3, <5>3 DEF WillExpire
        <5> QED
          BY <4>1, <5>4 DEF SeenTo
      <4> QED
        BY <4>4, <4>5, <4>6, <4>7, <4>8, <4>9
    <3> QED
      BY <2>1, <2>2, <3>1, <3>4, <3>5, <3>6, <3>7, PlainStep
  <2> QED
    BY <2>3, <2>4
<1>3. CASE AddMember(r)
  <2>1. /\ At(r, "add") /\ req \in Request /\ req.op \in {"join", "peek"}
        /\ req.op = "peek" => req.todo = <<"add", "enqueue">>
        /\ Advance(r) /\ part' = part /\ peekJobs' = peekJobs /\ open' = open
    <3>1. /\ At(r, "add") /\ req \in Request /\ "add" \in Remaining(req)
          /\ req.op = "peek" => req.todo = <<"add", "enqueue">>
      BY <1>3, AheadLemma DEF AddMember
    <3>2. req.op \in {"join", "peek"}
      BY <3>1, CallerLemma
    <3> QED
      BY <1>3, <3>1, <3>2 DEF AddMember, event
  <2>2. PICK new \in Request :
          /\ reqs' = [reqs EXCEPT ![r] = new] /\ CallsAhead(new)
          /\ new.op \in {"none", req.op} /\ new.snap \in {NoPart, req.snap}
          /\ new.op # "none" => /\ new.user = u /\ new.snap = req.snap
                                /\ new.todo = Tail(req.todo)
          /\ new.op = "none" => Len(req.todo) = 1
    BY <2>1, AdvanceLemma
  <2>3. reqs'[r] = new
    BY <2>2 DEF JobsInv, PartInv, TypeOK
  <2>4. new.op = "peek" => /\ new.snap.peeks <= part[new.user].peeks
                           /\ new.snap.expires # NoExpiry => new.snap.peeks # 0
    BY <2>1, <2>2 DEF JobsInv, KeysInOrder
  <2>5. ASSUME NEW v \in Users, WillEnqueue(req, v) PROVE SeenTo(v)'
    <3>1. Tail(<<"add", "enqueue">>) = <<"enqueue">> /\ Len(<<"add", "enqueue">>) # 1
          /\ <<"add", "enqueue">> # <<"after">>
      OBVIOUS
    <3>2. req.op = "peek" /\ req.todo = <<"add", "enqueue">>
      BY <2>1, <2>5 DEF WillEnqueue
    <3>3. new.op = "peek" /\ new.user = u /\ new.todo = <<"enqueue">> /\ new.snap = req.snap
      BY <2>2, <3>1, <3>2
    <3>4. WillEnqueue(reqs[r], v)'
      BY <2>1, <2>3, <2>5, <3>1, <3>2, <3>3 DEF WillEnqueue
    <3> QED
      BY <3>4 DEF SeenTo
  <2>6. \A v \in Users : ~ WillExpire(req, v)
    BY <2>1 DEF WillExpire
  <2> QED
    BY <2>1, <2>2, <2>4, <2>5, <2>6, PlainStep
<1>4. CASE AddCount(r)
  <2>1. /\ At(r, "count") /\ req \in Request /\ req.op \in {"join", "leave", "remove"}
        /\ Advance(r) /\ part' = part /\ peekJobs' = peekJobs /\ open' = open
    <3>1. At(r, "count") /\ req \in Request /\ req.op \notin {"none", "peek", "expire"}
      BY <1>4, AheadLemma DEF AddCount
    <3> QED
      BY <1>4, <3>1 DEF AddCount, event, Request, AllOps
  <2>2. PICK new \in Request :
          /\ reqs' = [reqs EXCEPT ![r] = new] /\ CallsAhead(new)
          /\ new.op \in {"none", req.op}
    BY <2>1, AdvanceLemma
  <2>3. \A v \in Users : ~ WillExpire(req, v) /\ ~ WillEnqueue(req, v)
    BY <2>1 DEF WillExpire, WillEnqueue
  <2> QED
    BY <2>1, <2>2, <2>3, PlainStep
<1>5. CASE ReadToDetach(r)
  <2>1. /\ At(r, "read") /\ req \in Request /\ req.op \in {"leave", "remove"}
        /\ part[u] \in PartRecord
        /\ part' = part /\ peekJobs' = peekJobs /\ open' = open
    BY <1>5, AheadLemma DEF ReadToDetach, event
  <2>2. \A v \in Users : ~ WillEnqueue(req, v) /\ ~ WillExpire(req, v)
    BY <2>1 DEF WillEnqueue, WillExpire
  <2>3. CASE End(r)
    BY <2>1, <2>2, <2>3, PlainEnd
  <2>4. CASE ~ End(r)
    <3> DEFINE new == [req EXCEPT !.snap = part[u], !.todo = Detachment(req.op, part[u])]
    <3>1. reqs' = [reqs EXCEPT ![r] = new]
      BY <1>5, <2>4 DEF ReadToDetach
    <3>2. Detachment(req.op, part[u]) \in Seq(Steps)
      <4>1. Detachment(req.op, part[u]) \in Seq({"remove", "status", "count"})
        BY <2>1, PlanLemma
      <4> QED
        BY <4>1 DEF Steps
    <3>3. new \in Request /\ new.op = req.op
      BY <2>1, <3>2 DEF Request
    <3> HIDE DEF new
    <3>4. CallsAhead(new)
      BY <2>1, <3>3 DEF CallsAhead
    <3> QED
      BY <2>1, <2>2, <3>1, <3>3, <3>4, PlainStep
  <2> QED
    BY <2>3, <2>4
<1>6. CASE RemoveMember(r)
  <2>1. /\ At(r, "remove") /\ req \in Request
        /\ req.op \in {"leave", "remove", "expire"}
        /\ req.op = "expire" => req.todo = <<"remove", "status", "finish">>
        /\ Advance(r) /\ part' = part /\ peekJobs' = peekJobs /\ open' = open
    <3>1. /\ At(r, "remove") /\ req \in Request /\ "remove" \in Remaining(req)
          /\ req.op = "expire" => req.todo = <<"remove", "status", "finish">>
      BY <1>6, AheadLemma DEF RemoveMember
    <3>2. req.op \in {"leave", "remove", "expire"}
      BY <3>1, CallerLemma
    <3> QED
      BY <1>6, <3>1, <3>2 DEF RemoveMember, event
  <2>2. \A v \in Users : ~ WillEnqueue(req, v)
    BY <2>1 DEF WillEnqueue
  <2>3. CASE req.op # "expire"
    <3>1. PICK new \in Request :
            /\ reqs' = [reqs EXCEPT ![r] = new] /\ CallsAhead(new)
            /\ new.op \in {"none", req.op}
      BY <2>1, <2>3, AdvanceLemma
    <3>2. \A v \in Users : ~ WillExpire(req, v)
      BY <2>3 DEF WillExpire
    <3> QED
      BY <2>1, <2>2, <2>3, <3>1, <3>2, PlainStep
  <2>4. CASE req.op = "expire"
    <3> DEFINE new == [req EXCEPT !.todo = <<"status", "finish">>]
    <3>1. /\ Len(<<"remove", "status", "finish">>) # 1
          /\ Tail(<<"remove", "status", "finish">>) = <<"status", "finish">>
          /\ <<"status", "finish">> # <<"finish">>
      OBVIOUS
    <3>2. reqs' = [reqs EXCEPT ![r] = new]
      BY <2>1, <2>4, <3>1 DEF Advance
    <3>3. <<"status", "finish">> \in Seq(Steps)
      BY DEF Steps
    <3>4. /\ new \in Request /\ new.op = "expire" /\ new.user = u /\ new.peeks = req.peeks
          /\ new.todo = <<"status", "finish">>
      BY <2>1, <2>4, <3>3 DEF Request
    <3> HIDE DEF new
    <3>5. CallsAhead(new)
      BY <3>4 DEF CallsAhead
    <3>6. reqs'[r] = new
      BY <3>2 DEF JobsInv, PartInv, TypeOK
    <3>7. ASSUME NEW v \in Users, WillExpire(req, v) PROVE SeenTo(v)'
      <4>1. WillExpire(reqs[r], v)'
        BY <3>4, <3>6, <3>7 DEF WillExpire
      <4> QED
        BY <4>1 DEF SeenTo
    <3> QED
      BY <2>1, <2>2, <2>4, <3>1, <3>2, <3>4, <3>5, <3>7, PlainStep
  <2> QED
    BY <2>3, <2>4
<1>7. CASE CheckExpiry(r)
  <2>1. /\ At(r, "check") /\ req \in Request /\ req.op = "expire"
        /\ part[u] \in PartRecord /\ FitsRole(part[u]) /\ u \in Users
        /\ part' = part /\ peekJobs' = peekJobs /\ open' = open
    BY <1>7, AheadLemma, CallerLemma DEF CheckExpiry, event
  <2>2. PICK todo :
          /\ reqs' = [reqs EXCEPT ![r].snap = part[u], ![r].todo = todo]
          /\ \/ todo = <<"remove", "status", "finish">>
             \/ todo = <<"postpone">>
             \/ todo = <<"finish">> /\ ~ ActivePeeker(part[u])
    <3>1. ActivePeeker(part[u]) => /\ Detachment("expire", part[u]) = <<"remove", "status", "finish">>
                                   /\ part[u].expires # NoExpiry
      BY <2>1, DetachedPeeker DEF ActivePeeker, FitsRole
    <3> QED
      BY <1>7, <3>1 DEF CheckExpiry
  <2> DEFINE new == [req EXCEPT !.snap = part[u], !.todo = todo]
  <2>3. todo \in Seq(Steps) /\ (todo = <<"finish">> => ~ ActivePeeker(part[u]))
        /\ todo \in {<<"remove", "status", "finish">>, <<"postpone">>, <<"finish">>}
    <3>1. /\ <<"remove", "status", "finish">> \in Seq(Steps) /\ <<"postpone">> \in Seq(Steps)
          /\ <<"finish">> \in Seq(Steps)
          /\ <<"remove", "status", "finish">> # <<"finish">> /\ <<"postpone">> # <<"finish">>
      BY DEF Steps
    <3> QED
      BY <2>2, <3>1
  <2>4. reqs' = [reqs EXCEPT ![r] = new]
    BY <2>2
  <2>5. /\ new \in Request /\ new.op = "expire" /\ new.user = u /\ new.peeks = req.peeks
        /\ new.todo = todo
    BY <2>1, <2>3 DEF Request
  <2> HIDE DEF new
  <2>6. CallsAhead(new) /\ reqs'[r] = new
    BY <2>3, <2>4, <2>5 DEF CallsAhead, JobsInv, PartInv, TypeOK
  <2>7. ASSUME NEW v \in Users, ActivePeeker(part[v]), WillExpire(req, v)
        PROVE  SeenTo(v)'
    <3>1. WillExpire(reqs[r], v)'
      BY <2>3, <2>5, <2>6, <2>7 DEF WillExpire
    <3> QED
      BY <3>1 DEF SeenTo
  <2>8. \A v \in Users : ~ WillEnqueue(req, v)
    BY <2>1 DEF WillEnqueue
  <2> QED
    BY <2>1, <2>3, <2>4, <2>5, <2>6, <2>7, <2>8, PlainStep
<1> QED
  BY <1>1, <1>2, <1>3, <1>4, <1>5, <1>6, <1>7

\* The parts of the invariant after a step of request r.
LEMMA SameRuns ==
  ASSUME JobsInv, NEW r \in Reqs, NEW new, reqs' = [reqs EXCEPT ![r] = new],
         CallsAhead(new),
         \/ new.op # "expire" /\ reqs[r].op # "expire"
         \/ /\ new.op = "expire" /\ reqs[r].op = "expire"
            /\ new.user = reqs[r].user /\ new.peeks = reqs[r].peeks,
         \A k \in PeekKeys : peekJobs'[k].status = "running" <=> peekJobs[k].status = "running"
  PROVE  /\ reqs'[r] = new /\ \A q \in Reqs \ {r} : reqs'[q] = reqs[q]
         /\ \A q \in Reqs, u \in Users, n \in 1..MaxRequests : Runs(q, u, n)' <=> Runs(q, u, n)
         /\ (\A q \in Reqs : CallsAhead(reqs[q]))'
         /\ RunsMatch'
<1>1. reqs'[r] = new /\ \A q \in Reqs \ {r} : reqs'[q] = reqs[q]
  BY DEF JobsInv, PartInv, TypeOK
<1>2. \A q \in Reqs, u \in Users, n \in 1..MaxRequests : Runs(q, u, n)' <=> Runs(q, u, n)
  BY <1>1 DEF Runs
<1>3. (\A q \in Reqs : CallsAhead(reqs[q]))'
  BY <1>1 DEF JobsInv, CallsAhead
<1>4. \A q \in Reqs : reqs'[q].op = "expire" => reqs'[q].peeks # 0
  BY <1>1 DEF JobsInv, RunsMatch
<1>5. \A q \in Reqs, u \in Users, n \in 1..MaxRequests :
        Runs(q, u, n)' => peekJobs'[<<u, n>>].status = "running"
  BY <1>2 DEF JobsInv, RunsMatch, PeekKeys
<1> QED
  BY <1>1, <1>2, <1>3, <1>4, <1>5 DEF JobsInv, RunsMatch

LEMMA RunEnds ==
  ASSUME JobsInv, NEW r \in Reqs, End(r), reqs[r].op = "expire",
         \A k \in PeekKeys \ {<<reqs[r].user, reqs[r].peeks>>} :
           peekJobs[k].status = "running" => peekJobs'[k].status = "running"
  PROVE  /\ \A q \in Reqs \ {r} : reqs'[q] = reqs[q]
         /\ reqs'[r] = Idle /\ Idle.op = "none"
         /\ \A q \in Reqs, u \in Users, n \in 1..MaxRequests :
              Runs(q, u, n)' <=> Runs(q, u, n) /\ q # r
         /\ (\A q \in Reqs : CallsAhead(reqs[q]))'
         /\ RunsMatch'
<1>1. /\ reqs'[r] = Idle /\ Idle.op = "none" /\ CallsAhead(Idle)
      /\ \A q \in Reqs \ {r} : reqs'[q] = reqs[q]
  BY IdleLemma DEF JobsInv, PartInv, TypeOK, End, CallsAhead
<1>2. \A q \in Reqs, u \in Users, n \in 1..MaxRequests :
        Runs(q, u, n)' <=> Runs(q, u, n) /\ q # r
  BY <1>1 DEF Runs
<1>3. (\A q \in Reqs : CallsAhead(reqs[q]))'
  BY <1>1 DEF JobsInv, CallsAhead
<1>4. \A q \in Reqs : reqs'[q].op = "expire" => reqs'[q].peeks # 0
  BY <1>1 DEF JobsInv, RunsMatch
<1>5. ASSUME NEW q \in Reqs, NEW u \in Users, NEW n \in 1..MaxRequests, Runs(q, u, n)'
      PROVE  peekJobs'[<<u, n>>].status = "running"
  <2>1. Runs(q, u, n) /\ q # r
    BY <1>2, <1>5
  <2>2. ~ Runs(r, u, n)
    BY <2>1 DEF JobsInv, RunsMatch
  <2>3. <<u, n>> \in PeekKeys \ {<<reqs[r].user, reqs[r].peeks>>}
    BY <2>2 DEF Runs, PeekKeys
  <2> QED
    BY <2>1, <2>3 DEF JobsInv, RunsMatch
<1> QED
  BY <1>1, <1>2, <1>3, <1>4, <1>5 DEF JobsInv, RunsMatch

LEMMA KeysKept ==
  ASSUME JobsInv, NEW r \in Reqs, NEW new, reqs' = [reqs EXCEPT ![r] = new],
         \A q \in Reqs : reqs'[q].user \in Users /\ reqs'[q].snap.peeks \in Nat,
         \A u \in Users : /\ part'[u].peeks \in Nat /\ part[u].peeks \in Nat
                          /\ part[u].peeks <= part'[u].peeks
                          /\ part'[u].expires # NoExpiry => part'[u].peeks # 0,
         \A u \in Users, n \in 1..MaxRequests :
           peekJobs'[<<u, n>>].status # "absent" =>
             peekJobs[<<u, n>>].status # "absent" \/ n <= part'[u].peeks,
         new.op = "peek" => /\ new.snap.peeks <= part'[new.user].peeks
                            /\ new.snap.expires # NoExpiry => new.snap.peeks # 0
  PROVE  KeysInOrder'
<1>1. reqs'[r] = new /\ \A q \in Reqs \ {r} : reqs'[q] = reqs[q]
  BY DEF JobsInv, PartInv, TypeOK
<1>2. ASSUME NEW q \in Reqs, reqs'[q].op = "peek"
      PROVE  /\ reqs'[q].snap.peeks <= part'[reqs'[q].user].peeks
             /\ reqs'[q].snap.expires # NoExpiry => reqs'[q].snap.peeks # 0
  <2>1. CASE q = r
    BY <1>1, <1>2, <2>1
  <2>2. CASE q # r
    <3>1. reqs'[q] = reqs[q] /\ reqs[q].op = "peek"
          /\ reqs[q].user \in Users /\ reqs[q].snap.peeks \in Nat
      BY <1>1, <1>2, <2>2
    <3>2. /\ reqs[q].snap.peeks <= part[reqs[q].user].peeks
          /\ reqs[q].snap.expires # NoExpiry => reqs[q].snap.peeks # 0
      BY <3>1 DEF JobsInv, KeysInOrder
    <3> QED
      BY <3>1, <3>2
  <2> QED
    BY <2>1, <2>2
<1>3. ASSUME NEW u \in Users, NEW n \in 1..MaxRequests, peekJobs'[<<u, n>>].status # "absent"
      PROVE  n <= part'[u].peeks
  <2>1. peekJobs[<<u, n>>].status # "absent" => n <= part[u].peeks
    BY DEF JobsInv, KeysInOrder
  <2> QED
    BY <1>3, <2>1
<1> QED
  BY <1>2, <1>3 DEF KeysInOrder

\* Somebody else's part in seeing to a peek is left alone.
LEMMA OthersSee ==
  ASSUME NEW r \in Reqs, NEW u \in Users, SeenTo(u),
         \A q \in Reqs \ {r} : reqs'[q] = reqs[q],
         ~ WillEnqueue(reqs[r], u) /\ ~ WillExpire(reqs[r], u),
         \A q \in Reqs, n \in 1..MaxRequests : Runs(q, u, n)' => Runs(q, u, n),
         peekJobs' = peekJobs
  PROVE  SeenTo(u)'
<1>1. ASSUME NEW q \in Reqs \ {r}, WillEnqueue(reqs[q], u) \/ WillExpire(reqs[q], u)
      PROVE  SeenTo(u)'
  <2>1. WillEnqueue(reqs[q], u)' \/ WillExpire(reqs[q], u)'
    BY <1>1 DEF WillEnqueue, WillExpire
  <2> QED
    BY <2>1 DEF SeenTo
<1>2. ASSUME NEW n \in 1..MaxRequests, Waiting(u, n) PROVE SeenTo(u)'
  BY <1>2 DEF SeenTo, Waiting
<1> QED
  BY <1>1, <1>2 DEF SeenTo

\* The job of a run has its key among the keys.
LEMMA RunKey ==
  ASSUME JobsInv, NEW r \in Reqs, reqs[r].op = "expire"
  PROVE  /\ reqs[r] \in Request /\ reqs[r].user \in Users /\ reqs[r].peeks \in 1..MaxRequests
         /\ <<reqs[r].user, reqs[r].peeks>> \in PeekKeys
         /\ Runs(r, reqs[r].user, reqs[r].peeks)
         /\ peekJobs[<<reqs[r].user, reqs[r].peeks>>].status = "running"
<1>1. /\ reqs[r] \in Request /\ reqs[r].user \in Users /\ reqs[r].peeks \in 0..MaxRequests
      /\ reqs[r].peeks # 0
  BY DEF JobsInv, RunsMatch, PartInv, TypeOK, Request
<1>2. reqs[r].peeks \in 1..MaxRequests
  BY <1>1, NumbersAssumption
<1>3. Runs(r, reqs[r].user, reqs[r].peeks)
  BY DEF Runs
<1> QED
  BY <1>1, <1>2, <1>3 DEF JobsInv, RunsMatch, PeekKeys

\* Upsert begins a peek only of somebody who was not active, and then the
\* request has settled that it is the one to enqueue the job.
LEMMA JobsUpsert ==
  ASSUME JobsInv, PartInv', NEW r \in Reqs, Upsert(r)
  PROVE  JobsInv'
<1> DEFINE req == reqs[r]
           u == req.user
           p == part[u]
           kind == DecideTransition(p, req.op)
           new == [req EXCEPT !.settled = kind, !.todo = <<"after">>]
<1>1. /\ req \in Request /\ u \in Users /\ p \in PartRecord /\ req.op \in {"join", "peek"}
      /\ req.op = "peek" => req.todo = <<"upsert">> /\ req.kind = "peeked"
      /\ req.op = "join" => req.kind # "peeked"
  <2>1. At(r, "upsert") /\ CallsAhead(req)
    BY DEF Upsert, JobsInv
  <2> QED
    BY <2>1, AheadLemma, CallerLemma DEF CallsAhead
<1>2. /\ part' = [part EXCEPT ![u] = Upserted(p, req.op)] /\ reqs' = [reqs EXCEPT ![r] = new]
      /\ peekJobs' = peekJobs /\ open' = open
  BY DEF Upsert, event
<1>3. kind \in Kinds \ {"none"}
  BY <1>1, DecideLemma
<1>4. <<"after">> \in Seq(Steps) /\ <<"after">> \in Seq(Steps \ {"enqueue"})
  BY DEF Steps
<1>5. /\ new \in Request /\ new.op = req.op /\ new.user = u /\ new.kind = req.kind
      /\ new.todo = <<"after">> /\ new.settled = kind /\ new.snap = req.snap
  BY <1>1, <1>3, <1>4 DEF Request
<1> HIDE DEF new, kind
<1>6. CallsAhead(new)
  BY <1>1, <1>4, <1>5 DEF CallsAhead
<1>7. /\ reqs'[r] = new /\ \A q \in Reqs \ {r} : reqs'[q] = reqs[q]
      /\ \A q \in Reqs, v \in Users, n \in 1..MaxRequests : Runs(q, v, n)' <=> Runs(q, v, n)
      /\ (\A q \in Reqs : CallsAhead(reqs[q]))'
      /\ RunsMatch'
  BY <1>1, <1>2, <1>5, <1>6, SameRuns
<1>8. /\ part'[u] = Upserted(p, req.op) /\ \A v \in Users \ {u} : part'[v] = part[v]
      /\ p.peeks \in Nat
  BY <1>1, <1>2 DEF JobsInv, PartInv, TypeOK, PartRecord
<1>9. /\ p.peeks <= part'[u].peeks /\ part'[u].peeks \in Nat
      /\ part'[u].expires # NoExpiry => part'[u].peeks # 0
      /\ ActivePeeker(part'[u]) => req.op = "peek" /\ part'[u].peeks = p.peeks + 1
      /\ ActivePeeker(part'[u]) /\ ~ ActivePeeker(p) => kind = "peeked"
  <2>1. CASE ActiveParticipant(p)
    BY <1>1, <1>8, <2>1 DEF Upserted, JobsInv, KeysInOrder, ActiveParticipant, ActivePeeker
  <2>2. CASE ~ ActiveParticipant(p)
    <3>1. part'[u] = [status  |-> "active",
                      role    |-> IF req.op = "join" THEN "participant" ELSE "peeker",
                      expires |-> IF req.op = "join" THEN NoExpiry ELSE PeekDuration,
                      peeks   |-> IF req.op = "join" THEN p.peeks ELSE p.peeks + 1]
      BY <1>8, <2>2 DEF Upserted
    <3>2. ~ ActivePeeker(p) => ~ IsActive(p)
      BY <1>1, <2>2 DEF ActivePeeker, ActiveParticipant, PartRecord, Roles
    <3>3. req.op = "peek" /\ ~ ActivePeeker(p) => kind = "peeked"
      BY <2>2, <3>2 DEF kind, DecideTransition
    <3>4. CASE req.op = "join"
      BY <1>8, <3>1, <3>4 DEF ActivePeeker
    <3>5. CASE req.op = "peek"
      BY <1>8, <3>1, <3>3, <3>5, NumbersAssumption DEF NoExpiry
    <3> QED
      BY <1>1, <3>4, <3>5
  <2> QED
    BY <2>1, <2>2
<1>10. KeysInOrder'
  <2>1. \A v \in Users : /\ part'[v].peeks \in Nat /\ part[v].peeks \in Nat
                         /\ part[v].peeks <= part'[v].peeks
                         /\ part'[v].expires # NoExpiry => part'[v].peeks # 0
    BY <1>8, <1>9 DEF JobsInv, KeysInOrder, PartInv, TypeOK, PartRecord
  <2>2. \A q \in Reqs : reqs'[q].user \in Users /\ reqs'[q].snap.peeks \in Nat
    BY SnapsLemma
  <2>3. new.op = "peek" => /\ new.snap.peeks <= part'[new.user].peeks
                           /\ new.snap.expires # NoExpiry => new.snap.peeks # 0
    <3>1. req.snap.peeks \in Nat
      BY <1>1 DEF Request, PartRecord
    <3>2. req.op = "peek" => /\ req.snap.peeks <= p.peeks
                             /\ req.snap.expires # NoExpiry => req.snap.peeks # 0
      BY DEF JobsInv, KeysInOrder
    <3> HIDE DEF req, u, p
    <3> QED
      BY <1>5, <1>8, <1>9, <3>1, <3>2
  <2> QED
    BY <1>2, <2>1, <2>2, <2>3, KeysKept
<1>11. NoneOver'
  <2> SUFFICES ASSUME open, NEW v \in Users, NEW n \in 1..MaxRequests,
                      ActivePeeker(part'[v]), Over(v, n)'
               PROVE  n < part'[v].peeks
    BY <1>2 DEF NoneOver, ActivePeeker, IsActive
  <2>1. Over(v, n)
    <3>1. new.todo # <<"finish">>
      BY <1>5
    <3> QED
      BY <1>2, <1>7, <3>1 DEF Over, Runs
  <2>2. CASE v = u
    <3>1. peekJobs[<<u, n>>].status \in {"done", "running"}
      BY <2>1, <2>2 DEF Over, JobsInv, RunsMatch
    <3>2. n <= p.peeks
      BY <1>1, <3>1 DEF JobsInv, KeysInOrder
    <3> HIDE DEF p, u, req
    <3> QED
      BY <1>8, <1>9, <2>2, <3>2
  <2>3. CASE v # u
    BY <1>8, <2>1, <2>3 DEF JobsInv, NoneOver
  <2> QED
    BY <2>2, <2>3
<1>12. AllSeenTo'
  <2> SUFFICES ASSUME open, ~ Canceled, NEW v \in Users, ActivePeeker(part'[v])
               PROVE  SeenTo(v)'
    BY <1>2 DEF AllSeenTo, ActivePeeker, IsActive, Canceled
  <2>1. CASE ActivePeeker(part[v])
    <3>1. SeenTo(v)
      BY <2>1 DEF JobsInv, AllSeenTo
    <3>2. <<"upsert">> # <<"after">> /\ <<"upsert">> # <<"add", "enqueue">>
          /\ <<"upsert">> # <<"enqueue">>
      OBVIOUS
    <3>3. ~ WillEnqueue(reqs[r], v) /\ ~ WillExpire(reqs[r], v)
      BY <1>1, <3>2 DEF WillEnqueue, WillExpire
    <3> QED
      BY <1>2, <1>7, <3>1, <3>3, OthersSee
  <2>2. CASE ~ ActivePeeker(part[v])
    <3>1. v = u /\ req.op = "peek" /\ kind = "peeked"
      BY <1>8, <1>9, <2>2
    <3>2. WillEnqueue(reqs[r], v)'
      BY <1>5, <1>7, <3>1 DEF WillEnqueue
    <3> QED
      BY <3>2 DEF SeenTo
  <2> QED
    BY <2>1, <2>2
<1> QED
  BY <1>7, <1>10, <1>11, <1>12 DEF JobsInv

LEMMA JobsSetStatus ==
  ASSUME JobsInv, PartInv', NEW r \in Reqs, SetStatus(r)
  PROVE  JobsInv'
<1> DEFINE req == reqs[r]
           u == req.user
<1>1. /\ At(r, "status") /\ req \in Request /\ u \in Users /\ part[u] \in PartRecord
      /\ req.op \in {"leave", "remove", "expire"}
      /\ req.op = "expire" => req.todo = <<"status", "finish">>
  <2>1. At(r, "status")
    BY DEF SetStatus
  <2> QED
    BY <2>1, AheadLemma, CallerLemma
<1>2. /\ part' = [part EXCEPT ![u].status = DetachedStatus(req.op), ![u].expires = NoExpiry]
      /\ Advance(r) /\ peekJobs' = peekJobs /\ open' = open
  BY DEF SetStatus, event
<1>3. PICK new \in Request :
        /\ reqs' = [reqs EXCEPT ![r] = new] /\ CallsAhead(new)
        /\ req.op # "expire" => new.op \in {"none", req.op}
        /\ req.op = "expire" => new.op = "expire" /\ new.user = u /\ new.peeks = req.peeks
  <2>1. CASE req.op # "expire"
    BY <1>1, <1>2, <2>1, AdvanceLemma
  <2>2. CASE req.op = "expire"
    <3> DEFINE new == [req EXCEPT !.todo = <<"finish">>]
    <3>1. Len(<<"status", "finish">>) # 1 /\ Tail(<<"status", "finish">>) = <<"finish">>
      OBVIOUS
    <3>2. reqs' = [reqs EXCEPT ![r] = new]
      BY <1>1, <1>2, <2>2, <3>1 DEF Advance
    <3>3. <<"finish">> \in Seq(Steps)
      BY DEF Steps
    <3>4. /\ new \in Request /\ new.op = "expire" /\ new.user = u /\ new.peeks = req.peeks
          /\ new.todo = <<"finish">>
      BY <1>1, <2>2, <3>3 DEF Request
    <3> HIDE DEF new
    <3>5. CallsAhead(new)
      BY <3>4 DEF CallsAhead
    <3> QED
      BY <2>2, <3>2, <3>4, <3>5
  <2> QED
    BY <2>1, <2>2
<1>4. /\ reqs'[r] = new /\ \A q \in Reqs \ {r} : reqs'[q] = reqs[q]
      /\ \A q \in Reqs, v \in Users, n \in 1..MaxRequests : Runs(q, v, n)' <=> Runs(q, v, n)
      /\ (\A q \in Reqs : CallsAhead(reqs[q]))'
      /\ RunsMatch'
  <2>1. \/ new.op # "expire" /\ reqs[r].op # "expire"
        \/ /\ new.op = "expire" /\ reqs[r].op = "expire"
           /\ new.user = reqs[r].user /\ new.peeks = reqs[r].peeks
    BY <1>1, <1>3
  <2> QED
    BY <1>2, <1>3, <2>1, SameRuns
<1>5. /\ \A v \in Users : /\ part'[v].peeks = part[v].peeks /\ part[v].peeks \in Nat
                          /\ part'[v].expires # NoExpiry => part'[v] = part[v]
      /\ \A v \in Users \ {u} : part'[v] = part[v]
      /\ ~ ActivePeeker(part'[u])
  <2>1. DetachedStatus(req.op) # "active"
    BY <1>1 DEF DetachedStatus
  <2> QED
    BY <1>1, <1>2, <2>1, PeeksLemma DEF JobsInv, PartInv, TypeOK, ActivePeeker, IsActive
<1>6. KeysInOrder'
  <2>1. \A v \in Users : /\ part'[v].peeks \in Nat /\ part[v].peeks \in Nat
                         /\ part[v].peeks <= part'[v].peeks
                         /\ part'[v].expires # NoExpiry => part'[v].peeks # 0
    BY <1>5 DEF JobsInv, KeysInOrder
  <2>2. \A q \in Reqs : reqs'[q].user \in Users /\ reqs'[q].snap.peeks \in Nat
    BY SnapsLemma
  <2>3. new.op # "peek"
    BY <1>1, <1>3
  <2> QED
    BY <1>2, <1>3, <2>1, <2>2, <2>3, KeysKept
<1>7. NoneOver'
  <2> SUFFICES ASSUME open, NEW v \in Users, NEW n \in 1..MaxRequests,
                      ActivePeeker(part'[v]), Over(v, n)'
               PROVE  n < part'[v].peeks
    BY <1>2 DEF NoneOver, ActivePeeker, IsActive
  <2>1. v # u /\ part'[v] = part[v]
    BY <1>5
  <2>2. Over(v, n)
    <3>1. ~ Runs(r, v, n)
      BY <2>1 DEF Runs
    <3> QED
      BY <1>2, <1>4, <3>1 DEF Over
  <2> QED
    BY <2>1, <2>2 DEF JobsInv, NoneOver
<1>8. AllSeenTo'
  <2> SUFFICES ASSUME open, ~ Canceled, NEW v \in Users, ActivePeeker(part'[v])
               PROVE  SeenTo(v)'
    BY <1>2 DEF AllSeenTo, ActivePeeker, IsActive, Canceled
  <2>1. v # u /\ part'[v] = part[v]
    BY <1>5
  <2>2. SeenTo(v)
    BY <2>1 DEF JobsInv, AllSeenTo
  <2>3. ~ WillEnqueue(reqs[r], v) /\ ~ WillExpire(reqs[r], v)
    BY <2>1 DEF WillEnqueue, WillExpire
  <2> QED
    BY <1>2, <1>4, <2>2, <2>3, OthersSee
<1> QED
  BY <1>4, <1>6, <1>7, <1>8 DEF JobsInv

LEMMA JobsCancel ==
  ASSUME JobsInv, PartInv', NEW r \in Reqs, CancelPeekJobs(r)
  PROVE  JobsInv'
<1> DEFINE req == reqs[r]
<1>1. At(r, "cancel") /\ req \in Request /\ req.op \notin {"peek", "expire"}
  BY AheadLemma DEF CancelPeekJobs
<1>2. /\ Advance(r) /\ part' = part /\ open' = open
      /\ \A k \in PeekKeys :
           IF peekJobs[k].status = "pending" THEN peekJobs'[k].status = "canceled"
           ELSE peekJobs'[k] = peekJobs[k]
  BY DEF CancelPeekJobs, event, JobsInv, PartInv, TypeOK, PeekJob
<1>3. PICK new \in Request :
        /\ reqs' = [reqs EXCEPT ![r] = new] /\ CallsAhead(new)
        /\ new.op \in {"none", req.op}
  BY <1>1, <1>2, AdvanceLemma
<1>4. /\ reqs'[r] = new /\ \A q \in Reqs \ {r} : reqs'[q] = reqs[q]
      /\ \A q \in Reqs, v \in Users, n \in 1..MaxRequests : Runs(q, v, n)' <=> Runs(q, v, n)
      /\ (\A q \in Reqs : CallsAhead(reqs[q]))'
      /\ RunsMatch'
  BY <1>1, <1>2, <1>3, SameRuns
<1>5. KeysInOrder'
  <2>1. \A v \in Users : /\ part'[v].peeks \in Nat /\ part[v].peeks \in Nat
                         /\ part[v].peeks <= part'[v].peeks
                         /\ part'[v].expires # NoExpiry => part'[v].peeks # 0
    BY <1>2, PeeksLemma
  <2>2. \A q \in Reqs : reqs'[q].user \in Users /\ reqs'[q].snap.peeks \in Nat
    BY SnapsLemma
  <2>3. \A v \in Users, n \in 1..MaxRequests :
          peekJobs'[<<v, n>>].status # "absent" => peekJobs[<<v, n>>].status # "absent"
    BY <1>2 DEF PeekKeys
  <2>4. new.op # "peek"
    BY <1>1, <1>3
  <2> QED
    BY <1>2, <1>3, <2>1, <2>2, <2>3, <2>4, KeysKept
<1>6. NoneOver'
  <2> SUFFICES ASSUME open, NEW v \in Users, NEW n \in 1..MaxRequests,
                      ActivePeeker(part[v]), Over(v, n)'
               PROVE  n < part[v].peeks
    BY <1>2 DEF NoneOver, ActivePeeker, IsActive
  <2>1. \A q \in Reqs : Runs(q, v, n) => q # r
    BY <1>1 DEF Runs
  <2>2. peekJobs'[<<v, n>>].status = "done" => peekJobs[<<v, n>>].status = "done"
    BY <1>2 DEF PeekKeys
  <2>3. Over(v, n)
    BY <1>4, <2>1, <2>2 DEF Over
  <2> QED
    BY <2>3 DEF JobsInv, NoneOver
<1>7. AllSeenTo'
  <2> SUFFICES ASSUME open, ~ Canceled', NEW v \in Users, ActivePeeker(part[v])
               PROVE  SeenTo(v)'
    BY <1>2 DEF AllSeenTo, ActivePeeker, IsActive
  <2>1. \A k \in PeekKeys : peekJobs'[k] = peekJobs[k]
    BY <1>2 DEF Canceled
  <2>2. peekJobs' = peekJobs
    BY <2>1 DEF CancelPeekJobs, JobsInv, PartInv, TypeOK
  <2>3. SeenTo(v)
    BY <2>2 DEF JobsInv, AllSeenTo, Canceled
  <2>4. ~ WillEnqueue(reqs[r], v) /\ ~ WillExpire(reqs[r], v)
    BY <1>1 DEF WillEnqueue, WillExpire
  <2> QED
    BY <1>4, <2>2, <2>3, <2>4, OthersSee
<1> QED
  BY <1>4, <1>5, <1>6, <1>7 DEF JobsInv

\* The job that is enqueued sees to the peek; a key that is taken already was
\* taken by a job of the same peek, which is pending or running.
LEMMA JobsEnqueue ==
  ASSUME JobsInv, PartInv', NEW r \in Reqs, EnqueuePeekJob(r)
  PROVE  JobsInv'
<1> DEFINE req == reqs[r]
           u == req.user
           key == <<u, req.snap.peeks>>
           job == [status |-> "pending", runAt |-> req.snap.expires]
<1>1. /\ At(r, "enqueue") /\ req \in Request /\ u \in Users /\ req.op = "peek"
      /\ req.todo = <<"enqueue">> /\ req.snap \in PartRecord
  <2>1. At(r, "enqueue")
    BY DEF EnqueuePeekJob
  <2>2. req \in Request /\ u \in Users /\ req.op = "peek"
    BY <2>1, AheadLemma, CallerLemma
  <2> QED
    BY <2>1, <2>2, AheadLemma DEF Request
<1>2. /\ Advance(r) /\ part' = part /\ open' = open
      /\ \/ /\ req.snap.expires = NoExpiry \/ peekJobs[key].status # "absent"
            /\ peekJobs' = peekJobs
         \/ /\ req.snap.expires # NoExpiry /\ peekJobs[key].status = "absent"
            /\ peekJobs' = [peekJobs EXCEPT ![key] = job]
  BY DEF EnqueuePeekJob, event
<1>3. End(r) /\ Idle \in Request /\ Idle.op = "none" /\ CallsAhead(Idle)
  <2>1. Len(<<"enqueue">>) = 1
    OBVIOUS
  <2> QED
    BY <1>1, <1>2, <2>1, IdleLemma DEF Advance, CallsAhead
<1>4. CASE peekJobs' = peekJobs /\ (req.snap.expires = NoExpiry \/ peekJobs[key].status # "absent")
  <2>1. <<"enqueue">> # <<"after">>
    OBVIOUS
  <2>2. \A v \in Users : ~ WillEnqueue(reqs[r], v)
    BY <1>1, <1>4, <2>1 DEF WillEnqueue
  <2> QED
    BY <1>1, <1>2, <1>3, <1>4, <2>2, PlainEnd
<1>5. CASE /\ req.snap.expires # NoExpiry /\ peekJobs[key].status = "absent"
           /\ peekJobs' = [peekJobs EXCEPT ![key] = job]
  <2>1. /\ req.snap.peeks \in 1..MaxRequests /\ key \in PeekKeys
        /\ req.snap.peeks <= part[u].peeks
    BY <1>1, <1>5, NumbersAssumption DEF JobsInv, KeysInOrder, PartRecord, PeekKeys
  <2>2. /\ peekJobs'[key].status = "pending"
        /\ \A k \in PeekKeys \ {key} : peekJobs'[k] = peekJobs[k]
    BY <1>5, <2>1 DEF JobsInv, PartInv, TypeOK
  <2> HIDE DEF job
  <2>3. /\ reqs'[r] = Idle /\ \A q \in Reqs \ {r} : reqs'[q] = reqs[q]
        /\ \A q \in Reqs, v \in Users, n \in 1..MaxRequests : Runs(q, v, n)' <=> Runs(q, v, n)
        /\ (\A q \in Reqs : CallsAhead(reqs[q]))'
        /\ RunsMatch'
    <3>1. \A k \in PeekKeys :
            peekJobs'[k].status = "running" <=> peekJobs[k].status = "running"
      BY <1>5, <2>2
    <3> QED
      BY <1>1, <1>3, <3>1, SameRuns DEF End
  <2>4. KeysInOrder'
    <3>1. \A v \in Users : /\ part'[v].peeks \in Nat /\ part[v].peeks \in Nat
                           /\ part[v].peeks <= part'[v].peeks
                           /\ part'[v].expires # NoExpiry => part'[v].peeks # 0
      BY <1>2, PeeksLemma
    <3>2. \A q \in Reqs : reqs'[q].user \in Users /\ reqs'[q].snap.peeks \in Nat
      BY DEF PartInv, TypeOK, Request, PartRecord
    <3>3. ASSUME NEW v \in Users, NEW n \in 1..MaxRequests,
                 peekJobs'[<<v, n>>].status # "absent"
          PROVE  peekJobs[<<v, n>>].status # "absent" \/ n <= part[v].peeks
      <4>1. CASE <<v, n>> = key
        BY <2>1, <4>1
      <4>2. CASE <<v, n>> # key
        BY <2>2, <3>3, <4>2 DEF PeekKeys
      <4> QED
        BY <4>1, <4>2
    <3> QED
      BY <1>2, <1>3, <3>1, <3>2, <3>3, KeysKept DEF End
  <2>5. NoneOver'
    <3> SUFFICES ASSUME open, NEW v \in Users, NEW n \in 1..MaxRequests,
                        ActivePeeker(part[v]), Over(v, n)'
                 PROVE  n < part[v].peeks
      BY <1>2 DEF NoneOver, ActivePeeker, IsActive
    <3>1. \A q \in Reqs : Runs(q, v, n) => q # r
      BY <1>1 DEF Runs
    <3>2. peekJobs'[<<v, n>>].status = "done" => peekJobs[<<v, n>>].status = "done"
      BY <2>2 DEF PeekKeys
    <3>3. Over(v, n)
      BY <2>3, <3>1, <3>2 DEF Over
    <3> QED
      BY <3>3 DEF JobsInv, NoneOver
  <2>6. AllSeenTo'
    <3> SUFFICES ASSUME open, ~ Canceled', NEW v \in Users, ActivePeeker(part[v])
                 PROVE  SeenTo(v)'
      BY <1>2 DEF AllSeenTo, ActivePeeker, IsActive
    <3>1. ~ Canceled
      BY <1>5, <2>2 DEF Canceled
    <3>2. SeenTo(v)
      BY <1>2, <3>1 DEF JobsInv, AllSeenTo
    <3>3. ASSUME NEW n \in 1..MaxRequests, Waiting(v, n) PROVE SeenTo(v)'
      <4>1. <<v, n>> \in PeekKeys \ {key}
        BY <1>5, <3>3 DEF PeekKeys, Waiting
      <4>2. Waiting(v, n)'
        BY <2>2, <2>3, <3>3, <4>1 DEF Waiting
      <4> QED
        BY <4>2 DEF SeenTo
    <3>4. CASE v = u
      BY <2>1, <2>2, <3>4 DEF SeenTo, Waiting
    <3>5. ASSUME NEW q \in Reqs, v # u, WillEnqueue(reqs[q], v) \/ WillExpire(reqs[q], v)
          PROVE  SeenTo(v)'
      <4>1. q # r /\ reqs'[q] = reqs[q]
        BY <2>3, <3>5 DEF WillEnqueue, WillExpire
      <4>2. WillExpire(reqs[q], v) => WillExpire(reqs[q], v)'
        BY <4>1 DEF WillExpire
      <4>3. WillEnqueue(reqs[q], v) => WillEnqueue(reqs[q], v)'
        <5>1. ASSUME reqs[q].op = "peek", reqs[q].user = v, reqs[q].snap.expires # NoExpiry
              PROVE  peekJobs'[<<v, reqs[q].snap.peeks>>] = peekJobs[<<v, reqs[q].snap.peeks>>]
          <6>1. reqs[q].snap.peeks \in 0..MaxRequests /\ reqs[q].snap.peeks # 0
            BY <5>1 DEF JobsInv, KeysInOrder, PartInv, TypeOK, Request, PartRecord
          <6>2. <<v, reqs[q].snap.peeks>> \in PeekKeys /\ <<v, reqs[q].snap.peeks>> # key
            BY <3>5, <6>1, NumbersAssumption DEF PeekKeys
          <6> QED
            BY <2>2, <6>2
        <5> QED
          BY <4>1, <5>1 DEF WillEnqueue
      <4> QED
        BY <3>5, <4>2, <4>3 DEF SeenTo
    <3> QED
      BY <3>2, <3>3, <3>4, <3>5 DEF SeenTo
  <2> QED
    BY <2>3, <2>4, <2>5, <2>6 DEF JobsInv
<1> QED
  BY <1>2, <1>4, <1>5

\* Other peeks are seen to while one job that was there changes.
LEMMA OthersSeeJob ==
  ASSUME JobsInv, NEW r \in Reqs, NEW v \in Users, SeenTo(v), NEW key \in PeekKeys,
         \A q \in Reqs \ {r} : reqs'[q] = reqs[q],
         ~ WillEnqueue(reqs[r], v), ~ WillExpire(reqs[r], v),
         \A k \in PeekKeys \ {key} : peekJobs'[k] = peekJobs[k],
         peekJobs[key].status # "absent",
         ~ Waiting(key[1], key[2]) \/ key[1] # v,
         \A q \in Reqs, n \in 1..MaxRequests : Runs(q, v, n)' => Runs(q, v, n)
  PROVE  SeenTo(v)'
<1>1. ASSUME NEW n \in 1..MaxRequests, Waiting(v, n) PROVE SeenTo(v)'
  <2>1. <<v, n>> \in PeekKeys \ {key}
    BY <1>1 DEF PeekKeys
  <2>2. Waiting(v, n)'
    BY <1>1, <2>1 DEF Waiting
  <2> QED
    BY <2>2 DEF SeenTo
<1>2. ASSUME NEW q \in Reqs, WillEnqueue(reqs[q], v) \/ WillExpire(reqs[q], v)
      PROVE  SeenTo(v)'
  <2>1. q # r /\ reqs'[q] = reqs[q]
    BY <1>2
  <2>2. WillExpire(reqs[q], v) => WillExpire(reqs[q], v)'
    BY <2>1 DEF WillExpire
  <2>3. WillEnqueue(reqs[q], v) => WillEnqueue(reqs[q], v)'
    <3>1. ASSUME reqs[q].op = "peek", reqs[q].user = v, reqs[q].snap.expires # NoExpiry,
                 peekJobs[<<v, reqs[q].snap.peeks>>].status = "absent"
          PROVE  peekJobs'[<<v, reqs[q].snap.peeks>>].status = "absent"
      <4>1. reqs[q].snap.peeks \in 0..MaxRequests /\ reqs[q].snap.peeks # 0
        BY <3>1 DEF JobsInv, KeysInOrder, PartInv, TypeOK, Request, PartRecord
      <4>2. <<v, reqs[q].snap.peeks>> \in PeekKeys /\ <<v, reqs[q].snap.peeks>> # key
        BY <3>1, <4>1, NumbersAssumption DEF PeekKeys
      <4> QED
        BY <3>1, <4>2
    <3> QED
      BY <2>1, <3>1 DEF WillEnqueue
  <2> QED
    BY <1>2, <2>1, <2>2, <2>3 DEF SeenTo
<1> QED
  BY <1>1, <1>2 DEF SeenTo

\* The end of a run: its job is done, pending again or left behind.
LEMMA JobsRunEnd ==
  ASSUME JobsInv, PartInv', NEW r \in Reqs, End(r), reqs[r].op = "expire",
         part' = part, open' = open,
         NEW job,
         \/ job.status = "done" /\ reqs[r].todo = <<"finish">>
         \/ job.status \in {"pending", "running"},
         peekJobs' = [peekJobs EXCEPT ![<<reqs[r].user, reqs[r].peeks>>] = job]
  PROVE  JobsInv'
<1> DEFINE u == reqs[r].user
           m == reqs[r].peeks
           key == <<u, m>>
<1>1. /\ u \in Users /\ m \in 1..MaxRequests /\ key \in PeekKeys
      /\ Runs(r, u, m) /\ peekJobs[key].status = "running"
      /\ peekJobs'[key] = job /\ \A k \in PeekKeys \ {key} : peekJobs'[k] = peekJobs[k]
  BY RunKey DEF JobsInv, PartInv, TypeOK
<1>2. /\ \A q \in Reqs \ {r} : reqs'[q] = reqs[q]
      /\ reqs'[r] = Idle /\ Idle.op = "none"
      /\ \A q \in Reqs, v \in Users, n \in 1..MaxRequests :
           Runs(q, v, n)' <=> Runs(q, v, n) /\ q # r
      /\ (\A q \in Reqs : CallsAhead(reqs[q]))'
      /\ RunsMatch'
  BY <1>1, RunEnds
<1>3. KeysInOrder'
  <2>1. \A v \in Users : /\ part'[v].peeks \in Nat /\ part[v].peeks \in Nat
                         /\ part[v].peeks <= part'[v].peeks
                         /\ part'[v].expires # NoExpiry => part'[v].peeks # 0
    BY DEF JobsInv, KeysInOrder, PartInv, TypeOK, PartRecord
  <2>2. \A q \in Reqs : reqs'[q].user \in Users /\ reqs'[q].snap.peeks \in Nat
    BY SnapsLemma
  <2>3. \A v \in Users, n \in 1..MaxRequests :
          peekJobs'[<<v, n>>].status # "absent" => peekJobs[<<v, n>>].status # "absent"
    BY <1>1 DEF PeekKeys
  <2>4. reqs' = [reqs EXCEPT ![r] = Idle] /\ Idle.op # "peek"
    BY <1>2 DEF End
  <2> QED
    BY <2>1, <2>2, <2>3, <2>4, KeysKept
<1>4. NoneOver'
  <2> SUFFICES ASSUME open', NEW v \in Users, NEW n \in 1..MaxRequests,
                      ActivePeeker(part[v]), Over(v, n)'
               PROVE  n < part[v].peeks
    BY DEF NoneOver, ActivePeeker, IsActive
  <2>1. Over(v, n)
    <3>1. CASE <<v, n>> = key /\ peekJobs'[key].status = "done"
      <4>1. v = u /\ n = m /\ reqs[r].todo = <<"finish">>
        BY <1>1, <3>1
      <4> QED
        BY <1>1, <4>1 DEF Over
    <3>2. CASE <<v, n>> # key /\ peekJobs'[<<v, n>>].status = "done"
      BY <3>2 DEF Over, PeekKeys
    <3>3. ASSUME NEW q \in Reqs, Runs(q, v, n)', reqs'[q].todo = <<"finish">>
          PROVE  Over(v, n)
      BY <1>2, <3>3 DEF Over
    <3> QED
      BY <3>1, <3>2, <3>3 DEF Over
  <2> QED
    BY <2>1 DEF JobsInv, NoneOver
<1>5. AllSeenTo'
  <2> SUFFICES ASSUME open, ~ Canceled', NEW v \in Users, ActivePeeker(part[v])
               PROVE  SeenTo(v)'
    BY DEF AllSeenTo, ActivePeeker, IsActive
  <2>1. ~ Canceled
    BY <1>1 DEF Canceled
  <2>2. SeenTo(v)
    BY <2>1 DEF JobsInv, AllSeenTo
  <2>3. ~ WillEnqueue(reqs[r], v)
    BY DEF WillEnqueue
  <2>4. ~ Waiting(u, m) /\ key[1] = u /\ key[2] = m
    BY <1>1 DEF Waiting
  <2>5. CASE v = u /\ job.status \in {"pending", "running"}
    <3>1. PICK n \in 1..MaxRequests : n = m
      BY <1>1
    <3>2. \A q \in Reqs : ~ Runs(q, v, n)'
      BY <1>1, <1>2, <2>5, <3>1 DEF JobsInv, RunsMatch
    <3>3. peekJobs'[<<v, n>>].status \in {"pending", "running"}
      BY <1>1, <2>5, <3>1
    <3>4. Waiting(v, n)'
      BY <3>2, <3>3 DEF Waiting
    <3> QED
      BY <3>4 DEF SeenTo
  <2>6. CASE v # u
    <3>1. ~ WillExpire(reqs[r], v)
      BY <2>6 DEF WillExpire
    <3> QED
      BY <1>1, <1>2, <2>2, <2>3, <2>4, <2>6, <3>1, OthersSeeJob
  <2>7. CASE reqs[r].todo = <<"finish">>
    <3>1. /\ <<"finish">> # <<"check">> /\ <<"finish">> # <<"postpone">>
          /\ <<"finish">> # <<"remove", "status", "finish">>
          /\ <<"finish">> # <<"status", "finish">>
      OBVIOUS
    <3>2. ~ WillExpire(reqs[r], v)
      BY <2>7, <3>1 DEF WillExpire
    <3> QED
      BY <1>1, <1>2, <2>2, <2>3, <2>4, <3>2, OthersSeeJob
  <2> QED
    BY <2>5, <2>6, <2>7
<1> QED
  BY <1>2, <1>3, <1>4, <1>5 DEF JobsInv

LEMMA JobsLastSteps ==
  ASSUME JobsInv, PartInv', "peek" \notin FaultyOps, NEW r \in Reqs,
         ChannelLost(r) \/ PostponePeekJob(r) \/ FinishPeekJob(r) \/ Abort(r)
  PROVE  JobsInv'
<1> DEFINE req == reqs[r]
           key == <<req.user, req.peeks>>
<1>1. peekJobs \in [PeekKeys -> PeekJob]
  BY DEF JobsInv, PartInv, TypeOK
<1>2. CASE ChannelLost(r)
  <2>1. /\ part' = part /\ ~ open'
        /\ \A k \in PeekKeys :
             \/ peekJobs'[k] = peekJobs[k]
             \/ peekJobs[k].status = "pending" /\ peekJobs'[k].status = "canceled"
    BY <1>1, <1>2 DEF ChannelLost, CloseEvent, event, PeekJob
  <2>2. PICK new : /\ reqs' = [reqs EXCEPT ![r] = new] /\ CallsAhead(new) /\ new.op # "peek"
                   /\ \/ new.op # "expire" /\ req.op # "expire"
                      \/ /\ new.op = "expire" /\ req.op = "expire"
                         /\ new.user = req.user /\ new.peeks = req.peeks
    <3>1. CASE req.op # "expire"
      BY <1>2, <3>1, IdleLemma DEF ChannelLost, End, CallsAhead
    <3>2. CASE req.op = "expire"
      <4> DEFINE new == [req EXCEPT !.todo = <<"finish">>]
      <4>1. req \in Request
        BY DEF JobsInv, PartInv, TypeOK
      <4>2. /\ new.op = "expire" /\ new.user = req.user /\ new.peeks = req.peeks
            /\ new.todo = <<"finish">> /\ reqs' = [reqs EXCEPT ![r] = new]
        BY <1>2, <3>2, <4>1 DEF ChannelLost, Request
      <4> HIDE DEF new
      <4> QED
        BY <3>2, <4>2 DEF CallsAhead
    <3> QED
      BY <3>1, <3>2
  <2>3. (\A q \in Reqs : CallsAhead(reqs[q]))' /\ RunsMatch'
    BY <2>1, <2>2, SameRuns
  <2>4. KeysInOrder'
    <3>1. \A v \in Users : /\ part'[v].peeks \in Nat /\ part[v].peeks \in Nat
                           /\ part[v].peeks <= part'[v].peeks
                           /\ part'[v].expires # NoExpiry => part'[v].peeks # 0
      BY <2>1 DEF JobsInv, KeysInOrder, PartInv, TypeOK, PartRecord
    <3>2. \A q \in Reqs : reqs'[q].user \in Users /\ reqs'[q].snap.peeks \in Nat
      BY DEF PartInv, TypeOK, Request, PartRecord
    <3>3. \A v \in Users, n \in 1..MaxRequests :
            peekJobs'[<<v, n>>].status # "absent" => peekJobs[<<v, n>>].status # "absent"
      BY <2>1 DEF PeekKeys
    <3> QED
      BY <2>2, <3>1, <3>2, <3>3, KeysKept
  <2> QED
    BY <2>1, <2>3, <2>4 DEF JobsInv, NoneOver, AllSeenTo
<1>3. CASE PostponePeekJob(r)
  <2> DEFINE job == [status |-> "pending", runAt |-> req.snap.expires]
  <2>1. /\ At(r, "postpone") /\ End(r) /\ part' = part /\ open' = open
        /\ peekJobs' = [peekJobs EXCEPT ![key] = job] /\ job.status = "pending"
    BY <1>3 DEF PostponePeekJob, event
  <2>2. req.op = "expire" /\ key \in PeekKeys
    BY <2>1, AheadLemma, CallerLemma, RunKey
  <2> HIDE DEF job
  <2> QED
    BY <2>1, <2>2, JobsRunEnd
<1>4. CASE FinishPeekJob(r)
  <2> DEFINE job == [peekJobs[key] EXCEPT !.status = "done"]
  <2>1. /\ At(r, "finish") /\ End(r) /\ part' = part /\ open' = open
        /\ peekJobs' = [peekJobs EXCEPT ![key] = job]
    BY <1>4 DEF FinishPeekJob, event
  <2>2. req.op = "expire" /\ key \in PeekKeys /\ req.todo = <<"finish">>
    <3>1. req \in Request /\ "finish" \in Remaining(req)
      BY <2>1, AheadLemma
    <3>2. req.op = "expire"
      BY <3>1, CallerLemma
    <3> QED
      BY <2>1, <3>2, AheadLemma, RunKey
  <2>3. job.status = "done"
    BY <1>1, <2>2 DEF PeekJob
  <2> HIDE DEF job
  <2> QED
    BY <2>1, <2>2, <2>3, JobsRunEnd
<1>5. CASE Abort(r)
  <2>1. End(r) /\ part' = part /\ open' = open /\ req.op \in FaultyOps
    BY <1>5 DEF Abort, event
  <2>2. CASE req.op = "expire"
    <3>1. key \in PeekKeys /\ peekJobs[key].status = "running"
      BY <2>2, RunKey
    <3>2. \/ peekJobs' = [peekJobs EXCEPT ![key] = peekJobs[key]]
          \/ peekJobs' = [peekJobs EXCEPT ![key] = [status |-> "pending", runAt |-> 0]]
      BY <1>1, <1>5, <2>2, <3>1 DEF Abort
    <3>3. [status |-> "pending", runAt |-> 0].status = "pending"
      OBVIOUS
    <3> QED
      BY <2>1, <2>2, <3>1, <3>2, <3>3, JobsRunEnd
  <2>3. CASE req.op # "expire"
    <3>1. peekJobs' = peekJobs /\ \A v \in Users : ~ WillEnqueue(req, v)
      BY <1>5, <2>1, <2>3 DEF Abort, WillEnqueue
    <3> QED
      BY <2>1, <2>3, <3>1, PlainEnd
  <2> QED
    BY <2>2, <2>3
<1> QED
  BY <1>2, <1>3, <1>4, <1>5

LEMMA JobsCall ==
  ASSUME JobsInv, PartInv', NEW r \in Reqs, NEW op \in AllOps, NEW u \in Users,
         Call(r, op, u)
  PROVE  JobsInv'
<1> DEFINE new == [Idle EXCEPT !.op = op, !.user = u, !.todo = <<"read">>]
<1>1. /\ reqs[r] = Idle /\ reqs' = [reqs EXCEPT ![r] = new]
      /\ part' = part /\ peekJobs' = peekJobs /\ open' = open
  BY DEF Call, event
<1>2. /\ Idle \in Request /\ Idle.op = "none" /\ Idle.settled = "none" /\ Idle.kind = "none"
      /\ Idle.snap = NoPart /\ NoPart.peeks = 0 /\ NoPart.expires = NoExpiry
  BY IdleLemma DEF Idle, NoPart
<1>3. <<"read">> \in Seq(Steps) /\ <<"read">> \in Seq(Steps \ {"enqueue"})
  BY DEF Steps
<1>4. /\ new \in Request /\ new.op = op /\ new.user = u /\ new.todo = <<"read">>
      /\ new.settled = "none" /\ new.kind = "none" /\ new.snap = NoPart
  BY <1>2, <1>3 DEF Request
<1> HIDE DEF new
<1>5. CallsAhead(new) /\ new.op # "expire"
  BY <1>3, <1>4 DEF CallsAhead, AllOps
<1>6. \A v \in Users : ~ WillEnqueue(reqs[r], v) /\ ~ WillExpire(reqs[r], v)
  BY <1>1, <1>2 DEF WillEnqueue, WillExpire
<1>7. new.op = "peek" => /\ new.snap.peeks <= part[new.user].peeks
                         /\ new.snap.expires # NoExpiry => new.snap.peeks # 0
  <2>1. part[u].peeks \in Nat
    BY DEF JobsInv, PartInv, TypeOK, PartRecord
  <2> QED
    BY <1>2, <1>4, <2>1
<1> QED
  BY <1>1, <1>2, <1>4, <1>5, <1>6, <1>7, PlainStep

LEMMA JobsRun ==
  ASSUME JobsInv, PartInv', NEW r \in Reqs, NEW u \in Users, NEW m \in 1..MaxRequests,
         RunPeekJob(r, u, m)
  PROVE  JobsInv'
<1> DEFINE key == <<u, m>>
           new == [Idle EXCEPT !.op = "expire", !.user = u, !.peeks = m, !.todo = <<"check">>]
<1>1. /\ reqs[r] = Idle /\ reqs' = [reqs EXCEPT ![r] = new]
      /\ key \in PeekKeys /\ peekJobs[key].status \in {"pending", "running"}
      /\ peekJobs[key].status = "running" => \A q \in Reqs : ~ Runs(q, u, m)
      /\ peekJobs'[key].status = "running"
      /\ \A k \in PeekKeys \ {key} : peekJobs'[k] = peekJobs[k]
      /\ part' = part /\ open' = open
  BY DEF RunPeekJob, Claimable, event, PeekKeys, JobsInv, PartInv, TypeOK, PeekJob
<1>2. Idle \in Request /\ Idle.op = "none" /\ Idle.snap = NoPart
  BY IdleLemma DEF Idle
<1>3. <<"check">> \in Seq(Steps) /\ m \in 0..MaxRequests
  BY NumbersAssumption DEF Steps
<1>4. /\ new \in Request /\ new.op = "expire" /\ new.user = u /\ new.peeks = m
      /\ new.todo = <<"check">>
  BY <1>2, <1>3 DEF Request
<1> HIDE DEF new
<1>5. /\ reqs'[r] = new /\ \A q \in Reqs \ {r} : reqs'[q] = reqs[q]
      /\ \A q \in Reqs : ~ Runs(q, u, m)
      /\ \A v \in Users : ~ WillEnqueue(reqs[r], v) /\ ~ WillExpire(reqs[r], v)
  <2>1. \A q \in Reqs : ~ Runs(q, u, m)
    BY <1>1 DEF JobsInv, RunsMatch
  <2>2. \A q \in Reqs \ {r} : reqs'[q] = reqs[q]
    BY <1>1
  <2>3. reqs'[r] = new
    BY <1>1 DEF JobsInv, PartInv, TypeOK
  <2>4. \A v \in Users : ~ WillEnqueue(reqs[r], v) /\ ~ WillExpire(reqs[r], v)
    BY <1>1, <1>2 DEF WillEnqueue, WillExpire
  <2> QED
    BY <2>1, <2>2, <2>3, <2>4
<1>6. \A q \in Reqs, v \in Users, n \in 1..MaxRequests :
        Runs(q, v, n)' <=> Runs(q, v, n) \/ (q = r /\ v = u /\ n = m)
  <2>1. \A v \in Users, n \in 1..MaxRequests : ~ Runs(r, v, n)
    BY <1>1, <1>2 DEF Runs
  <2> QED
    BY <1>4, <1>5, <2>1 DEF Runs
<1>7. (\A q \in Reqs : CallsAhead(reqs[q]))'
  BY <1>4, <1>5 DEF JobsInv, CallsAhead
<1>8. RunsMatch'
  <2>1. ASSUME NEW q \in Reqs, NEW v \in Users, NEW n \in 1..MaxRequests, Runs(q, v, n)'
        PROVE  peekJobs'[<<v, n>>].status = "running"
    <3>1. CASE v = u /\ n = m
      BY <1>1, <3>1
    <3>2. CASE ~ (v = u /\ n = m)
      <4>1. <<v, n>> \in PeekKeys \ {key}
        BY <3>2 DEF PeekKeys
      <4> QED
        BY <1>1, <1>6, <2>1, <3>2, <4>1 DEF JobsInv, RunsMatch
    <3> QED
      BY <3>1, <3>2
  <2>2. \A q, s \in Reqs : \A v \in Users : \A n \in 1..MaxRequests :
          Runs(q, v, n)' /\ Runs(s, v, n)' => q = s
    BY <1>5, <1>6 DEF JobsInv, RunsMatch
  <2>3. \A q \in Reqs : reqs'[q].op = "expire" => reqs'[q].peeks # 0
    BY <1>4, <1>5 DEF JobsInv, RunsMatch
  <2> QED
    BY <2>1, <2>2, <2>3 DEF RunsMatch
<1>9. KeysInOrder'
  <2>1. \A v \in Users : /\ part'[v].peeks \in Nat /\ part[v].peeks \in Nat
                         /\ part[v].peeks <= part'[v].peeks
                         /\ part'[v].expires # NoExpiry => part'[v].peeks # 0
    BY <1>1, PeeksLemma
  <2>2. \A q \in Reqs : reqs'[q].user \in Users /\ reqs'[q].snap.peeks \in Nat
    BY SnapsLemma
  <2>3. \A v \in Users, n \in 1..MaxRequests :
          peekJobs'[<<v, n>>].status # "absent" => peekJobs[<<v, n>>].status # "absent"
    BY <1>1 DEF PeekKeys
  <2>4. reqs' = [reqs EXCEPT ![r] = new] /\ new.op # "peek"
    BY <1>1, <1>4
  <2> QED
    BY <2>1, <2>2, <2>3, <2>4, KeysKept
<1>10. NoneOver'
  <2> SUFFICES ASSUME open, NEW v \in Users, NEW n \in 1..MaxRequests,
                      ActivePeeker(part[v]), Over(v, n)'
               PROVE  n < part[v].peeks
    BY <1>1 DEF NoneOver, ActivePeeker, IsActive
  <2>1. <<"check">> # <<"finish">>
    OBVIOUS
  <2>2. peekJobs'[<<v, n>>].status = "done" => peekJobs[<<v, n>>].status = "done"
    BY <1>1 DEF PeekKeys
  <2>3. \A q \in Reqs : Runs(q, v, n)' /\ reqs'[q].todo = <<"finish">> =>
          Runs(q, v, n) /\ reqs[q].todo = <<"finish">>
    BY <1>4, <1>5, <1>6, <2>1
  <2>4. Over(v, n)
    BY <2>2, <2>3 DEF Over
  <2> QED
    BY <2>4 DEF JobsInv, NoneOver
<1>11. AllSeenTo'
  <2> SUFFICES ASSUME open, ~ Canceled', NEW v \in Users, ActivePeeker(part[v])
               PROVE  SeenTo(v)'
    BY <1>1 DEF AllSeenTo, ActivePeeker, IsActive
  <2>1. ~ Canceled
    BY <1>1 DEF Canceled
  <2>2. SeenTo(v)
    BY <2>1 DEF JobsInv, AllSeenTo
  <2>3. CASE v = u
    <3>1. WillExpire(reqs[r], v)'
      BY <1>4, <1>5, <2>3 DEF WillExpire
    <3> QED
      BY <3>1 DEF SeenTo
  <2>4. CASE v # u
    <3>1. key[1] # v /\ \A q \in Reqs, n \in 1..MaxRequests : Runs(q, v, n)' => Runs(q, v, n)
      BY <1>6, <2>4
    <3> QED
      BY <1>1, <1>5, <2>2, <3>1, OthersSeeJob
  <2> QED
    BY <2>3, <2>4
<1> QED
  BY <1>7, <1>8, <1>9, <1>10, <1>11 DEF JobsInv

LEMMA JobsEnvironment ==
  ASSUME JobsInv, PartInv', Close \/ LoseChannel \/ UNCHANGED vars
  PROVE  JobsInv'
<1>1. CASE LoseChannel \/ UNCHANGED vars
  <2>1. part' = part /\ peekJobs' = peekJobs /\ reqs' = reqs /\ open' = open
    BY <1>1 DEF LoseChannel, vars
  <2> QED
    BY <2>1 DEF JobsInv, CallsAhead, RunsMatch, KeysInOrder, NoneOver, AllSeenTo, Runs, Over,
                SeenTo, Waiting, WillEnqueue, WillExpire, ActivePeeker, IsActive, Canceled
<1>2. CASE Close
  <2>1. /\ part' = part /\ reqs' = reqs /\ ~ open'
        /\ \A k \in PeekKeys :
             \/ peekJobs'[k] = peekJobs[k]
             \/ peekJobs[k].status = "pending" /\ peekJobs'[k].status = "canceled"
    BY <1>2 DEF Close, CloseEvent, JobsInv, PartInv, TypeOK, PeekJob
  <2>2. \A u \in Users, n \in 1..MaxRequests :
          /\ peekJobs'[<<u, n>>].status = "running" <=> peekJobs[<<u, n>>].status = "running"
          /\ peekJobs'[<<u, n>>].status # "absent" => peekJobs[<<u, n>>].status # "absent"
    BY <2>1 DEF PeekKeys
  <2>3. (\A r \in Reqs : CallsAhead(reqs[r]))'
    BY <2>1 DEF JobsInv, CallsAhead
  <2>4. RunsMatch'
    BY <2>1, <2>2 DEF JobsInv, RunsMatch, Runs
  <2>5. KeysInOrder'
    BY <2>1, <2>2 DEF JobsInv, KeysInOrder
  <2> QED
    BY <2>1, <2>3, <2>4, <2>5 DEF JobsInv, NoneOver, AllSeenTo
<1> QED
  BY <1>1, <1>2

LEMMA JobsTick ==
  ASSUME JobsInv, PartInv', Tick
  PROVE  JobsInv'
<1>1. \A u \in Users :
        /\ part'[u].status = part[u].status /\ part'[u].role = part[u].role
        /\ part'[u].peeks = part[u].peeks
        /\ part'[u].expires # NoExpiry <=> part[u].expires # NoExpiry
  <2> SUFFICES ASSUME NEW u \in Users
               PROVE  /\ part'[u].status = part[u].status /\ part'[u].role = part[u].role
                      /\ part'[u].peeks = part[u].peeks
                      /\ part'[u].expires # NoExpiry <=> part[u].expires # NoExpiry
    OBVIOUS
  <2>1. part[u] \in PartRecord /\ part'[u] = [part[u] EXCEPT !.expires = Nearer(part[u].expires)]
    BY DEF Tick, JobsInv, PartInv, TypeOK
  <2>2. Nearer(part[u].expires) = NoExpiry <=> part[u].expires = NoExpiry
    BY <2>1, NearerLemma DEF PartRecord
  <2> QED
    BY <2>1, <2>2 DEF PartRecord
<1>2. \A r \in Reqs :
        /\ reqs'[r].op = reqs[r].op /\ reqs'[r].user = reqs[r].user
        /\ reqs'[r].todo = reqs[r].todo /\ reqs'[r].kind = reqs[r].kind
        /\ reqs'[r].settled = reqs[r].settled /\ reqs'[r].peeks = reqs[r].peeks
        /\ reqs'[r].snap.peeks = reqs[r].snap.peeks /\ reqs[r].user \in Users
        /\ reqs'[r].snap.expires # NoExpiry <=> reqs[r].snap.expires # NoExpiry
  <2> SUFFICES ASSUME NEW r \in Reqs
               PROVE  /\ reqs'[r].op = reqs[r].op /\ reqs'[r].user = reqs[r].user
                      /\ reqs'[r].todo = reqs[r].todo /\ reqs'[r].kind = reqs[r].kind
                      /\ reqs'[r].settled = reqs[r].settled /\ reqs'[r].peeks = reqs[r].peeks
                      /\ reqs'[r].snap.peeks = reqs[r].snap.peeks /\ reqs[r].user \in Users
                      /\ reqs'[r].snap.expires # NoExpiry <=> reqs[r].snap.expires # NoExpiry
    OBVIOUS
  <2> DEFINE snap == [reqs[r].snap EXCEPT !.expires = Nearer(reqs[r].snap.expires)]
  <2>1. reqs[r] \in Request /\ reqs'[r] = [reqs[r] EXCEPT !.snap = snap]
        /\ reqs[r].snap \in PartRecord
    BY DEF Tick, JobsInv, PartInv, TypeOK, Request
  <2>2. Nearer(reqs[r].snap.expires) = NoExpiry <=> reqs[r].snap.expires = NoExpiry
    BY <2>1, NearerLemma DEF PartRecord
  <2>3. snap.peeks = reqs[r].snap.peeks /\ (snap.expires # NoExpiry <=> reqs[r].snap.expires # NoExpiry)
    BY <2>1, <2>2 DEF PartRecord
  <2> HIDE DEF snap
  <2> QED
    BY <2>1, <2>3 DEF Request
<1>3. /\ open' = open
      /\ \A k \in PeekKeys : peekJobs'[k].status = peekJobs[k].status
  BY DEF Tick, event, JobsInv, PartInv, TypeOK, PeekJob
<1>4. \A u \in Users : ActivePeeker(part'[u]) <=> ActivePeeker(part[u])
  BY <1>1 DEF ActivePeeker, IsActive
<1>5. \A r \in Reqs, u \in Users, n \in 1..MaxRequests : Runs(r, u, n)' <=> Runs(r, u, n)
  BY <1>2 DEF Runs
<1>6. (\A r \in Reqs : CallsAhead(reqs[r]))'
  BY <1>2 DEF JobsInv, CallsAhead
<1>7. RunsMatch'
  BY <1>2, <1>3, <1>5 DEF JobsInv, RunsMatch, PeekKeys
<1>8. KeysInOrder'
  BY <1>1, <1>2, <1>3 DEF JobsInv, KeysInOrder, PeekKeys
<1>9. NoneOver'
  <2>1. \A u \in Users, n \in 1..MaxRequests : Over(u, n)' <=> Over(u, n)
    BY <1>2, <1>3, <1>5 DEF Over, PeekKeys
  <2> QED
    BY <1>1, <1>3, <1>4, <2>1 DEF JobsInv, NoneOver
<1>10. AllSeenTo'
  <2>1. Canceled' <=> Canceled
    BY <1>3 DEF Canceled
  <2> SUFFICES ASSUME open, ~ Canceled, NEW u \in Users, ActivePeeker(part[u])
               PROVE  SeenTo(u)'
    BY <1>3, <1>4, <2>1 DEF AllSeenTo
  <2>2. SeenTo(u)
    BY DEF JobsInv, AllSeenTo
  <2>3. ASSUME NEW n \in 1..MaxRequests, Waiting(u, n) PROVE SeenTo(u)'
    BY <1>3, <1>5, <2>3 DEF SeenTo, Waiting, PeekKeys
  <2>4. ASSUME NEW r \in Reqs, WillExpire(reqs[r], u) PROVE SeenTo(u)'
    BY <1>2, <2>4 DEF SeenTo, WillExpire
  <2>5. ASSUME NEW r \in Reqs, WillEnqueue(reqs[r], u) PROVE SeenTo(u)'
    <3>1. ASSUME reqs[r].snap.expires # NoExpiry
          PROVE  <<u, reqs[r].snap.peeks>> \in PeekKeys
      <4>1. reqs[r].snap.peeks \in 0..MaxRequests /\ reqs[r].snap.peeks # 0
        BY <2>5, <3>1 DEF WillEnqueue, JobsInv, KeysInOrder, PartInv, TypeOK, Request, PartRecord
      <4> QED
        BY <4>1, NumbersAssumption DEF PeekKeys
    <3>2. WillEnqueue(reqs[r], u)'
      BY <1>2, <1>3, <2>5, <3>1 DEF WillEnqueue
    <3> QED
      BY <3>2 DEF SeenTo
  <2> QED
    BY <2>2, <2>3, <2>4, <2>5 DEF SeenTo
<1> QED
  BY <1>6, <1>7, <1>8, <1>9, <1>10 DEF JobsInv

LEMMA JobsInit == Init => JobsInv
<1> SUFFICES ASSUME Init PROVE JobsInv
  OBVIOUS
<1>1. PartInv
  BY InitInv
<1>2. \A r \in Reqs : reqs[r] = Idle /\ Idle.op = "none"
  BY IdleLemma DEF Init
<1>3. \A u \in Users : part[u].role = "participant" /\ part[u].expires = NoExpiry
  BY DEF Init, NoPart
<1>4. \A u \in Users, n \in 1..MaxRequests : peekJobs[<<u, n>>].status = "absent"
  BY DEF Init, NoJob, PeekKeys
<1>5. (\A r \in Reqs : CallsAhead(reqs[r])) /\ RunsMatch /\ KeysInOrder
  BY <1>2, <1>3, <1>4 DEF CallsAhead, RunsMatch, Runs, KeysInOrder
<1>6. NoneOver /\ AllSeenTo
  BY <1>3 DEF NoneOver, AllSeenTo, ActivePeeker
<1> QED
  BY <1>1, <1>5, <1>6 DEF JobsInv

LEMMA JobsNext ==
  ASSUME JobsInv, PartInv', "peek" \notin FaultyOps, [Next]_vars
  PROVE  JobsInv'
<1>1. ASSUME NEW r \in Reqs, Step(r) PROVE JobsInv'
  BY <1>1, PlainSteps, JobsUpsert, JobsSetStatus, JobsCancel, JobsEnqueue, JobsLastSteps DEF Step
<1>2. ASSUME NEW r \in Reqs, NEW op \in AllOps, NEW u \in Users, Call(r, op, u) PROVE JobsInv'
  BY <1>2, JobsCall
<1>3. ASSUME NEW r \in Reqs, NEW u \in Users, NEW n \in 1..MaxRequests, RunPeekJob(r, u, n)
      PROVE  JobsInv'
  BY <1>3, JobsRun
<1>4. ASSUME NEW r \in Reqs, Abort(r) PROVE JobsInv'
  BY <1>4, JobsLastSteps
<1>5. CASE Close \/ LoseChannel \/ UNCHANGED vars
  BY <1>5, JobsEnvironment
<1>6. CASE Tick
  BY <1>6, JobsTick
<1> QED
  BY <1>1, <1>2, <1>3, <1>4, <1>5, <1>6 DEF Next

THEOREM JobsInvariance ==
  ASSUME "peek" \notin FaultyOps
  PROVE  Spec => []JobsInv
<1>1. JobsInv /\ [Next]_vars => JobsInv'
  BY NextInv, JobsNext DEF JobsInv
<1> QED
  BY JobsInit, <1>1, PTL DEF Spec

\* docs/04 section 2.5.1, participation.go:171-199: in any interleaving of requests,
\* jobs and failures that leaves the "peek" requests themselves whole, a peek
\* of an open event has a job to end it.
THEOREM PeekEnds ==
  ASSUME "peek" \notin FaultyOps
  PROVE  Spec => []PeekHasJob
<1>1. JobsInv => PeekHasJob
  <2> SUFFICES ASSUME JobsInv, Quiescent, open, ~ Canceled, NEW u \in Users,
                      ActivePeeker(part[u])
               PROVE  \E n \in 1..MaxRequests :
                        peekJobs[<<u, n>>].status \in {"pending", "running"}
    BY DEF PeekHasJob
  <2>1. SeenTo(u)
    BY DEF JobsInv, AllSeenTo
  <2> QED
    BY <2>1 DEF SeenTo, Waiting, WillEnqueue, WillExpire, Quiescent
<1> QED
  BY JobsInvariance, <1>1, PTL

-----------------------------------------------------------------------------
(* The peek jobs keep to JobContract, whatever fails.                      *)

\* Runs are matched by running jobs, in any interleaving.
MatchInv == PartInv /\ RunsMatch

\* The job of a run has its key among the keys, and is running.
LEMMA TakenKey ==
  ASSUME MatchInv, NEW r \in Reqs, reqs[r].op = "expire"
  PROVE  /\ <<reqs[r].user, reqs[r].peeks>> \in PeekKeys
         /\ reqs[r].user \in Users /\ reqs[r].peeks \in 1..MaxRequests
         /\ Runs(r, reqs[r].user, reqs[r].peeks)
         /\ peekJobs[<<reqs[r].user, reqs[r].peeks>>].status = "running"
<1>1. /\ reqs[r].user \in Users /\ reqs[r].peeks \in 0..MaxRequests /\ reqs[r].peeks # 0
  BY DEF MatchInv, RunsMatch, PartInv, TypeOK, Request
<1>2. reqs[r].peeks \in 1..MaxRequests
  BY <1>1, NumbersAssumption
<1>3. Runs(r, reqs[r].user, reqs[r].peeks)
  BY DEF Runs
<1> QED
  BY <1>1, <1>2, <1>3 DEF MatchInv, RunsMatch, PeekKeys

\* Runs that go on keep their running jobs.
LEMMA MatchKept ==
  ASSUME MatchInv,
         \A q \in Reqs, u \in Users, n \in 1..MaxRequests :
           Runs(q, u, n)' => Runs(q, u, n) /\ peekJobs'[<<u, n>>].status = "running",
         \A q \in Reqs : reqs'[q].op = "expire" => reqs'[q].peeks # 0
  PROVE  RunsMatch'
BY DEF MatchInv, RunsMatch

\* A request goes on with what it was at, or ends.
LEMMA RequestRuns ==
  ASSUME MatchInv, NEW r \in Reqs, Step(r) \/ Abort(r)
  PROVE  /\ \A q \in Reqs \ {r} : reqs'[q] = reqs[q]
         /\ \/ reqs'[r] = Idle
            \/ /\ reqs'[r].op = reqs[r].op /\ reqs'[r].user = reqs[r].user
               /\ reqs'[r].peeks = reqs[r].peeks
<1>1. reqs \in [Reqs -> Request] /\ reqs[r] \in Request
  BY DEF MatchInv, PartInv, TypeOK
<1>2. CASE End(r)
  BY <1>1, <1>2 DEF End
<1>3. CASE Advance(r)
  BY <1>1, <1>2, <1>3 DEF Advance, Request
<1>4. CASE ReadToApply(r)
  BY <1>1, <1>2, <1>4 DEF ReadToApply, Request
<1>5. CASE Upsert(r)
  BY <1>1, <1>5 DEF Upsert, Request
<1>6. CASE ReadAfter(r)
  BY <1>1, <1>2, <1>6 DEF ReadAfter, Request
<1>7. CASE ChannelLost(r)
  BY <1>1, <1>2, <1>7 DEF ChannelLost, Request
<1>8. CASE ReadToDetach(r)
  BY <1>1, <1>2, <1>8 DEF ReadToDetach, Request
<1>9. CASE CheckExpiry(r)
  BY <1>1, <1>9 DEF CheckExpiry, Request
<1> QED
  BY <1>2, <1>3, <1>4, <1>5, <1>6, <1>7, <1>8, <1>9
     DEF Step, AddMember, AddCount, CancelPeekJobs, EnqueuePeekJob, RemoveMember, SetStatus,
         PostponePeekJob, FinishPeekJob, Abort

LEMMA RunsAfter ==
  ASSUME MatchInv, NEW r \in Reqs, Step(r) \/ Abort(r)
  PROVE  /\ \A q \in Reqs, u \in Users, n \in 1..MaxRequests : Runs(q, u, n)' => Runs(q, u, n)
         /\ \A q \in Reqs : reqs'[q].op = "expire" => reqs'[q].peeks # 0
         /\ reqs[r].op # "expire" \/ reqs'[r].op = "expire" =>
              \A q \in Reqs, u \in Users, n \in 1..MaxRequests :
                Runs(q, u, n)' <=> Runs(q, u, n)
         /\ reqs'[r] = Idle =>
              \A q \in Reqs, u \in Users, n \in 1..MaxRequests :
                Runs(q, u, n)' <=> Runs(q, u, n) /\ q # r
<1>1. /\ \A q \in Reqs \ {r} : reqs'[q] = reqs[q]
      /\ \/ reqs'[r] = Idle
         \/ /\ reqs'[r].op = reqs[r].op /\ reqs'[r].user = reqs[r].user
            /\ reqs'[r].peeks = reqs[r].peeks
      /\ Idle.op = "none"
  BY RequestRuns, IdleLemma
<1> QED
  BY <1>1 DEF Runs, MatchInv, RunsMatch

-----------------------------------------------------------------------------

\* Which jobs are taken follows from the runs.
LEMMA TakenLemma ==
  ASSUME NEW k \in PeekKeys
  PROVE  /\ k[1] \in Users /\ k[2] \in 1..MaxRequests /\ k = <<k[1], k[2]>>
         /\ Taken(k) <=> \E r \in Reqs : Runs(r, k[1], k[2])
         /\ Taken(k)' <=> \E r \in Reqs : Runs(r, k[1], k[2])'
         /\ Taken(k) \in BOOLEAN /\ Taken(k)' \in BOOLEAN
BY DEF Taken, PeekKeys

LEMMA SameTaken ==
  ASSUME \A q \in Reqs, u \in Users, n \in 1..MaxRequests : Runs(q, u, n)' <=> Runs(q, u, n)
  PROVE  UNCHANGED [k \in PeekKeys |-> Taken(k)]
<1>1. \A k \in PeekKeys : Taken(k)' = Taken(k)
  BY TakenLemma
<1> QED
  BY <1>1, Zenon

\* Job k and who is at work on it change, all other jobs and runs stay.
LEMMA BecomeLemma ==
  ASSUME NEW k \in PeekKeys, NEW s, NEW h \in BOOLEAN,
         peekJobs'[k].status = s, Taken(k)' <=> h,
         \A i \in PeekKeys \ {k} : /\ peekJobs'[i].status = peekJobs[i].status
                                   /\ Taken(i)' <=> Taken(i)
  PROVE  Contract!Become(k, s, h)
<1>1. [i \in PeekKeys |-> peekJobs'[i].status]
        = [[i \in PeekKeys |-> peekJobs[i].status] EXCEPT ![k] = s]
  OBVIOUS
<1>2. [i \in PeekKeys |-> Taken(i)'] = [[i \in PeekKeys |-> Taken(i)] EXCEPT ![k] = h]
  <2>1. \A i \in PeekKeys : Taken(i)' = (IF i = k THEN h ELSE Taken(i))
    BY TakenLemma
  <2> QED
    BY <2>1, Zenon
<1> QED
  BY <1>1, <1>2 DEF Contract!Become

LEMMA DatedLemma ==
  ASSUME NEW k \in PeekKeys, \A i \in PeekKeys \ {k} : peekJobs'[i].runAt = peekJobs[i].runAt
  PROVE  Contract!Dated(k)
<1> DEFINE d == peekJobs'[k].runAt = 0
<1>1. [i \in PeekKeys |-> peekJobs'[i].runAt = 0]
        = [[i \in PeekKeys |-> peekJobs[i].runAt = 0] EXCEPT ![k] = d]
  OBVIOUS
<1>2. d \in BOOLEAN
  OBVIOUS
<1> HIDE DEF d
<1> QED
  BY <1>1, <1>2 DEF Contract!Dated

LEMMA DatesKept ==
  ASSUME \A i \in PeekKeys : peekJobs'[i].runAt = peekJobs[i].runAt
  PROVE  UNCHANGED [i \in PeekKeys |-> peekJobs[i].runAt = 0]
OBVIOUS

\* No run begins, and the jobs stay as they are.
LEMMA AbandonStep ==
  ASSUME MatchInv, UNCHANGED peekJobs,
         \A q \in Reqs, u \in Users, n \in 1..MaxRequests : Runs(q, u, n)' => Runs(q, u, n),
         \A q \in Reqs : reqs'[q].op = "expire" => reqs'[q].peeks # 0
  PROVE  Contract!Next /\ RunsMatch'
<1>1. \A k \in PeekKeys : Taken(k)' => Taken(k)
  BY TakenLemma
<1>2. [k \in PeekKeys |-> Taken(k)'] \in [PeekKeys -> BOOLEAN]
  BY TakenLemma
<1>3. UNCHANGED <<[k \in PeekKeys |-> peekJobs[k].status],
                  [k \in PeekKeys |-> peekJobs[k].runAt = 0]>>
  OBVIOUS
<1>4. Contract!Abandon
  BY <1>1, <1>2, <1>3 DEF Contract!Abandon
<1>5. \A q \in Reqs, u \in Users, n \in 1..MaxRequests :
        Runs(q, u, n) => peekJobs'[<<u, n>>].status = "running"
  BY DEF MatchInv, RunsMatch
<1> QED
  BY <1>4, <1>5, MatchKept DEF Contract!Next

\* Pending jobs are canceled, and the runs go on.
LEMMA CancelStep ==
  ASSUME MatchInv,
         peekJobs' = [k \in PeekKeys |-> IF peekJobs[k].status = "pending"
                                         THEN [peekJobs[k] EXCEPT !.status = "canceled"]
                                         ELSE peekJobs[k]],
         \A q \in Reqs, u \in Users, n \in 1..MaxRequests : Runs(q, u, n)' <=> Runs(q, u, n),
         \A q \in Reqs : reqs'[q].op = "expire" => reqs'[q].peeks # 0
  PROVE  Contract!Next /\ RunsMatch'
<1>1. \A k \in PeekKeys : /\ peekJobs[k] \in PeekJob
                          /\ peekJobs'[k].runAt = peekJobs[k].runAt
                          /\ \/ peekJobs'[k].status = peekJobs[k].status
                             \/ /\ peekJobs[k].status = "pending"
                                /\ peekJobs'[k].status = "canceled"
  BY DEF MatchInv, PartInv, TypeOK, PeekJob
<1>2. [k \in PeekKeys |-> peekJobs'[k].status] \in [PeekKeys -> Contract!Statuses]
  BY <1>1 DEF Contract!Statuses, PeekJob
<1>3. Contract!Cancel
  BY <1>1, <1>2, SameTaken, DatesKept DEF Contract!Cancel
<1>4. \A u \in Users, n \in 1..MaxRequests :
        peekJobs[<<u, n>>].status = "running" => peekJobs'[<<u, n>>].status = "running"
  BY <1>1 DEF PeekKeys
<1>5. \A q \in Reqs, u \in Users, n \in 1..MaxRequests :
        Runs(q, u, n) => peekJobs'[<<u, n>>].status = "running"
  BY <1>4 DEF MatchInv, RunsMatch
<1> QED
  BY <1>3, <1>5, MatchKept DEF Contract!Next

\* Requests other than those that run jobs do not touch the runs.
LEMMA OthersCancel ==
  ASSUME MatchInv, NEW r \in Reqs, CancelPeekJobs(r)
  PROVE  Contract!Next /\ RunsMatch'
<1>1. "cancel" \in Remaining(reqs[r])
  BY AtLemma DEF MatchInv, CancelPeekJobs
<1>2. reqs[r].op # "expire"
  BY <1>1 DEF Remaining
<1>3. /\ \A q \in Reqs, u \in Users, n \in 1..MaxRequests : Runs(q, u, n)' <=> Runs(q, u, n)
      /\ \A q \in Reqs : reqs'[q].op = "expire" => reqs'[q].peeks # 0
  BY <1>2, RunsAfter DEF Step
<1> QED
  BY <1>3, CancelStep DEF CancelPeekJobs

LEMMA LostContract ==
  ASSUME MatchInv, NEW r \in Reqs, ChannelLost(r)
  PROVE  Contract!Next /\ RunsMatch'
<1>1. /\ \A q \in Reqs, u \in Users, n \in 1..MaxRequests : Runs(q, u, n)' => Runs(q, u, n)
      /\ \A q \in Reqs : reqs'[q].op = "expire" => reqs'[q].peeks # 0
  BY RunsAfter DEF Step
<1>2. CASE open
  <2>1. reqs[r].op = "expire" => reqs'[r].op = "expire"
    BY DEF ChannelLost, MatchInv, PartInv, TypeOK, Request
  <2>2. \A q \in Reqs, u \in Users, n \in 1..MaxRequests : Runs(q, u, n)' <=> Runs(q, u, n)
    BY <2>1, RunsAfter DEF Step
  <2> QED
    BY <1>1, <1>2, <2>2, CancelStep DEF ChannelLost, CloseEvent
<1>3. CASE ~ open
  BY <1>1, <1>3, AbandonStep DEF ChannelLost
<1> QED
  BY <1>2, <1>3 DEF MatchInv, PartInv, TypeOK

LEMMA EnqueueStep ==
  ASSUME MatchInv, NEW r \in Reqs, EnqueuePeekJob(r)
  PROVE  Contract!Next /\ RunsMatch'
<1>1. reqs[r].op # "expire"
  BY AtLemma, CallerLemma DEF EnqueuePeekJob, MatchInv, PartInv, TypeOK
<1>2. /\ \A q \in Reqs, u \in Users, n \in 1..MaxRequests : Runs(q, u, n)' <=> Runs(q, u, n)
      /\ \A q \in Reqs : reqs'[q].op = "expire" => reqs'[q].peeks # 0
  BY <1>1, RunsAfter DEF Step
<1>3. CASE UNCHANGED peekJobs
  BY <1>2, <1>3, AbandonStep
<1>4. CASE \E k \in PeekKeys :
             /\ peekJobs[k].status = "absent"
             /\ peekJobs' = [peekJobs EXCEPT ![k] = [status |-> "pending",
                                                     runAt |-> reqs[r].snap.expires]]
  <2>1. PICK k \in PeekKeys :
          /\ peekJobs[k].status = "absent"
          /\ peekJobs' = [peekJobs EXCEPT ![k] = [status |-> "pending",
                                                  runAt |-> reqs[r].snap.expires]]
    BY <1>4
  <2>2. /\ peekJobs'[k].status = "pending"
        /\ \A i \in PeekKeys \ {k} : peekJobs'[i] = peekJobs[i]
    BY <2>1 DEF MatchInv, PartInv, TypeOK
  <2>3. \A q \in Reqs : ~ Runs(q, k[1], k[2])
    BY <2>1, TakenLemma DEF MatchInv, RunsMatch
  <2>4. ~ Taken(k)' /\ \A i \in PeekKeys : Taken(i)' <=> Taken(i)
    BY <1>2, <2>3, TakenLemma
  <2>5. Contract!Become(k, "pending", FALSE)
    BY <2>2, <2>4, BecomeLemma
  <2>6. Contract!Dated(k)
    BY <2>2, DatedLemma
  <2>7. Contract!Enqueue(k)
    BY <2>1, <2>5, <2>6 DEF Contract!Enqueue
  <2>8. ASSUME NEW q \in Reqs, NEW u \in Users, NEW n \in 1..MaxRequests, Runs(q, u, n)
        PROVE  peekJobs'[<<u, n>>].status = "running"
    <3>1. <<u, n>> \in PeekKeys \ {k} /\ peekJobs[<<u, n>>].status = "running"
      BY <2>1, <2>8 DEF MatchInv, RunsMatch, PeekKeys
    <3> QED
      BY <2>2, <3>1
  <2> QED
    BY <1>2, <2>7, <2>8, MatchKept DEF Contract!Next
<1>5. ASSUME NEW key, key \notin PeekKeys, NEW d, peekJobs' = [peekJobs EXCEPT ![key] = d]
      PROVE  UNCHANGED peekJobs
  BY <1>5 DEF MatchInv, PartInv, TypeOK
<1> QED
  BY <1>3, <1>4, <1>5 DEF EnqueuePeekJob

\* The end of run r, with its job k settled or put back.
LEMMA RunEndStep ==
  ASSUME MatchInv, NEW r \in Reqs, reqs[r].op = "expire", Step(r) \/ Abort(r), End(r),
         NEW k, k = <<reqs[r].user, reqs[r].peeks>>,
         NEW d \in PeekJob, peekJobs' = [peekJobs EXCEPT ![k] = d],
         \/ d.status = "pending"
         \/ d.status = "done" /\ d.runAt = peekJobs[k].runAt
  PROVE  Contract!Next /\ RunsMatch'
<1>1. /\ k \in PeekKeys /\ k[1] = reqs[r].user /\ k[2] = reqs[r].peeks
      /\ peekJobs[k].status = "running"
      /\ Runs(r, k[1], k[2]) /\ \A q \in Reqs : Runs(q, k[1], k[2]) => q = r
  BY TakenKey DEF MatchInv, RunsMatch
<1>2. /\ peekJobs'[k] = d
      /\ \A i \in PeekKeys \ {k} : peekJobs'[i] = peekJobs[i]
  BY <1>1 DEF MatchInv, PartInv, TypeOK
<1>3. reqs'[r] = Idle
  BY DEF End, MatchInv, PartInv, TypeOK
<1>4. /\ \A q \in Reqs, u \in Users, n \in 1..MaxRequests :
           Runs(q, u, n)' <=> Runs(q, u, n) /\ q # r
      /\ \A q \in Reqs : reqs'[q].op = "expire" => reqs'[q].peeks # 0
  BY <1>3, RunsAfter
<1>5. Taken(k) /\ ~ Taken(k)'
  BY <1>1, <1>4, TakenLemma
<1>6. ASSUME NEW i \in PeekKeys \ {k} PROVE Taken(i)' <=> Taken(i)
  <2>1. ~ Runs(r, i[1], i[2])
    BY <1>1, TakenLemma DEF Runs
  <2> QED
    BY <1>4, <2>1, TakenLemma
<1>7. ASSUME NEW q \in Reqs, NEW u \in Users, NEW n \in 1..MaxRequests, Runs(q, u, n)'
      PROVE  peekJobs'[<<u, n>>].status = "running"
  <2>1. Runs(q, u, n) /\ q # r
    BY <1>4, <1>7
  <2>2. <<u, n>> \in PeekKeys \ {k} /\ peekJobs[<<u, n>>].status = "running"
    BY <1>1, <2>1 DEF MatchInv, RunsMatch, PeekKeys
  <2> QED
    BY <1>2, <2>2
<1>8. RunsMatch'
  BY <1>4, <1>7, MatchKept
<1>9. CASE d.status = "pending"
  <2>1. Contract!Become(k, "pending", FALSE)
    BY <1>1, <1>2, <1>5, <1>6, <1>9, BecomeLemma
  <2>2. Contract!Dated(k)
    BY <1>1, <1>2, DatedLemma
  <2>3. Contract!PutBack(k)
    BY <1>1, <1>5, <2>1, <2>2 DEF Contract!PutBack, Contract!AtWork
  <2> QED
    BY <1>1, <1>8, <2>3 DEF Contract!Next
<1>10. CASE d.status = "done" /\ d.runAt = peekJobs[k].runAt
  <2>1. Contract!Become(k, "done", FALSE)
    BY <1>1, <1>2, <1>5, <1>6, <1>10, BecomeLemma
  <2>2. UNCHANGED [i \in PeekKeys |-> peekJobs[i].runAt = 0]
    BY <1>2, <1>10, DatesKept
  <2>3. Contract!Settle(k)
    BY <1>1, <1>5, <2>1, <2>2 DEF Contract!Settle, Contract!AtWork
  <2> QED
    BY <1>1, <1>8, <2>3 DEF Contract!Next
<1> QED
  BY <1>9, <1>10

LEMMA LastContract ==
  ASSUME MatchInv, NEW r \in Reqs, PostponePeekJob(r) \/ FinishPeekJob(r)
  PROVE  Contract!Next /\ RunsMatch'
<1> DEFINE k == <<reqs[r].user, reqs[r].peeks>>
<1>1. reqs[r] \in Request /\ reqs[r].op = "expire" /\ Step(r) /\ End(r)
  BY AtLemma, CallerLemma
     DEF PostponePeekJob, FinishPeekJob, MatchInv, PartInv, TypeOK, Step
<1>2. k \in PeekKeys /\ peekJobs[k] \in PeekJob
  BY <1>1, TakenKey DEF MatchInv, PartInv, TypeOK
<1>3. CASE PostponePeekJob(r)
  <2>1. reqs[r].snap.expires # NoExpiry
    BY <1>1, <1>3, AtLemma, CallerLemma DEF PostponePeekJob, MatchInv
  <2>2. reqs[r].snap.expires \in 0..PeekDuration
    BY <1>1, <2>1, NumbersAssumption DEF Request, PartRecord, NoExpiry
  <2>3. [status |-> "pending", runAt |-> reqs[r].snap.expires] \in PeekJob
    BY <2>2 DEF PeekJob
  <2>4. peekJobs' = [peekJobs EXCEPT ![k] = [status |-> "pending",
                                             runAt |-> reqs[r].snap.expires]]
    BY <1>3 DEF PostponePeekJob
  <2> HIDE DEF k
  <2> QED
    BY <1>1, <2>3, <2>4, RunEndStep DEF k
<1>4. CASE FinishPeekJob(r)
  <2>1. PICK d \in PeekJob : /\ d = [peekJobs[k] EXCEPT !.status = "done"]
                             /\ d.status = "done" /\ d.runAt = peekJobs[k].runAt
    <3>1. PICK old \in PeekJob : old = peekJobs[k]
      BY <1>2
    <3>2. /\ [old EXCEPT !.status = "done"] \in PeekJob
          /\ [old EXCEPT !.status = "done"].status = "done"
          /\ [old EXCEPT !.status = "done"].runAt = old.runAt
      BY DEF PeekJob
    <3> QED
      BY <3>1, <3>2
  <2>2. peekJobs' = [peekJobs EXCEPT ![k] = d]
    BY <1>4, <2>1 DEF FinishPeekJob
  <2> HIDE DEF k
  <2> QED
    BY <1>1, <2>1, <2>2, RunEndStep DEF k
<1> QED
  BY <1>3, <1>4

LEMMA AbortContract ==
  ASSUME MatchInv, NEW r \in Reqs, Abort(r)
  PROVE  Contract!Next /\ RunsMatch'
<1> DEFINE k == <<reqs[r].user, reqs[r].peeks>>
           d == [status |-> "pending", runAt |-> 0]
<1>1. CASE UNCHANGED peekJobs
  BY <1>1, RunsAfter, AbandonStep
<1>2. CASE reqs[r].op = "expire" /\ peekJobs' = [peekJobs EXCEPT ![k] = d]
  <2>1. d \in PeekJob /\ d.status = "pending"
    BY NumbersAssumption DEF PeekJob
  <2>2. End(r)
    BY DEF Abort
  <2> HIDE DEF k, d
  <2> QED
    BY <1>2, <2>1, <2>2, RunEndStep DEF k
<1> QED
  BY <1>1, <1>2 DEF Abort

LEMMA RunContract ==
  ASSUME MatchInv, NEW r \in Reqs, NEW u \in Users, NEW n \in 1..MaxRequests,
         RunPeekJob(r, u, n)
  PROVE  Contract!Next /\ RunsMatch'
<1>1. PICK k \in PeekKeys : k = <<u, n>> /\ k[1] = u /\ k[2] = n
  <2>1. <<u, n>> \in PeekKeys
    BY DEF PeekKeys
  <2> QED
    BY <2>1
<1>2. /\ reqs[r] = Idle /\ Idle.op = "none"
      /\ peekJobs' = [peekJobs EXCEPT ![k].status = "running"]
      /\ \/ peekJobs[k].status = "pending" /\ peekJobs[k].runAt = 0
         \/ peekJobs[k].status = "running" /\ \A q \in Reqs : ~ Runs(q, u, n)
  BY <1>1, IdleLemma DEF RunPeekJob, Claimable
<1>3. /\ peekJobs'[k].status = "running" /\ peekJobs'[k].runAt = peekJobs[k].runAt
      /\ \A i \in PeekKeys \ {k} : peekJobs'[i] = peekJobs[i]
  BY <1>2 DEF MatchInv, PartInv, TypeOK, PeekJob
<1>4. \A q \in Reqs : ~ Runs(q, u, n)
  BY <1>1, <1>2 DEF MatchInv, RunsMatch
<1>5. /\ reqs'[r].op = "expire" /\ reqs'[r].user = u /\ reqs'[r].peeks = n
      /\ \A q \in Reqs \ {r} : reqs'[q] = reqs[q]
  BY DEF RunPeekJob, MatchInv, PartInv, TypeOK, Idle
<1>6. \A q \in Reqs, v \in Users, m \in 1..MaxRequests :
        Runs(q, v, m)' <=> Runs(q, v, m) \/ (q = r /\ v = u /\ m = n)
  BY <1>2, <1>5 DEF Runs
<1>7. ~ Taken(k) /\ Taken(k)'
  BY <1>1, <1>4, <1>6, TakenLemma
<1>8. ASSUME NEW i \in PeekKeys \ {k} PROVE Taken(i)' <=> Taken(i)
  <2>1. ~ (i[1] = u /\ i[2] = n)
    BY <1>1, TakenLemma
  <2> QED
    BY <1>6, <2>1, TakenLemma
<1>9. Contract!Become(k, "running", TRUE)
  BY <1>3, <1>7, <1>8, BecomeLemma
<1>10. UNCHANGED [i \in PeekKeys |-> peekJobs[i].runAt = 0]
  BY <1>3, DatesKept
<1>11. Contract!Takeable(k)
  BY <1>2, <1>7 DEF Contract!Takeable
<1>12. Contract!TakeUp(k)
  BY <1>9, <1>10, <1>11 DEF Contract!TakeUp
<1>13. ASSUME NEW q \in Reqs, NEW v \in Users, NEW m \in 1..MaxRequests, Runs(q, v, m)'
       PROVE  peekJobs'[<<v, m>>].status = "running"
  <2>1. CASE <<v, m>> = k
    BY <1>3, <2>1
  <2>2. CASE <<v, m>> # k
    <3>1. <<v, m>> \in PeekKeys \ {k} /\ Runs(q, v, m)
      BY <1>1, <1>6, <1>13, <2>2 DEF PeekKeys
    <3> QED
      BY <1>3, <3>1 DEF MatchInv, RunsMatch
  <2> QED
    BY <2>1, <2>2
<1>14. \A p, q \in Reqs : \A v \in Users : \A m \in 1..MaxRequests :
         Runs(p, v, m)' /\ Runs(q, v, m)' => p = q
  BY <1>4, <1>6 DEF MatchInv, RunsMatch
<1>15. \A q \in Reqs : reqs'[q].op = "expire" => reqs'[q].peeks # 0
  BY <1>5 DEF MatchInv, RunsMatch
<1> QED
  BY <1>12, <1>13, <1>14, <1>15 DEF RunsMatch, Contract!Next

LEMMA TickContract ==
  ASSUME MatchInv, Tick
  PROVE  Contract!Next /\ RunsMatch'
<1>1. ASSUME NEW r \in Reqs
      PROVE  /\ reqs'[r].op = reqs[r].op /\ reqs'[r].user = reqs[r].user
             /\ reqs'[r].peeks = reqs[r].peeks
  BY DEF Tick, MatchInv, PartInv, TypeOK, Request
<1>2. ASSUME NEW k \in PeekKeys
      PROVE  /\ peekJobs'[k].status = peekJobs[k].status
             /\ peekJobs[k].runAt = 0 => peekJobs'[k].runAt = 0
  <2>1. peekJobs[k] \in PeekJob
        /\ peekJobs'[k] = [peekJobs[k] EXCEPT !.runAt = Nearer(peekJobs[k].runAt)]
    BY DEF Tick, MatchInv, PartInv, TypeOK
  <2> QED
    BY <2>1 DEF PeekJob, Nearer
<1>3. \A q \in Reqs, u \in Users, n \in 1..MaxRequests : Runs(q, u, n)' <=> Runs(q, u, n)
  BY <1>1 DEF Runs
<1>4. [k \in PeekKeys |-> peekJobs'[k].runAt = 0] \in [PeekKeys -> BOOLEAN]
  OBVIOUS
<1>5. Contract!Pass
  BY <1>2, <1>3, <1>4, SameTaken DEF Contract!Pass
<1>6. \A q \in Reqs, u \in Users, n \in 1..MaxRequests :
        Runs(q, u, n) => peekJobs'[<<u, n>>].status = "running"
  BY <1>2 DEF MatchInv, RunsMatch, PeekKeys
<1>7. \A q \in Reqs : reqs'[q].op = "expire" => reqs'[q].peeks # 0
  BY <1>1 DEF MatchInv, RunsMatch
<1> QED
  BY <1>3, <1>5, <1>6, <1>7, MatchKept DEF Contract!Next

LEMMA NextContract ==
  ASSUME MatchInv, [Next]_vars
  PROVE  Contract!Next /\ RunsMatch'
<1>0. \A q \in Reqs : reqs[q].op = "expire" => reqs[q].peeks # 0
  BY DEF MatchInv, RunsMatch
<1>1. ASSUME NEW r \in Reqs, Step(r) PROVE Contract!Next /\ RunsMatch'
  <2>1. CASE UNCHANGED peekJobs
    BY <1>1, <2>1, RunsAfter, AbandonStep
  <2> QED
    BY <1>1, <2>1, OthersCancel, LostContract, EnqueueStep, LastContract
       DEF Step, ReadToApply, Upsert, ReadAfter, AddMember, AddCount, ReadToDetach,
           RemoveMember, SetStatus, CheckExpiry
<1>2. ASSUME NEW r \in Reqs, NEW op \in AllOps, NEW u \in Users, Call(r, op, u)
      PROVE  Contract!Next /\ RunsMatch'
  <2>1. \A q \in Reqs : reqs'[q] = reqs[q] \/ reqs'[q].op # "expire"
    BY <1>2 DEF Call, AllOps, MatchInv, PartInv, TypeOK, Idle
  <2>2. \A q \in Reqs, v \in Users, n \in 1..MaxRequests : Runs(q, v, n)' => Runs(q, v, n)
    BY <2>1 DEF Runs
  <2> QED
    BY <1>0, <1>2, <2>1, <2>2, AbandonStep DEF Call
<1>3. CASE Close
  <2>1. \A q \in Reqs, u \in Users, n \in 1..MaxRequests : Runs(q, u, n)' <=> Runs(q, u, n)
    BY <1>3 DEF Close, Runs
  <2> QED
    BY <1>0, <1>3, <2>1, CancelStep DEF Close, CloseEvent
<1>4. CASE LoseChannel \/ UNCHANGED vars
  <2>1. UNCHANGED <<peekJobs, reqs>>
    BY <1>4 DEF LoseChannel, vars
  <2>2. \A q \in Reqs, u \in Users, n \in 1..MaxRequests : Runs(q, u, n)' <=> Runs(q, u, n)
    BY <2>1 DEF Runs
  <2> QED
    BY <1>0, <2>1, <2>2, AbandonStep
<1> QED
  BY <1>1, <1>2, <1>3, <1>4, RunContract, AbortContract, TickContract DEF Next

LEMMA InitContract == Init => Contract!Init /\ RunsMatch
<1> SUFFICES ASSUME Init PROVE Contract!Init /\ RunsMatch
  OBVIOUS
<1>1. \A r \in Reqs : reqs[r].op = "none"
  BY IdleLemma DEF Init
<1>2. \A k \in PeekKeys : Taken(k) = FALSE
  BY <1>1 DEF Taken, Runs
<1>3. [k \in PeekKeys |-> Taken(k)] = [k \in PeekKeys |-> FALSE]
  BY <1>2, Zenon
<1>4. [k \in PeekKeys |-> peekJobs[k].status] = [k \in PeekKeys |-> "absent"]
  BY DEF Init, NoJob
<1>5. [k \in PeekKeys |-> peekJobs[k].runAt = 0] \in [PeekKeys -> BOOLEAN]
  OBVIOUS
<1>6. Contract!Init
  BY <1>3, <1>4, <1>5 DEF Contract!Init
<1> QED
  BY <1>1, <1>6 DEF RunsMatch, Runs

\* handler.go:69-84, jobs.go:81: whatever requests, cancellations, failures and
\* lost channels come together, the peek jobs keep to JobContract.
THEOREM PeekJobsContract == Spec => PeekJobsAsAgreed
<1>1. Init => Contract!Init /\ MatchInv
  BY InitInv, InitContract DEF MatchInv
<1>2. MatchInv /\ [Next]_vars => MatchInv'
  BY NextInv, NextContract DEF MatchInv
<1>3. MatchInv /\ [Next]_vars => [Contract!Next]_(Contract!vars)
  BY NextContract
<1> QED
  BY <1>1, <1>2, <1>3, PTL DEF Spec, PeekJobsAsAgreed, Contract!Spec

=============================================================================
