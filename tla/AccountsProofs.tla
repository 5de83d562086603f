--------------------------- MODULE AccountsProofs ---------------------------
(***************************************************************************)
(* Theorems about the links of chat users to console users, for any number *)
(* of users, tokens and requests at a time, whatever overlaps or fails.    *)
(***************************************************************************)
EXTENDS Accounts, TLAPS

-----------------------------------------------------------------------------
(* The inductive invariant.                                                *)

Token == [id : Names, chat : Names, expires : Nat, consumed : Times \cup {Never}]

Identity == [id : Ids, user : Names \cup {None}, workspace : {Workspace},
             chat : Names, linked : Times]

\* The linking of accounts writes two collections.
StoreOK ==
  /\ db = [c \in Collections |-> db[c]]
  /\ db["tokens"] \subseteq Token
  /\ db["identities"] \subseteq Identity
  /\ \A c \in Collections \ {"tokens", "identities"} : db[c] = {}
  /\ given \subseteq Ids
  /\ now \in Times

\* An id is given once, so that no other link ever takes the place of one.
LinksUnique ==
  /\ \A d \in db["identities"] : d.id \in given
  /\ \A d, e \in db["identities"] : d.id = e.id \/ d.chat = e.chat => d = e

TokensUnique == \A d, e \in db["tokens"] : d.id = e.id => d = e

TokensKnown ==
  \A d \in db["tokens"] :
    /\ d.id \in DOMAIN issued
    /\ d.chat = issued[d.id].chat /\ d.expires = issued[d.id].expires

\* A token that is used up cannot be used again, and never comes back.
Used(t) == t \in DOMAIN issued /\ \A d \in db["tokens"] : d.id = t => d.consumed # Never

\* A request that has consumed a token and is yet to make the link.
Holds(r) == reqs[r].step \in {"workspace", "link"}

\* The token is the request's alone, and has not made a link.
HoldersOK ==
  \A r \in Reqs : Holds(r) =>
    /\ Used(reqs[r].token)
    /\ reqs[r].chat = issued[reqs[r].token].chat
    /\ reqs[r].at < issued[reqs[r].token].expires
    /\ \A m \in made : m.token # reqs[r].token
    /\ \A q \in Reqs : Holds(q) /\ reqs[q].token = reqs[r].token => q = r

MadeOK == \A m \in made : Used(m.token)

\* A request that is about to remove a link is of one of its sides.
IsSideOf(req, d) ==
  \/ req.op = "unlink" /\ req.who = d.user
  \/ req.op = "unlink_chat" /\ req.who = d.chat

RemoversOK ==
  \A r \in Reqs : reqs[r].step = "unlink" =>
    /\ reqs[r].id \in given
    /\ \A d \in db["identities"] : d.id = reqs[r].id => IsSideOf(reqs[r], d)

\* Each step is of one kind of request.
OpsFollow ==
  \A r \in Reqs :
    /\ reqs[r].step \in {"resolve", "issue"} => reqs[r].who \in Names
    /\ reqs[r].step = "list" => reqs[r].op = "unlink"
    /\ reqs[r].step = "get" => reqs[r].op = "unlink_chat"

LinkInv ==
  /\ AccountsTypeOK /\ StoreOK /\ OpsFollow
  /\ LinksUnique /\ TokensUnique /\ TokensKnown
  /\ HoldersOK /\ MadeOK /\ RemoversOK
  /\ TokenLinksOnce /\ LinkedByOwner /\ SpentTokenLinks

-----------------------------------------------------------------------------
(* What the operations of the store do.                                    *)

LEMMA CollectionsLemma == {"tokens", "identities"} \subseteq Collections
BY DEF Collections

\* One collection is written, the others stay.
LEMMA StoreLemma ==
  ASSUME StoreOK, NEW c \in Collections, NEW S, Store(c, S)
  PROVE  /\ db' = [b \in Collections |-> db'[b]]
         /\ db'[c] = S
         /\ \A b \in Collections \ {c} : db'[b] = db[b]
         /\ UNCHANGED <<given, now>>
BY DEF StoreOK, Store, Write

\* InsertAs, with a token.
LEMMA CreateTokenLemma ==
  ASSUME StoreOK, NEW t, NEW c, NEW e, CreateToken(t, c, e)
  PROVE  /\ UNCHANGED <<given, now>>
         /\ \/ UNCHANGED db
            \/ /\ WithId("tokens", t) = {}
               /\ Store("tokens", db["tokens"] \cup
                          {[id |-> t, chat |-> c, expires |-> e, consumed |-> Never]})
BY DEF CreateToken, InsertAs, Refuse, Store, Write

\* A usable token is used up, or nothing is changed.
LEMMA ConsumeTokenLemma ==
  ASSUME StoreOK, NEW t, ConsumeToken(t)
  PROVE  \/ ans'.err # "none" /\ UNCHANGED <<db, given, now>>
         \/ /\ ans'.err = "none"
            /\ \E d \in db["tokens"] :
                 /\ d.id = t /\ Usable(d)
                 /\ ans'.docs[1] = [d EXCEPT !.consumed = now]
                 /\ Store("tokens",
                          (db["tokens"] \ {d}) \cup {[d EXCEPT !.consumed = now]})
<1> DEFINE found == WithId("tokens", t)
<1>1. CASE \E d \in found : ~ Usable(d)
  <2>1. \E err \in Errors : Refuse("ConsumeToken", err)
    BY <1>1 DEF ConsumeToken, Errors
  <2> QED
    BY <2>1 DEF Refuse, Errors
<1>2. CASE (\A d \in found : Usable(d)) /\ found = {}
  BY <1>2 DEF ConsumeToken, FindOneAndUpdate, Refuse
<1>3. CASE (\A d \in found : Usable(d)) /\ found # {}
  <2>1. PICK d \in found :
          /\ Reply("ConsumeToken", <<[d EXCEPT !.consumed = now]>>, 1)
          /\ Store("tokens", (db["tokens"] \ {d}) \cup {[d EXCEPT !.consumed = now]})
    BY <1>3 DEF ConsumeToken, FindOneAndUpdate
  <2>2. ans'.err = "none" /\ ans'.docs[1] = [d EXCEPT !.consumed = now]
    BY <2>1 DEF Reply
  <2>3. d \in db["tokens"] /\ d.id = t /\ Usable(d)
    BY <1>3 DEF WithId
  <2> QED
    BY <2>1, <2>2, <2>3
<1> QED
  BY <1>1, <1>2, <1>3

\* A link with a new id, unless the chat user is linked already.
LinkRefused(c) ==
  /\ ans'.err # "none" /\ UNCHANGED <<db, given, now>>
  /\ \E d \in db["identities"] : d.chat = c

LinkMade(u, c, at) ==
  /\ ans'.err = "none"
  /\ \A d \in db["identities"] : d.chat # c
  /\ \E id \in Ids \ given : \E doc :
       /\ doc = [id |-> id, user |-> u, workspace |-> Workspace, chat |-> c, linked |-> at]
       /\ ans'.docs[1] = doc /\ given' = given \cup {id}
       /\ Write("identities", db["identities"] \cup {doc})

LEMMA LinkLemma ==
  ASSUME StoreOK, NEW u, NEW c, NEW at, Link(u, Workspace, c, at)
  PROVE  LinkRefused(c) \/ LinkMade(u, c, at)
<1>1. CASE OfChat(Workspace, c) # {}
  BY <1>1 DEF Link, Insert, Refuse, OfChat, LinkRefused
<1>2. CASE OfChat(Workspace, c) = {}
  <2>1. \A d \in db["identities"] : d.chat # c
    BY <1>2 DEF OfChat, StoreOK, Identity
  <2> DEFINE doc(id) == [id |-> id, user |-> u, workspace |-> Workspace,
                         chat |-> c, linked |-> at]
  <2>2. PICK id \in Ids \ given :
          /\ given' = given \cup {id}
          /\ Reply("Link", <<doc(id)>>, 1)
          /\ Write("identities", db["identities"] \cup {doc(id)})
    BY <1>2 DEF Link, Insert, Fresh
  <2>3. ans'.err = "none" /\ ans'.docs[1] = doc(id)
    BY <2>2 DEF Reply
  <2>4. \E d : d = doc(id)
    OBVIOUS
  <2> QED
    BY <2>1, <2>2, <2>3, <2>4 DEF LinkMade
<1> QED
  BY <1>1, <1>2

LEMMA UnlinkLemma ==
  ASSUME StoreOK, NEW id, Unlink(id)
  PROVE  \/ UNCHANGED <<db, given, now>>
         \/ Store("identities", {d \in db["identities"] : d.id # id})
<1>1. db["identities"] \ WithId("identities", id) = {d \in db["identities"] : d.id # id}
  BY DEF WithId
<1> QED
  BY <1>1 DEF Unlink, Refuse, DeleteMany

\* Only tokens can be outdated here.
LEMMA ReapLemma ==
  ASSUME StoreOK, Reap
  PROVE  \E S \in SUBSET db["tokens"] : Store("tokens", S)
<1>1. PICK c \in {"jobs", "tokens", "sessions", "states"} :
        \E d \in Outdated(c) : Store(c, db[c] \ {d})
  BY DEF Reap
<1>2. Outdated(c) \subseteq db[c]
  BY DEF Outdated
<1>3. c = "tokens"
  BY <1>1, <1>2 DEF StoreOK, Collections
<1> QED
  BY <1>1, <1>3

-----------------------------------------------------------------------------
(* The steps of requests that only read.                                   *)

LEMMA BoundLemma == {MaxCalls, MaxFaults} \subseteq Nat /\ 0 \in Times /\ Times \subseteq Nat
BY AccountsAssumption, StoreAssumption DEF Times

LEMMA IdleLemma == Idle \in Request
BY BoundLemma DEF Idle, Request, Ops, Steps, None

\* A request takes a step that changes nothing else, and holds no token after it.
LEMMA ReadLemma ==
  ASSUME LinkInv, NEW r \in Reqs, NEW req \in Request,
         reqs' = [reqs EXCEPT ![r] = req],
         req.step \notin {"workspace", "link"},
         req.step = "unlink" =>
           /\ req.id \in given
           /\ \A d \in db["identities"] : d.id = req.id => IsSideOf(req, d),
         req.step \in {"resolve", "issue"} => req.who \in Names,
         req.step = "list" => req.op = "unlink",
         req.step = "get" => req.op = "unlink_chat",
         UNCHANGED <<db, given, now, issued, made>>,
         called' \in 0..MaxCalls, faults' \in 0..MaxFaults,
         faults' # 0 \/ (faults' = faults /\ ~ Holds(r))
  PROVE  LinkInv'
<1>1. AccountsTypeOK' /\ StoreOK'
  BY DEF LinkInv, AccountsTypeOK, StoreOK
<1>2. LinksUnique' /\ TokensUnique' /\ TokensKnown' /\ MadeOK' /\ TokenLinksOnce' /\ LinkedByOwner'
  BY DEF LinkInv, LinksUnique, TokensUnique, TokensKnown, MadeOK, Used, TokenLinksOnce,
     LinkedByOwner
<1>3. \A q \in Reqs : reqs'[q] = IF q = r THEN req ELSE reqs[q]
  BY DEF LinkInv, AccountsTypeOK
<1>4. HoldersOK'
  BY <1>3 DEF LinkInv, HoldersOK, Holds, Used
<1>5. RemoversOK'
  BY <1>3 DEF LinkInv, RemoversOK, IsSideOf
<1>6. OpsFollow'
  BY <1>3 DEF LinkInv, OpsFollow
<1>7. SpentTokenLinks'
  <2>1. CASE faults' # 0
    BY <2>1 DEF SpentTokenLinks
  <2>2. CASE faults' = faults /\ ~ Holds(r)
    BY <1>3, <2>2 DEF LinkInv, SpentTokenLinks, Holds
  <2> QED
    BY <2>1, <2>2
<1> QED
  BY <1>1, <1>2, <1>4, <1>5, <1>6, <1>7 DEF LinkInv

LEMMA CallLemma ==
  ASSUME LinkInv, NEW r \in Reqs, NEW req \in Request, Call(r, req),
         req.step \notin {"workspace", "link", "unlink"},
         req.step \in {"resolve", "issue"} => req.who \in Names,
         req.step = "list" => req.op = "unlink",
         req.step = "get" => req.op = "unlink_chat"
  PROVE  LinkInv'
<1>1. called' \in 0..MaxCalls /\ faults' \in 0..MaxFaults /\ faults' = faults
  BY BoundLemma DEF Call, LinkInv, AccountsTypeOK
<1>2. ~ Holds(r)
  BY DEF Call, Idle, Holds
<1> QED
  BY <1>1, <1>2, ReadLemma DEF Call, GoOn, storeVars

\* The beginnings of requests.
LEMMA BeginLemma ==
  ASSUME LinkInv, NEW r \in Reqs,
         \/ \E n \in Names : Login(r, n) \/ UnlinkChatUser(r, n)
         \/ \E u \in Names, t \in DOMAIN issued : Confirm(r, u, t)
         \/ \E u \in Names, id \in given : UnlinkId(r, u, id)
  PROVE  LinkInv'
<1> USE IdleLemma
<1>1. ASSUME NEW n \in Names, Login(r, n) \/ UnlinkChatUser(r, n) PROVE LinkInv'
  <2>1. /\ [Idle EXCEPT !.op = "login", !.step = "resolve", !.who = n] \in Request
        /\ [Idle EXCEPT !.op = "unlink_chat", !.step = "get", !.who = n] \in Request
    BY DEF Request, Ops, Steps
  <2>2. /\ [Idle EXCEPT !.op = "login", !.step = "resolve", !.who = n].step = "resolve"
        /\ [Idle EXCEPT !.op = "unlink_chat", !.step = "get", !.who = n].step = "get"
        /\ [Idle EXCEPT !.op = "unlink_chat", !.step = "get", !.who = n].op = "unlink_chat"
        /\ [Idle EXCEPT !.op = "login", !.step = "resolve", !.who = n].who = n
    BY DEF Request
  <2> QED
    BY <1>1, <2>1, <2>2, CallLemma DEF Login, UnlinkChatUser
<1>2. ASSUME NEW u \in Names, NEW t \in DOMAIN issued, Confirm(r, u, t) PROVE LinkInv'
  <2>1. t \in Names
    BY DEF LinkInv, AccountsTypeOK
  <2>2. [Idle EXCEPT !.op = "link", !.step = "consume", !.who = u, !.token = t] \in Request
    BY <2>1 DEF Request, Ops, Steps
  <2>3. [Idle EXCEPT !.op = "link", !.step = "consume", !.who = u, !.token = t].step = "consume"
    BY DEF Request
  <2> QED
    BY <1>2, <2>2, <2>3, CallLemma DEF Confirm
<1>3. ASSUME NEW u \in Names, NEW id \in given, UnlinkId(r, u, id) PROVE LinkInv'
  <2>1. id \in Ids
    BY DEF LinkInv, StoreOK
  <2>2. [Idle EXCEPT !.op = "unlink", !.step = "list", !.who = u, !.id = id] \in Request
    BY <2>1 DEF Request, Ops, Steps
  <2>3. [Idle EXCEPT !.op = "unlink", !.step = "list", !.who = u, !.id = id].step = "list"
        /\ [Idle EXCEPT !.op = "unlink", !.step = "list", !.who = u, !.id = id].op = "unlink"
    BY DEF Request
  <2> QED
    BY <1>3, <2>2, <2>3, CallLemma DEF UnlinkId
<1> QED
  BY <1>1, <1>2, <1>3

\* The looks at the links, and failures.
LEMMA LookLemma ==
  ASSUME LinkInv, NEW r \in Reqs,
         ResolveConsoleUser(r) \/ ListOwn(r) \/ GetOfChat(r) \/ Abort(r)
  PROVE  LinkInv'
<1>0. /\ reqs[r] \in Request /\ Idle \in Request /\ Idle.step = "none"
      /\ called \in 0..MaxCalls /\ faults \in 0..MaxFaults
  BY IdleLemma DEF LinkInv, AccountsTypeOK, Idle
<1>1. CASE ResolveConsoleUser(r)
  <2>1. ~ Holds(r)
    BY <1>1 DEF ResolveConsoleUser, At, Holds
  <2>2. /\ [reqs[r] EXCEPT !.step = "issue"] \in Request
        /\ [reqs[r] EXCEPT !.step = "issue"].step = "issue"
        /\ [reqs[r] EXCEPT !.step = "issue"].who \in Names
    BY <1>0, <1>1 DEF Request, Steps, ResolveConsoleUser, At, LinkInv, OpsFollow
  <2> QED
    BY <1>0, <1>1, <2>1, <2>2, ReadLemma DEF ResolveConsoleUser, Read, storeVars, End, GoOn
<1>2. CASE ListOwn(r)
  <2>1. ~ Holds(r)
    BY <1>2 DEF ListOwn, At, Holds
  <2> DEFINE req == [reqs[r] EXCEPT !.step = "unlink"]
  <2>2. req \in Request /\ req.step = "unlink" /\ req.id = reqs[r].id
        /\ req.op = reqs[r].op /\ req.who = reqs[r].who
    BY <1>0 DEF Request, Steps
  <2>3. CASE Own(reqs[r].who, reqs[r].id) = {}
    BY <1>0, <1>2, <2>1, <2>3, ReadLemma DEF ListOwn, Read, storeVars, End, GoOn
  <2>4. CASE Own(reqs[r].who, reqs[r].id) # {}
    <3>1. PICK d \in db["identities"] : d.user = reqs[r].who /\ d.id = reqs[r].id
      BY <2>4 DEF Own
    <3>2. /\ req.id \in given
          /\ \A e \in db["identities"] : e.id = req.id => e = d
      BY <2>2, <3>1 DEF LinkInv, LinksUnique
    <3>3. req.op = "unlink"
      BY <1>2, <2>2 DEF ListOwn, At, LinkInv, OpsFollow
    <3> QED
      BY <1>0, <1>2, <2>1, <2>2, <2>4, <3>1, <3>2, <3>3, ReadLemma
      DEF ListOwn, Read, storeVars, GoOn, IsSideOf
  <2> QED
    BY <2>3, <2>4
<1>3. CASE GetOfChat(r)
  <2>1. ~ Holds(r)
    BY <1>3 DEF GetOfChat, At, Holds
  <2>3. CASE OfChat(Workspace, reqs[r].who) = {}
    BY <1>0, <1>3, <2>1, <2>3, ReadLemma DEF GetOfChat, Read, storeVars, End, GoOn
  <2>4. CASE OfChat(Workspace, reqs[r].who) # {}
    <3>1. PICK d \in OfChat(Workspace, reqs[r].who) :
            GoOn(r, [reqs[r] EXCEPT !.step = "unlink", !.id = d.id])
      BY <1>3, <2>4 DEF GetOfChat
    <3> DEFINE req == [reqs[r] EXCEPT !.step = "unlink", !.id = d.id]
    <3>2. d \in db["identities"] /\ d.chat = reqs[r].who /\ d.id \in Ids
      BY DEF OfChat, LinkInv, StoreOK, Identity
    <3>3. req \in Request /\ req.step = "unlink" /\ req.id = d.id
          /\ req.op = reqs[r].op /\ req.who = reqs[r].who
      BY <1>0, <3>2 DEF Request, Steps
    <3>4. /\ req.id \in given
          /\ \A e \in db["identities"] : e.id = req.id => e = d
      BY <3>2, <3>3 DEF LinkInv, LinksUnique
    <3>5. req.op = "unlink_chat"
      BY <1>3, <3>3 DEF GetOfChat, At, LinkInv, OpsFollow
    <3> QED
      BY <1>0, <1>3, <2>1, <3>1, <3>2, <3>3, <3>4, <3>5, ReadLemma
      DEF GetOfChat, Read, storeVars, GoOn, IsSideOf
  <2> QED
    BY <2>3, <2>4
<1>4. CASE Abort(r)
  <2>1. faults' \in 0..MaxFaults /\ faults' # 0
    BY <1>0, <1>4, BoundLemma DEF Abort
  <2> QED
    BY <1>0, <1>4, <2>1, ReadLemma DEF Abort, storeVars, End, GoOn
<1> QED
  BY <1>1, <1>2, <1>3, <1>4

-----------------------------------------------------------------------------
(* The steps that write.                                                   *)

LEMMA IssueLemma ==
  ASSUME LinkInv, NEW r \in Reqs, IssueLinkToken(r)
  PROVE  LinkInv'
<1>1. PICK t \in Names \ DOMAIN issued :
        /\ CreateToken(t, reqs[r].who, now + TTL)
        /\ issued' = [u \in DOMAIN issued \cup {t} |->
                        IF u = t THEN [chat |-> reqs[r].who, expires |-> now + TTL]
                        ELSE issued[u]]
  BY DEF IssueLinkToken
<1> DEFINE doc == [id |-> t, chat |-> reqs[r].who, expires |-> now + TTL, consumed |-> Never]
<1>2. reqs[r].who \in Names /\ now + TTL \in Nat
  BY AccountsAssumption, BoundLemma DEF IssueLinkToken, At, LinkInv, OpsFollow, StoreOK
<1>3. doc \in Token
  BY <1>2 DEF Token
<1>4. /\ UNCHANGED <<given, now>>
      /\ db' = [c \in Collections |-> db'[c]]
      /\ \A c \in Collections \ {"tokens"} : db'[c] = db[c]
      /\ db'["tokens"] \in {db["tokens"], db["tokens"] \cup {doc}}
  BY <1>1, CreateTokenLemma, StoreLemma, CollectionsLemma DEF LinkInv, StoreOK
<1>5. /\ DOMAIN issued' = DOMAIN issued \cup {t}
      /\ issued'[t] = [chat |-> reqs[r].who, expires |-> now + TTL]
      /\ \A u \in DOMAIN issued : issued'[u] = issued[u]
  BY <1>1
<1>6. /\ reqs' = [reqs EXCEPT ![r] = Idle] /\ UNCHANGED <<made, called, faults>>
      /\ \A q \in Reqs : reqs'[q] = IF q = r THEN Idle ELSE reqs[q]
      /\ reqs[r].step = "issue" /\ Idle.step = "none" /\ db'["identities"] = db["identities"]
  BY <1>4, CollectionsLemma
  DEF IssueLinkToken, End, GoOn, At, Idle, LinkInv, AccountsTypeOK
<1>7. AccountsTypeOK'
  BY <1>2, <1>5, <1>6, IdleLemma DEF LinkInv, AccountsTypeOK
<1>8. StoreOK'
  BY <1>3, <1>4, CollectionsLemma DEF LinkInv, StoreOK
<1>9. LinksUnique' /\ RemoversOK' /\ OpsFollow' /\ TokenLinksOnce'
  BY <1>4, <1>6 DEF LinkInv, LinksUnique, RemoversOK, OpsFollow, TokenLinksOnce, IsSideOf, Idle
<1>10. TokensUnique' /\ TokensKnown'
  BY <1>1, <1>4, <1>5 DEF LinkInv, TokensUnique, TokensKnown
<1>11. \A u \in DOMAIN issued : Used(u) => Used(u)'
  BY <1>1, <1>4, <1>5 DEF Used
<1>12. HoldersOK' /\ MadeOK'
  BY <1>5, <1>6, <1>11 DEF LinkInv, HoldersOK, MadeOK, Holds, Used
<1>13. LinkedByOwner'
  BY <1>5, <1>6 DEF LinkInv, LinkedByOwner, MadeOK, Used
<1>14. SpentTokenLinks'
  BY <1>4, <1>6 DEF LinkInv, SpentTokenLinks
<1> QED
  BY <1>7, <1>8, <1>9, <1>10, <1>12, <1>13, <1>14 DEF LinkInv

LEMMA ConsumeLemma ==
  ASSUME LinkInv, NEW r \in Reqs, Consume(r)
  PROVE  LinkInv'
<1> DEFINE t == reqs[r].token
<1>0. /\ reqs[r] \in Request /\ reqs[r].step = "consume" /\ ~ Holds(r)
      /\ called \in 0..MaxCalls /\ faults \in 0..MaxFaults
      /\ UNCHANGED <<issued, made, called, faults>>
  BY DEF Consume, At, Holds, LinkInv, AccountsTypeOK
<1>1. CASE ans'.err # "none" /\ UNCHANGED <<db, given, now>>
  <2>1. reqs' = [reqs EXCEPT ![r] = Idle] /\ Idle.step = "none"
    BY <1>1 DEF Consume, End, GoOn, Idle
  <2> QED
    BY <1>0, <1>1, <2>1, IdleLemma, ReadLemma
<1>2. ASSUME ans'.err = "none",
             NEW d \in db["tokens"], d.id = t, Usable(d),
             ans'.docs[1] = [d EXCEPT !.consumed = now],
             Store("tokens", (db["tokens"] \ {d}) \cup {[d EXCEPT !.consumed = now]})
      PROVE  LinkInv'
  <2> DEFINE new == [d EXCEPT !.consumed = now]
             req == [reqs[r] EXCEPT !.step = "workspace", !.at = now, !.chat = d.chat]
  <2>1. d \in Token /\ now \in Times /\ now # Never /\ d.consumed = Never /\ now < d.expires
    BY <1>2, BoundLemma DEF LinkInv, StoreOK, Usable, Never
  <2>2. /\ new \in Token /\ new.id = t /\ new.chat = d.chat
        /\ new.expires = d.expires /\ new.consumed = now
    BY <1>2, <2>1 DEF Token
  <2>3. /\ db' = [c \in Collections |-> db'[c]]
        /\ db'["tokens"] = (db["tokens"] \ {d}) \cup {new}
        /\ \A c \in Collections \ {"tokens"} : db'[c] = db[c]
        /\ UNCHANGED <<given, now>>
    BY <1>2, StoreLemma, CollectionsLemma DEF LinkInv
  <2>4. /\ req \in Request /\ req.step = "workspace" /\ req.at = now /\ req.chat = d.chat
        /\ req.token = t
    BY <1>0, <2>1 DEF Request, Steps, Token
  <2>5. /\ reqs' = [reqs EXCEPT ![r] = req]
        /\ \A q \in Reqs : reqs'[q] = IF q = r THEN req ELSE reqs[q]
        /\ db'["identities"] = db["identities"]
    BY <1>2, <2>2, <2>3, CollectionsLemma DEF Consume, GoOn, LinkInv, AccountsTypeOK
  <2> HIDE DEF new, req
  <2>6. AccountsTypeOK'
    BY <1>0, <2>4, <2>5 DEF LinkInv, AccountsTypeOK
  <2>7. StoreOK'
    BY <2>2, <2>3, CollectionsLemma DEF LinkInv, StoreOK
  <2>8. LinksUnique' /\ TokenLinksOnce' /\ LinkedByOwner'
    BY <1>0, <2>3, <2>5 DEF LinkInv, LinksUnique, TokenLinksOnce, LinkedByOwner
  <2>9. RemoversOK' /\ OpsFollow'
    BY <2>3, <2>4, <2>5 DEF LinkInv, RemoversOK, OpsFollow, IsSideOf
  <2>10. TokensUnique' /\ TokensKnown'
    <3>1. TokensUnique'
      BY <1>2, <2>2, <2>3 DEF LinkInv, TokensUnique
    <3>2. TokensKnown'
      BY <1>0, <1>2, <2>2, <2>3 DEF LinkInv, TokensKnown
    <3> QED
      BY <3>1, <3>2
  <2>11. \A u : Used(u) => Used(u)' /\ u # t
    BY <1>0, <1>2, <2>1, <2>2, <2>3 DEF Used
  <2>12. Used(t)'
    BY <1>0, <1>2, <2>1, <2>2, <2>3, <2>4, <2>5 DEF Used, LinkInv, TokensUnique, TokensKnown
  <2>13. MadeOK'
    BY <1>0, <2>11 DEF LinkInv, MadeOK
  <2>14. \A m \in made : m.token # t
    BY <2>11 DEF LinkInv, MadeOK
  <2>15. \A q \in Reqs : Holds(q) => reqs[q].token # t /\ q # r
    BY <1>0, <2>11 DEF LinkInv, HoldersOK
  <2>16. d.chat = issued[t].chat /\ d.expires = issued[t].expires
    BY <1>2 DEF LinkInv, TokensKnown
  <2>17. HoldersOK'
    <3>1. reqs'[r] = req /\ Used(t)' /\ reqs'[r].token = t
      BY <2>4, <2>5, <2>12
    <3>2. ASSUME NEW q \in Reqs, Holds(q)', q # r
          PROVE  /\ Holds(q) /\ reqs'[q] = reqs[q] /\ Used(reqs[q].token)'
                 /\ reqs[q].token # t
      BY <2>5, <2>11, <2>15, <3>2 DEF LinkInv, HoldersOK, Holds
    <3> QED
      BY <1>0, <2>1, <2>4, <2>5, <2>14, <2>16, <3>1, <3>2 DEF LinkInv, HoldersOK
  <2>18. SpentTokenLinks'
    BY <1>0, <2>2, <2>3, <2>4, <2>5 DEF LinkInv, SpentTokenLinks
  <2> QED
    BY <2>6, <2>7, <2>8, <2>9, <2>10, <2>13, <2>17, <2>18 DEF LinkInv
<1>3. ConsumeToken(reqs[r].token)
  BY DEF Consume
<1> QED
  BY <1>1, <1>2, <1>3, ConsumeTokenLemma DEF LinkInv

LEMMA WorkspaceLemma ==
  ASSUME LinkInv, NEW r \in Reqs, GetWorkspace(r)
  PROVE  LinkInv'
<1> DEFINE req == [reqs[r] EXCEPT !.step = "link"]
<1>1. /\ reqs[r] \in Request /\ reqs[r].step = "workspace"
      /\ UNCHANGED <<db, given, now, issued, made, called, faults>>
  BY DEF GetWorkspace, At, Read, storeVars, LinkInv, AccountsTypeOK
<1>2. /\ req \in Request /\ req.step = "link" /\ req.token = reqs[r].token
      /\ req.chat = reqs[r].chat /\ req.at = reqs[r].at
  BY <1>1 DEF Request, Steps
<1>3. /\ reqs' = [reqs EXCEPT ![r] = req]
      /\ \A q \in Reqs : reqs'[q] = IF q = r THEN req ELSE reqs[q]
  BY DEF GetWorkspace, GoOn, LinkInv, AccountsTypeOK
<1>4. AccountsTypeOK' /\ StoreOK'
  BY <1>1, <1>2, <1>3 DEF LinkInv, AccountsTypeOK, StoreOK
<1>5. LinksUnique' /\ TokensUnique' /\ TokensKnown' /\ MadeOK' /\ TokenLinksOnce' /\ LinkedByOwner'
  BY <1>1 DEF LinkInv, LinksUnique, TokensUnique, TokensKnown, MadeOK, Used, TokenLinksOnce,
     LinkedByOwner
<1>6. HoldersOK'
  BY <1>1, <1>2, <1>3 DEF LinkInv, HoldersOK, Holds, Used
<1>7. RemoversOK' /\ OpsFollow'
  BY <1>1, <1>2, <1>3 DEF LinkInv, RemoversOK, OpsFollow, IsSideOf
<1>8. SpentTokenLinks'
  BY <1>1, <1>2, <1>3 DEF LinkInv, SpentTokenLinks
<1> QED
  BY <1>4, <1>5, <1>6, <1>7, <1>8 DEF LinkInv

LEMMA LinkIdentityLemma ==
  ASSUME LinkInv, NEW r \in Reqs, LinkIdentity(r)
  PROVE  LinkInv'
<1> DEFINE t == reqs[r].token
           c == reqs[r].chat
<1>1. /\ reqs' = [reqs EXCEPT ![r] = Idle] /\ Idle.step = "none" /\ Idle \in Request
      /\ \A q \in Reqs : reqs'[q] = IF q = r THEN Idle ELSE reqs[q]
      /\ reqs[r] \in Request /\ reqs[r].step = "link" /\ Holds(r)
      /\ UNCHANGED <<issued, called, faults>>
  BY IdleLemma DEF LinkIdentity, At, End, GoOn, Idle, Holds, LinkInv, AccountsTypeOK
<1>2. /\ Used(t) /\ c = issued[t].chat /\ c \in Names /\ reqs[r].at \in Times
      /\ reqs[r].who \in Names \cup {None} /\ reqs[r].at < issued[t].expires
      /\ \A m \in made : m.token # t
      /\ \A q \in Reqs : Holds(q) /\ reqs[q].token = t => q = r
  BY <1>1 DEF LinkInv, HoldersOK, Used, AccountsTypeOK, Request
<1>3. AccountsTypeOK'
  BY <1>1 DEF LinkInv, AccountsTypeOK
<1>4. \A d \in db["tokens"] : d.id = t => d.chat = c
  BY <1>2 DEF LinkInv, TokensKnown
<1> HIDE DEF t, c
<1>5. CASE LinkRefused(c)
  <2> USE DEF LinkRefused
  <2>1. UNCHANGED made
    BY <1>5 DEF LinkIdentity
  <2>2. StoreOK' /\ LinksUnique' /\ TokensUnique' /\ TokensKnown' /\ MadeOK'
    BY <1>1, <1>5, <2>1
    DEF LinkInv, StoreOK, LinksUnique, TokensUnique, TokensKnown, MadeOK, Used
  <2>3. TokenLinksOnce' /\ LinkedByOwner'
    BY <1>1, <1>5, <2>1 DEF LinkInv, TokenLinksOnce, LinkedByOwner
  <2>4. HoldersOK' /\ RemoversOK' /\ OpsFollow'
    BY <1>1, <1>5, <2>1
    DEF LinkInv, HoldersOK, RemoversOK, OpsFollow, Holds, Used, IsSideOf, Idle
  <2>5. \E m \in made : m.identity.chat = c
    BY <1>5 DEF LinkInv, LinkedByOwner
  <2>6. SpentTokenLinks'
    BY <1>1, <1>4, <1>5, <2>1, <2>5 DEF LinkInv, SpentTokenLinks, t
  <2> QED
    BY <1>3, <2>2, <2>3, <2>4, <2>6 DEF LinkInv
<1>6. ASSUME ans'.err = "none",
             \A d \in db["identities"] : d.chat # c,
             NEW id \in Ids \ given,
             NEW doc, doc = [id |-> id, user |-> reqs[r].who, workspace |-> Workspace,
                             chat |-> c, linked |-> reqs[r].at],
             ans'.docs[1] = doc, given' = given \cup {id},
             Write("identities", db["identities"] \cup {doc})
      PROVE  LinkInv'
  <2> DEFINE m0 == [token |-> t, identity |-> doc]
  <2>1. doc \in Identity /\ doc.id = id /\ doc.chat = c /\ doc.linked = reqs[r].at
    BY <1>2, <1>6 DEF Identity, c
  <2>2. made' = made \cup {m0} /\ m0.token = t /\ m0.identity = doc
    BY <1>6 DEF LinkIdentity, t
  <2> HIDE DEF m0
  <2>3. /\ db' = [b \in Collections |-> db'[b]]
        /\ db'["identities"] = db["identities"] \cup {doc}
        /\ \A b \in Collections \ {"identities"} : db'[b] = db[b]
        /\ UNCHANGED now
    BY <1>6, CollectionsLemma DEF LinkInv, StoreOK, Write
  <2>4. db'["tokens"] = db["tokens"]
    BY <2>3, CollectionsLemma
  <2>5. StoreOK'
    BY <1>6, <2>1, <2>3, CollectionsLemma DEF LinkInv, StoreOK
  <2>6. LinksUnique'
    BY <1>6, <2>1, <2>3 DEF LinkInv, LinksUnique
  <2>7. TokensUnique' /\ TokensKnown'
    BY <1>1, <2>4 DEF LinkInv, TokensUnique, TokensKnown
  <2>8. \A u : Used(u) => Used(u)'
    BY <1>1, <2>4 DEF Used
  <2>9. MadeOK'
    BY <1>2, <2>2, <2>8 DEF LinkInv, MadeOK
  <2>10. HoldersOK'
    <3>1. ASSUME NEW q \in Reqs, Holds(q)'
          PROVE  Holds(q) /\ reqs'[q] = reqs[q] /\ q # r /\ reqs[q].token # t
      BY <1>1, <1>2, <3>1 DEF Holds
    <3> QED
      BY <1>1, <2>2, <2>8, <3>1 DEF LinkInv, HoldersOK
  <2>11. RemoversOK' /\ OpsFollow'
    BY <1>1, <1>6, <2>1, <2>3 DEF LinkInv, RemoversOK, OpsFollow, IsSideOf, Idle
  <2>12. TokenLinksOnce'
    BY <1>2, <2>2 DEF LinkInv, TokenLinksOnce
  <2>13. LinkedByOwner'
    BY <1>1, <1>2, <2>1, <2>2, <2>3 DEF LinkInv, LinkedByOwner
  <2>14. SpentTokenLinks'
    BY <1>1, <1>4, <2>1, <2>2, <2>4 DEF LinkInv, SpentTokenLinks, t
  <2> QED
    BY <1>3, <2>5, <2>6, <2>7, <2>9, <2>10, <2>11, <2>12, <2>13, <2>14 DEF LinkInv
<1>7. Link(reqs[r].who, Workspace, c, reqs[r].at)
  BY DEF LinkIdentity, c
<1>8. StoreOK
  BY DEF LinkInv
<1>9. LinkRefused(c) \/ LinkMade(reqs[r].who, c, reqs[r].at)
  BY <1>7, <1>8, LinkLemma
<1> QED
  BY <1>5, <1>6, <1>9 DEF LinkMade

\* What is removed, and who asked for it.
LEMMA UnlinkStepLemma ==
  ASSUME LinkInv, NEW r \in Reqs, UnlinkIdentity(r)
  PROVE  LinkInv' /\ \A d \in db["identities"] \ db'["identities"] : IsSideOf(reqs[r], d)
<1>1. /\ reqs' = [reqs EXCEPT ![r] = Idle] /\ Idle.step = "none" /\ Idle \in Request
      /\ \A q \in Reqs : reqs'[q] = IF q = r THEN Idle ELSE reqs[q]
      /\ reqs[r].step = "unlink"
      /\ UNCHANGED <<issued, made, called, faults>>
  BY IdleLemma DEF UnlinkIdentity, At, End, GoOn, Idle, LinkInv, AccountsTypeOK
<1>2. \/ UNCHANGED <<db, given, now>>
      \/ Store("identities", {d \in db["identities"] : d.id # reqs[r].id})
  BY UnlinkLemma DEF UnlinkIdentity, LinkInv
<1>3. /\ db' = [c \in Collections |-> db'[c]]
      /\ \A c \in Collections \ {"identities"} : db'[c] = db[c]
      /\ UNCHANGED <<given, now>>
      /\ db'["identities"] \in {db["identities"],
                                {d \in db["identities"] : d.id # reqs[r].id}}
  BY <1>2, StoreLemma, CollectionsLemma DEF LinkInv, StoreOK
<1>4. db'["identities"] \subseteq db["identities"] /\ db'["tokens"] = db["tokens"]
  BY <1>3, CollectionsLemma
<1>5. AccountsTypeOK'
  BY <1>1 DEF LinkInv, AccountsTypeOK
<1>6. StoreOK'
  BY <1>3, <1>4, CollectionsLemma DEF LinkInv, StoreOK
<1>7. LinksUnique' /\ TokensUnique' /\ TokensKnown' /\ MadeOK' /\ TokenLinksOnce' /\ LinkedByOwner'
  BY <1>1, <1>3, <1>4 DEF LinkInv, LinksUnique, TokensUnique, TokensKnown, MadeOK, Used,
     TokenLinksOnce, LinkedByOwner
<1>8. HoldersOK'
  BY <1>1, <1>4 DEF LinkInv, HoldersOK, Holds, Used
<1>9. RemoversOK' /\ OpsFollow'
  BY <1>1, <1>3, <1>4 DEF LinkInv, RemoversOK, OpsFollow, IsSideOf, Idle
<1>10. SpentTokenLinks'
  BY <1>1, <1>4 DEF LinkInv, SpentTokenLinks
<1>11. \A d \in db["identities"] \ db'["identities"] : IsSideOf(reqs[r], d)
  BY <1>1, <1>3 DEF LinkInv, RemoversOK
<1> QED
  BY <1>5, <1>6, <1>7, <1>8, <1>9, <1>10, <1>11 DEF LinkInv

\* Time passes, or an expired token is removed.
LEMMA EnvironmentLemma ==
  ASSUME LinkInv, Tick \/ Reap, UNCHANGED accountVars
  PROVE  LinkInv' /\ UNCHANGED db["identities"]
<1>1. UNCHANGED <<reqs, issued, made, called, faults>>
  BY DEF accountVars
<1>2. /\ db' = [c \in Collections |-> db'[c]]
      /\ \A c \in Collections \ {"tokens"} : db'[c] = db[c]
      /\ db'["tokens"] \subseteq db["tokens"]
      /\ UNCHANGED given /\ now' \in Times
  <2>1. CASE Tick
    BY <2>1, StoreAssumption DEF Tick, LinkInv, StoreOK, Times
  <2>2. CASE Reap
    BY <2>2, ReapLemma, StoreLemma, CollectionsLemma DEF LinkInv, StoreOK
  <2> QED
    BY <2>1, <2>2
<1>3. UNCHANGED db["identities"]
  BY <1>2, CollectionsLemma
<1>4. AccountsTypeOK' /\ OpsFollow' /\ TokenLinksOnce'
  BY <1>1 DEF LinkInv, AccountsTypeOK, OpsFollow, TokenLinksOnce
<1>5. StoreOK'
  BY <1>2, CollectionsLemma DEF LinkInv, StoreOK
<1>6. LinksUnique' /\ RemoversOK' /\ LinkedByOwner'
  BY <1>1, <1>2, <1>3 DEF LinkInv, LinksUnique, RemoversOK, IsSideOf, LinkedByOwner
<1>7. TokensUnique' /\ TokensKnown' /\ SpentTokenLinks'
  BY <1>1, <1>2 DEF LinkInv, TokensUnique, TokensKnown, SpentTokenLinks
<1>8. HoldersOK' /\ MadeOK'
  BY <1>1, <1>2 DEF LinkInv, HoldersOK, MadeOK, Holds, Used
<1> QED
  BY <1>3, <1>4, <1>5, <1>6, <1>7, <1>8 DEF LinkInv

-----------------------------------------------------------------------------
(* The invariant holds.                                                    *)

LEMMA InitLemma == AccountsInit => LinkInv
<1> SUFFICES ASSUME AccountsInit PROVE LinkInv
  OBVIOUS
<1>1. /\ \A c \in Collections : db[c] = {}
      /\ db = [c \in Collections |-> db[c]]
      /\ db["tokens"] = {} /\ db["identities"] = {}
      /\ given = {} /\ now \in Times
  BY BoundLemma, CollectionsLemma DEF AccountsInit, Init
<1>2. AccountsTypeOK
  BY IdleLemma, BoundLemma DEF AccountsInit, AccountsTypeOK
<1>3. \A r \in Reqs : reqs[r].step = "none"
  BY DEF AccountsInit, Idle
<1>4. made = {}
  BY DEF AccountsInit
<1> QED
  BY <1>1, <1>2, <1>3, <1>4
  DEF LinkInv, StoreOK, LinksUnique, TokensUnique, TokensKnown, HoldersOK, Holds, MadeOK,
      RemoversOK, OpsFollow, TokenLinksOnce, LinkedByOwner, SpentTokenLinks

LEMMA NextLemma == LinkInv /\ [AccountsNext]_vars => LinkInv'
<1> SUFFICES ASSUME LinkInv, [AccountsNext]_vars PROVE LinkInv'
  OBVIOUS
<1>1. CASE \E r \in Reqs :
             \/ \E n \in Names : Login(r, n) \/ UnlinkChatUser(r, n)
             \/ \E u \in Names, t \in DOMAIN issued : Confirm(r, u, t)
             \/ \E u \in Names, id \in given : UnlinkId(r, u, id)
  BY <1>1, BeginLemma
<1>2. CASE \E r \in Reqs : Step(r) \/ Abort(r)
  BY <1>2, LookLemma, IssueLemma, ConsumeLemma, WorkspaceLemma, LinkIdentityLemma,
     UnlinkStepLemma DEF Step
<1>3. CASE (Tick \/ Reap) /\ UNCHANGED accountVars
  BY <1>3, EnvironmentLemma
<1>4. CASE UNCHANGED vars
  <2>1. UNCHANGED <<db, given, now, reqs, issued, made, called, faults>>
    BY <1>4 DEF vars, storeVars, accountVars
  <2>2. AccountsTypeOK' /\ StoreOK' /\ LinksUnique' /\ TokensUnique' /\ TokensKnown'
    BY <2>1 DEF LinkInv, AccountsTypeOK, StoreOK, LinksUnique, TokensUnique, TokensKnown
  <2>3. HoldersOK' /\ MadeOK' /\ RemoversOK' /\ OpsFollow'
    BY <2>1 DEF LinkInv, HoldersOK, Holds, Used, MadeOK, RemoversOK, IsSideOf, OpsFollow
  <2>4. TokenLinksOnce' /\ LinkedByOwner' /\ SpentTokenLinks'
    BY <2>1 DEF LinkInv, TokenLinksOnce, LinkedByOwner, SpentTokenLinks
  <2> QED
    BY <2>2, <2>3, <2>4 DEF LinkInv
<1> QED
  BY <1>1, <1>2, <1>3, <1>4 DEF AccountsNext

LEMMA Invariance == AccountsSpec => []LinkInv
<1> QED
  BY InitLemma, NextLemma, PTL DEF AccountsSpec

-----------------------------------------------------------------------------
(* The theorems.                                                           *)

\* The requests and what they have read keep their types.
THEOREM TypeCorrect == AccountsSpec => []AccountsTypeOK
<1> QED
  BY Invariance, PTL DEF LinkInv

\* A token makes one link at most: only the request that has consumed it can
\* make one, and no other ever consumes it again (accounts.go, Consume).
THEOREM LinksOnce == AccountsSpec => []TokenLinksOnce
<1> QED
  BY Invariance, PTL DEF LinkInv

\* Every link goes back to a token shown to the chat user of the link and
\* confirmed before it expired (identity.go, ConfirmLink).
THEOREM OwnersLink == AccountsSpec => []LinkedByOwner
<1> QED
  BY Invariance, PTL DEF LinkInv

\* As long as no request fails, a token that is used up leads to a link of its
\* chat user, the one it was used for or one made at the same time (identity.go).
THEOREM NoTokenInVain == AccountsSpec => []SpentTokenLinks
<1> QED
  BY Invariance, PTL DEF LinkInv

\* The indexes keep their keys unique, although an insert looks for a rival and
\* gets its id in no more than one command (indexes.go).
THEOREM KeysKept == AccountsSpec => []KeysUnique
<1>1. LinkInv => KeysUnique
  <2> SUFFICES ASSUME LinkInv PROVE KeysUnique
    OBVIOUS
  <2>1. \A c \in Collections : AtMostOne(c, LAMBDA d, e : d.id = e.id)
    BY DEF AtMostOne, LinkInv, StoreOK, LinksUnique, TokensUnique
  <2>2. /\ db["workspaces"] = {} /\ db["participations"] = {}
        /\ db["jobs"] = {} /\ db["users"] = {}
    BY DEF LinkInv, StoreOK, Collections
  <2>3. AtMostOne("identities", LAMBDA d, e : d.workspace = e.workspace /\ d.chat = e.chat)
    BY DEF AtMostOne, LinkInv, LinksUnique
  <2> QED
    BY <2>1, <2>2, <2>3 DEF KeysUnique, AtMostOne
<1> QED
  BY <1>1, Invariance, PTL

\* Only a side of a link removes it, though it is removed by an id that was read
\* some steps before (identity.go, Unlink and UnlinkChatUser).
THEOREM OwnersUnlink == AccountsSpec => RemovedByOwner
<1> DEFINE Removed == \A d \in db["identities"] \ db'["identities"] : \E r \in Reqs :
             /\ reqs[r] # reqs'[r]
             /\ \/ reqs[r].op = "unlink" /\ reqs[r].who = d.user
                \/ reqs[r].op = "unlink_chat" /\ reqs[r].who = d.chat
<1>1. LinkInv /\ [AccountsNext]_vars => [Removed]_vars
  <2> SUFFICES ASSUME LinkInv, AccountsNext PROVE Removed
    BY DEF vars
  <2>1. ASSUME NEW r \in Reqs, UnlinkIdentity(r) PROVE Removed
    <3>1. reqs[r] # reqs'[r]
      BY <2>1 DEF UnlinkIdentity, At, End, GoOn, Idle, LinkInv, AccountsTypeOK
    <3> QED
      BY <2>1, <3>1, UnlinkStepLemma DEF IsSideOf
  <2>2. CASE db["identities"] \subseteq db'["identities"]
    BY <2>2
  <2>3. ASSUME NEW r \in Reqs, IssueLinkToken(r)
        PROVE  db["identities"] \subseteq db'["identities"]
    BY <2>3, CreateTokenLemma, StoreLemma, CollectionsLemma DEF IssueLinkToken, LinkInv
  <2>4. ASSUME NEW r \in Reqs, Consume(r)
        PROVE  db["identities"] \subseteq db'["identities"]
    <3>1. UNCHANGED db \/ \E S : Store("tokens", S)
      BY <2>4, ConsumeTokenLemma DEF Consume, LinkInv
    <3> QED
      BY <3>1, StoreLemma, CollectionsLemma DEF LinkInv
  <2>5. ASSUME NEW r \in Reqs, LinkIdentity(r)
        PROVE  db["identities"] \subseteq db'["identities"]
    <3>1. UNCHANGED db \/ \E d : Write("identities", db["identities"] \cup {d})
      BY <2>5, LinkLemma DEF LinkIdentity, LinkInv, LinkRefused, LinkMade
    <3> QED
      BY <3>1, CollectionsLemma DEF LinkInv, StoreOK, Write
  <2>6. CASE (Tick \/ Reap) /\ UNCHANGED accountVars
    BY <2>6, <2>2, EnvironmentLemma
  <2>7. CASE UNCHANGED db
    BY <2>7, <2>2
  <2> HIDE DEF Removed
  <2> QED
    BY <2>1, <2>2, <2>3, <2>4, <2>5, <2>6, <2>7
    DEF AccountsNext, Step, Login, UnlinkChatUser, Confirm, UnlinkId, Call, Abort, Read,
        storeVars, ResolveConsoleUser, GetWorkspace, ListOwn, GetOfChat
<1> QED
  BY <1>1, Invariance, PTL DEF AccountsSpec, RemovedByOwner

=============================================================================
