------------------------------ MODULE Accounts ------------------------------
(***************************************************************************)
(* Linking the users of a chat to the users of the console                 *)
(* (internal/manager/usecase/identity.go and the commands "login" and      *)
(* "unlink" of internal/manager/bot/dispatch.go) on the collections of     *)
(* MongoStore.                                                             *)
(*                                                                         *)
(* A request is a goroutine; every call it makes on the database is a      *)
(* step, with the answer of the step before it at hand.  Requests          *)
(* interleave, and each can fail at any step (Abort).  There is one        *)
(* workspace, which is never removed, and a console user is never removed  *)
(* either; who the console user of a request is the session tells, and     *)
(* the tokens a request has are those the chat has shown.                  *)
(***************************************************************************)
EXTENDS MongoStore

CONSTANTS
  Reqs,        \* goroutines that serve requests
  TTL,         \* DefaultLinkTokenTTL, in units of time
  MaxCalls,    \* bound: requests in a behaviour
  MaxFaults    \* bound: requests that fail half-way

ASSUME AccountsAssumption ==
  /\ IsFiniteSet(Reqs)
  /\ TTL \in Nat \ {0}
  /\ MaxCalls \in Nat /\ MaxFaults \in Nat

VARIABLES
  reqs,     \* what each request is doing
  issued,   \* history: of every token, the chat user and the expiry
  made,     \* history: which token made which identity
  called,   \* how many requests there have been
  faults    \* how many have failed

accountVars == <<reqs, issued, made, called, faults>>
vars == <<storeVars, accountVars>>

Workspace == 1

Ops == {"login", "link", "unlink", "unlink_chat"}
Steps == {"none", "resolve", "issue", "consume", "workspace", "link", "list", "get", "unlink"}

\* who is a chat user or a console user; chat and at are those of Link, id is
\* the identity to unlink.
Request == [op : Ops \cup {"none"}, step : Steps, who : Names \cup {None},
            token : Names \cup {None}, chat : Names \cup {None},
            at : Times, id : Ids \cup {None}]

Idle == [op |-> "none", step |-> "none", who |-> None, token |-> None,
         chat |-> None, at |-> 0, id |-> None]

AccountsInit ==
  /\ Init
  /\ reqs = [r \in Reqs |-> Idle]
  /\ issued = << >>
  /\ made = {}
  /\ called = 0 /\ faults = 0

-----------------------------------------------------------------------------

At(r, step) == reqs[r].step = step

GoOn(r, req) == reqs' = [reqs EXCEPT ![r] = req]
End(r) == GoOn(r, Idle)

\* The database is asked, and nothing is changed.
Read == UNCHANGED storeVars

Call(r, req) ==
  /\ reqs[r] = Idle
  /\ called < MaxCalls /\ called' = called + 1
  /\ GoOn(r, req)
  /\ UNCHANGED <<storeVars, issued, made, faults>>

\* The command of chat user c.
Login(r, c) ==
  Call(r, [Idle EXCEPT !.op = "login", !.step = "resolve", !.who = c])

\* Whoever is linked gets no token.
ResolveConsoleUser(r) ==
  /\ At(r, "resolve")
  /\ Read
  /\ IF OfChat(Workspace, reqs[r].who) # {} THEN End(r)
     ELSE GoOn(r, [reqs[r] EXCEPT !.step = "issue"])
  /\ UNCHANGED <<issued, made, called, faults>>

\* Tokens are random, none comes up twice.
IssueLinkToken(r) ==
  /\ At(r, "issue")
  /\ \E t \in Names \ DOMAIN issued :
       /\ CreateToken(t, reqs[r].who, now + TTL)
       /\ issued' = [u \in DOMAIN issued \cup {t} |->
                       IF u = t THEN [chat |-> reqs[r].who, expires |-> now + TTL]
                       ELSE issued[u]]
  /\ End(r)
  /\ UNCHANGED <<made, called, faults>>

\* Console user u confirms the link of token t.
Confirm(r, u, t) ==
  Call(r, [Idle EXCEPT !.op = "link", !.step = "consume", !.who = u, !.token = t])

\* One time is taken for the check of the token and the date of the link.
Consume(r) ==
  /\ At(r, "consume")
  /\ ConsumeToken(reqs[r].token)
  /\ IF ans'.err # "none" THEN End(r)
     ELSE GoOn(r, [reqs[r] EXCEPT !.step = "workspace", !.at = now,
                                  !.chat = ans'.docs[1].chat])
  /\ UNCHANGED <<issued, made, called, faults>>

GetWorkspace(r) ==
  /\ At(r, "workspace")
  /\ Read
  /\ GoOn(r, [reqs[r] EXCEPT !.step = "link"])
  /\ UNCHANGED <<issued, made, called, faults>>

LinkIdentity(r) ==
  /\ At(r, "link")
  /\ Link(reqs[r].who, Workspace, reqs[r].chat, reqs[r].at)
  /\ made' = made \cup (IF ans'.err # "none" THEN {}
                        ELSE {[token |-> reqs[r].token, identity |-> ans'.docs[1]]})
  /\ End(r)
  /\ UNCHANGED <<issued, called, faults>>

\* Console user u removes the link with an id.
UnlinkId(r, u, id) ==
  Call(r, [Idle EXCEPT !.op = "unlink", !.step = "list", !.who = u, !.id = id])

\* Mutant of Own: the id is taken for granted.
AnyOf(user, id) == {d \in db["identities"] : d.id = id}

Own(user, id) == {d \in db["identities"] : d.user = user /\ d.id = id}

ListOwn(r) ==
  /\ At(r, "list")
  /\ Read
  /\ IF Own(reqs[r].who, reqs[r].id) = {} THEN End(r)
     ELSE GoOn(r, [reqs[r] EXCEPT !.step = "unlink"])
  /\ UNCHANGED <<issued, made, called, faults>>

\* The command of chat user c.
UnlinkChatUser(r, c) ==
  Call(r, [Idle EXCEPT !.op = "unlink_chat", !.step = "get", !.who = c])

GetOfChat(r) ==
  /\ At(r, "get")
  /\ Read
  /\ IF OfChat(Workspace, reqs[r].who) = {} THEN End(r)
     ELSE \E d \in OfChat(Workspace, reqs[r].who) :
            GoOn(r, [reqs[r] EXCEPT !.step = "unlink", !.id = d.id])
  /\ UNCHANGED <<issued, made, called, faults>>

\* By the id alone.
UnlinkIdentity(r) ==
  /\ At(r, "unlink")
  /\ Unlink(reqs[r].id)
  /\ End(r)
  /\ UNCHANGED <<issued, made, called, faults>>

\* The next call of r fails, or its process dies.
Abort(r) ==
  /\ reqs[r] # Idle
  /\ faults < MaxFaults /\ faults' = faults + 1
  /\ End(r)
  /\ UNCHANGED <<storeVars, issued, made, called>>

-----------------------------------------------------------------------------

Step(r) ==
  \/ ResolveConsoleUser(r)
  \/ IssueLinkToken(r)
  \/ Consume(r)
  \/ GetWorkspace(r)
  \/ LinkIdentity(r)
  \/ ListOwn(r)
  \/ GetOfChat(r)
  \/ UnlinkIdentity(r)

AccountsNext ==
  \/ \E r \in Reqs, n \in Names : Login(r, n) \/ UnlinkChatUser(r, n)
  \/ \E r \in Reqs, u \in Names, t \in DOMAIN issued : Confirm(r, u, t)
  \/ \E r \in Reqs, u \in Names, id \in given : UnlinkId(r, u, id)
  \/ \E r \in Reqs : Step(r) \/ Abort(r)
  \/ (Tick \/ Reap) /\ UNCHANGED accountVars

AccountsSpec == AccountsInit /\ [][AccountsNext]_vars

-----------------------------------------------------------------------------
(* Properties.                                                             *)

AccountsTypeOK ==
  /\ reqs \in [Reqs -> Request]
  /\ DOMAIN issued \subseteq Names
  /\ \A t \in DOMAIN issued : issued[t].chat \in Names /\ issued[t].expires \in Nat
  /\ called \in 0..MaxCalls /\ faults \in 0..MaxFaults

\* identity.go:74: a token makes one link, though it is confirmed twice or once
\* more after the link has been removed.
TokenLinksOnce == \A m, n \in made : m.token = n.token => m = n

\* docs/10 section 1.3: every link goes back to a token that was shown to the chat
\* user of the link, and was confirmed before it expired.
LinkedByOwner ==
  \A d \in db["identities"] : \E m \in made :
    /\ m.identity = d
    /\ d.chat = issued[m.token].chat /\ d.linked < issued[m.token].expires

\* identity.go:78: a token that is used up has not been used up in vain.  Unless
\* a request has failed, its chat user has got a link, by it or by another.
SpentTokenLinks ==
  \A d \in db["tokens"] :
    d.consumed # Never /\ faults = 0
      /\ (\A r \in Reqs : reqs[r].token = d.id => reqs[r].step \notin {"workspace", "link"})
    => \E m \in made : m.identity.chat = d.chat

\* identity.go:109: a link is removed for one of its two sides only, whatever
\* happens between the look at the link and its removal by the id.
RemovedByOwner ==
  [][\A d \in db["identities"] \ db'["identities"] : \E r \in Reqs :
       /\ reqs[r] # reqs'[r]
       /\ \/ reqs[r].op = "unlink" /\ reqs[r].who = d.user
          \/ reqs[r].op = "unlink_chat" /\ reqs[r].who = d.chat]_vars

=============================================================================
