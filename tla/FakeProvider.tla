----------------------------- MODULE FakeProvider -----------------------------
(***************************************************************************)
(* The Provider that the tests put in the place of Slack and Discord       *)
(* (internal/provider/fake/provider_server.go), as far as the commands     *)
(* reach it: private channels, posts and pins.  A call is one step, under  *)
(* the lock of the server; that it may fail is up to the caller.  What is  *)
(* posted for one user only is not kept, and the members of channels are   *)
(* in Participation.                                                       *)
(***************************************************************************)
EXTENDS Integers, Sequences

CONSTANTS
  Rooms,   \* the channels that are there from the beginning
  Taken    \* names of private channels that others may have

ASSUME RoomsAssumption ==
  /\ Rooms \subseteq Int \ Nat
  /\ Taken \in Seq({Taken[i] : i \in DOMAIN Taken})

VARIABLES
  channels,   \* the private channels, in the order of their ids
  posts       \* what has been posted in each channel, in its order

providerVars == <<channels, posts>>

\* No channel, no event.
None == 0

\* No message; a message is known by its channel and its place there.
NoPost == << >>

\* Others have none of the names, or all of them.
ProviderInit ==
  \E n \in {0, Len(Taken)} :
    /\ channels = [c \in 1..n |-> [name |-> Taken[c], archived |-> FALSE]]
    /\ posts = [c \in Rooms \cup 1..n |-> << >>]

NameTaken(name) ==
  \E c \in DOMAIN channels : channels[c].name = name /\ ~channels[c].archived

\* The id of the next channel and of the next message of channel c.
NextChannel == Len(channels) + 1
NextPost(c) == <<c, Len(posts[c]) + 1>>

IsPost(id) == id[1] \in DOMAIN posts /\ id[2] \in DOMAIN posts[id[1]]

\* The message of an id.
PostOf(id) == posts[id[1]][id[2]]

CreatePrivateChannel(name) ==
  /\ channels' = Append(channels, [name |-> name, archived |-> FALSE])
  /\ posts' = [c \in DOMAIN posts \cup {NextChannel} |->
                 IF c = NextChannel THEN << >> ELSE posts[c]]

ArchiveChannel(c) ==
  /\ channels' = [channels EXCEPT ![c].archived = TRUE]
  /\ UNCHANGED posts

PostMessage(c, message) ==
  /\ posts' = [posts EXCEPT ![c] = Append(@, [message |-> message, pinned |-> FALSE])]
  /\ UNCHANGED channels

UpdateMessage(id, message) ==
  /\ posts' = [posts EXCEPT ![id[1]][id[2]].message = message]
  /\ UNCHANGED channels

SetPin(id, pinned) ==
  /\ posts' = [posts EXCEPT ![id[1]][id[2]].pinned = pinned]
  /\ UNCHANGED channels

PinMessage(id) == SetPin(id, TRUE)
UnpinMessage(id) == SetPin(id, FALSE)

=============================================================================
