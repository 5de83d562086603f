------------------------------ MODULE MCStores ------------------------------
(***************************************************************************)
(* Two names, a few documents, the collections one at a time: an operation   *)
(* looks at the documents of its own collections only.                     *)
(***************************************************************************)
EXTENDS MemStore

CONSTANT MaxOps   \* bound: operations in a behaviour

VARIABLES
  used,   \* the collections the behaviour is about
  ops     \* how many operations there have been

MCVars == <<memVars, used, ops>>

MCInit ==
  /\ Init
  /\ ops = 0
  /\ used \in {"meta", "workspaces", "events", "participations", "jobs", "accounts", "tokens"}

Operation ==
  /\ ops < MaxOps /\ ops' = ops + 1
  /\ UNCHANGED used
  /\ \/ used = "meta" /\ (MetaOps \/ LogOps)
     \/ used = "workspaces" /\ WorkspaceOps
     \/ used = "events" /\ EventOps
     \/ used = "participations" /\ ParticipationOps
     \/ used = "jobs" /\ JobOps
     \/ used = "accounts" /\ AccountOps
     \/ used = "tokens" /\ TokenOps

\* The end of a behaviour, which is the bound's and no deadlock.
Ended == ops = MaxOps /\ UNCHANGED MCVars

MCNext ==
  \/ Operation
  \/ Tick /\ UNCHANGED <<used, ops>>
  \/ Ended

MCSpec == MCInit /\ [][MCNext]_MCVars

NoFilter == [workspace |-> 0, statuses |-> {}, ids |-> {}, after |-> Mongo!Never]

MCFilters ==
  {NoFilter,
   [NoFilter EXCEPT !.workspace = 1, !.statuses = {"open"}],
   [NoFilter EXCEPT !.ids = {2}],
   [NoFilter EXCEPT !.statuses = {"open", "ended"}, !.after = 1]}

\* No operation looks at the last answer.
State == <<mem, now, used, ops>>

=============================================================================
