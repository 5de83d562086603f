---------------------------- MODULE ProviderLink ----------------------------
(***************************************************************************)
(* The Manager and the one Provider it is paired with: the goroutine that  *)
(* looks for the Provider at start-up and watches it afterwards            *)
(* (App.watchProvider, providerclient/monitor.go), the state it records in *)
(* the collection meta, and the workspaces taken over from the Provider,   *)
(* on the Manager's own request or by ReportWorkspaces.                    *)
(*                                                                         *)
(* Every call of the Provider and every access to the database is a step.  *)
(* Waiting and its backoff are left out: a step may take any time.         *)
(***************************************************************************)
EXTENDS Integers, FiniteSets

CONSTANTS
  Kinds,          \* the kinds of Provider
  Externals,      \* the workspaces the Provider knows
  Threshold,      \* OfflineAfterFailures
  FaultPhases,    \* the accesses to the database that may fail
  MaxFaults,      \* bound: how many of them fail
  MaxCrashes,     \* bound: how often the Manager goes down
  MaxChanges,     \* bound: how often something befalls the Provider
  SwapWhileUp     \* the Provider may be exchanged while the Manager runs

ASSUME PairingAssumption ==
  /\ "none" \notin Kinds
  /\ Threshold \in Nat \ {0}
  /\ FaultPhases \subseteq {"load", "save_miss", "save_first", "save", "store"}
  /\ {MaxFaults, MaxCrashes, MaxChanges} \subseteq Nat
  /\ SwapWhileUp \in BOOLEAN

VARIABLES
  provider,     \* the Provider: its kind, whether it answers and is connected
  mem,          \* Monitor.state
  meta,         \* the provider document of the collection meta
  phase,        \* where watchProvider is
  found,        \* the kind SyncFromProvider goes by, and what it has yet to store
  report,       \* the same of a ReportWorkspaces in progress
  workspaces,   \* the collection workspaces, by its unique key
  unrecorded,   \* those stored while meta had no kind; only the properties read it
  faults, crashes, changes

stored == <<workspaces, unrecorded>>

vars == <<provider, mem, meta, phase, found, report, stored, faults, crashes, changes>>

-----------------------------------------------------------------------------

\* "none" is the empty kind: no Provider has been reached yet.  The failures
\* in a row count up to the threshold; further ones make no difference.
State == [kind : Kinds \cup {"none"}, connected : BOOLEAN,
          status : {"online", "offline"}, failures : 0..Threshold]

\* A Monitor that has been made, and a collection meta without its document.
NewMonitor == [kind |-> "none", connected |-> FALSE, status |-> "offline",
               failures |-> 0]

\* A synchronisation: the kind, and the workspaces not stored yet.
Sync == [kind : Kinds \cup {"none"}, left : SUBSET Externals]

NoSync == [kind |-> "none", left |-> {}]

Phases == {"down", "load", "poll", "save_miss", "save_first", "sync", "list",
           "store", "watch", "save", "stopped"}

Init ==
  /\ provider \in [kind : Kinds, up : BOOLEAN, connected : {FALSE}]
  /\ mem = NewMonitor
  /\ meta = NewMonitor
  /\ phase = "load"
  /\ found = NoSync
  /\ report = NoSync
  /\ workspaces = {} /\ unrecorded = {}
  /\ faults = 0 /\ crashes = 0 /\ changes = 0

-----------------------------------------------------------------------------
(* The observations of the Monitor.                                        *)

\* Mutant of Status: failures are counted but not looked at.
StatusByConnection(connected, failures) == IF connected THEN "online" ELSE "offline"

Status(connected, failures) ==
  IF ~connected \/ failures >= Threshold THEN "offline" ELSE "online"

\* The answer of GetInfo replaces what was known, the kind included.
Observed(m, p) ==
  [kind |-> p.kind, connected |-> p.connected, failures |-> 0,
   status |-> Status(p.connected, 0)]

\* No answer: the connection keeps the value last observed.
Missed(m) ==
  LET n == IF m.failures < Threshold THEN m.failures + 1 ELSE Threshold
  IN  [m EXCEPT !.failures = n, !.status = Status(m.connected, n)]

-----------------------------------------------------------------------------
(* The goroutine that watches the Provider.                                *)

\* An access to the database fails.
Fails ==
  /\ phase \in FaultPhases
  /\ faults < MaxFaults
  /\ faults' = faults + 1

\* What was recorded is taken over; without a record nothing is.
Load ==
  /\ phase = "load"
  /\ mem' = meta
  /\ phase' = "poll"
  /\ UNCHANGED <<provider, meta, found, report, stored, faults, crashes, changes>>

\* Bootstrap returns an error and watchProvider ends, while the Manager goes
\* on without it.
GiveUp ==
  /\ phase \in {"load", "save_first"}
  /\ Fails
  /\ phase' = "stopped"
  /\ UNCHANGED <<provider, mem, meta, found, report, stored, crashes, changes>>

\* GetInfo is not answered, at start-up or later.
Miss ==
  /\ phase \in {"poll", "watch"} /\ ~provider.up
  /\ mem' = Missed(mem)
  /\ phase' = IF phase = "poll" THEN "save_miss" ELSE "save"
  /\ UNCHANGED <<provider, meta, found, report, stored, faults, crashes, changes>>

\* Mutant of SameKind: the recorded kind is not compared.
AnyKind == TRUE

\* The Provider is of the kind that was recorded, or the first one.
SameKind == mem.kind \in {"none", provider.kind}

Reach ==
  /\ phase = "poll" /\ provider.up
  /\ SameKind
  /\ mem' = Observed(mem, provider)
  /\ phase' = "save_first"
  /\ UNCHANGED <<provider, meta, found, report, stored, faults, crashes, changes>>

\* The Manager goes down: its memory and its goroutines are gone.
Down ==
  /\ phase' = "down"
  /\ mem' = NewMonitor
  /\ found' = NoSync
  /\ report' = NoSync

\* A Provider of another kind at start-up ends the Manager.
Mismatch ==
  /\ phase = "poll" /\ provider.up
  /\ ~SameKind
  /\ Down
  /\ UNCHANGED <<provider, meta, stored, faults, crashes, changes>>

\* Another kind found later is recorded all the same, and reported once.
Refresh ==
  /\ phase = "watch" /\ provider.up
  /\ mem' = Observed(mem, provider)
  /\ phase' = "save"
  /\ UNCHANGED <<provider, meta, found, report, stored, faults, crashes, changes>>

AfterSave ==
  phase' = CASE phase = "save_miss"  -> "poll"
             [] phase = "save_first" -> "sync"
             [] phase = "save"       -> "watch"

Save ==
  /\ phase \in {"save_miss", "save_first", "save"}
  /\ meta' = mem
  /\ AfterSave
  /\ UNCHANGED <<provider, mem, found, report, stored, faults, crashes, changes>>

\* The failure is logged; the next observation is saved again.
LoseSave ==
  /\ phase \in {"save_miss", "save"}
  /\ Fails
  /\ AfterSave
  /\ UNCHANGED <<provider, mem, meta, found, report, stored, crashes, changes>>

\* SyncFromProvider asks for the kind, and then for the workspaces; without an
\* answer the synchronisation is left to the next report.
AskKind ==
  /\ phase = "sync"
  /\ IF provider.up
     THEN phase' = "list" /\ found' = [NoSync EXCEPT !.kind = provider.kind]
     ELSE phase' = "watch" /\ UNCHANGED found
  /\ UNCHANGED <<provider, mem, meta, report, stored, faults, crashes, changes>>

AskWorkspaces ==
  /\ phase = "list"
  /\ IF provider.up
     THEN phase' = "store" /\ found' = [found EXCEPT !.left = Externals]
     ELSE phase' = "watch" /\ UNCHANGED found
  /\ UNCHANGED <<provider, mem, meta, report, stored, faults, crashes, changes>>

\* Upsert stores one workspace; its key is the kind and the external id.
StoreFound ==
  /\ phase = "store"
  /\ \E x \in found.left :
       /\ workspaces' = workspaces \cup {[provider |-> found.kind, external |-> x]}
       /\ found' = [found EXCEPT !.left = @ \ {x}]
       /\ phase' = IF found.left = {x} THEN "watch" ELSE phase
  /\ UNCHANGED <<provider, mem, meta, report, unrecorded, faults, crashes, changes>>

\* A workspace cannot be stored: the others are not tried.
CutSync ==
  /\ phase = "store"
  /\ Fails
  /\ phase' = "watch"
  /\ found' = NoSync
  /\ UNCHANGED <<provider, mem, meta, report, stored, crashes, changes>>

-----------------------------------------------------------------------------
(* ReportWorkspaces, the Manager's ends and starts, and the Provider.      *)

\* The gRPC server answers as long as the Manager runs, whatever the watching
\* goroutine does and when it has given up, too.  The kind is the one in the
\* memory of the Monitor: none before the record is loaded or a Provider is
\* found for the first time, and one not recorded yet between the first
\* observation and its save.
ReportWorkspaces ==
  /\ phase # "down" /\ provider.up
  /\ report.left = {}
  /\ report' = [kind |-> mem.kind, left |-> Externals]
  /\ UNCHANGED <<provider, mem, meta, phase, found, stored, faults, crashes, changes>>

StoreReported ==
  /\ \E x \in report.left :
       LET w == [provider |-> report.kind, external |-> x] IN
       /\ workspaces' = workspaces \cup {w}
       /\ unrecorded' = unrecorded \cup (IF meta.kind = "none" THEN {w} ELSE {})
       /\ report' = IF report.left = {x} THEN NoSync ELSE [report EXCEPT !.left = @ \ {x}]
  /\ UNCHANGED <<provider, mem, meta, phase, found, faults, crashes, changes>>

\* The same during a report, which is answered with an error.
CutReport ==
  /\ report.left # {}
  /\ "store" \in FaultPhases /\ faults < MaxFaults
  /\ faults' = faults + 1
  /\ report' = NoSync
  /\ UNCHANGED <<provider, mem, meta, phase, found, stored, crashes, changes>>

Crash ==
  /\ phase # "down" /\ crashes < MaxCrashes
  /\ crashes' = crashes + 1
  /\ Down
  /\ UNCHANGED <<provider, meta, stored, faults, changes>>

Start ==
  /\ phase = "down"
  /\ phase' = "load"
  /\ UNCHANGED <<provider, mem, meta, found, report, stored, faults, crashes, changes>>

\* The Provider starts or ends, finds or loses its chat tool, or is exchanged
\* for one of another kind.
Change ==
  /\ changes < MaxChanges
  /\ changes' = changes + 1
  /\ \/ \E b \in BOOLEAN : provider' = [provider EXCEPT !.up = b, !.connected = FALSE]
     \/ provider.up /\ \E b \in BOOLEAN : provider' = [provider EXCEPT !.connected = b]
     \/ /\ SwapWhileUp \/ phase = "down"
        /\ \E k \in Kinds : provider' = [kind |-> k, up |-> TRUE, connected |-> FALSE]
  /\ provider' # provider
  /\ UNCHANGED <<mem, meta, phase, found, report, stored, faults, crashes>>

Watch ==
  \/ Load \/ GiveUp \/ Miss \/ Reach \/ Mismatch \/ Refresh \/ Save \/ LoseSave
  \/ AskKind \/ AskWorkspaces \/ StoreFound \/ CutSync

Next == Watch \/ ReportWorkspaces \/ StoreReported \/ CutReport \/ Crash \/ Start \/ Change

Spec == Init /\ [][Next]_vars

\* The goroutine goes on (calls have deadlines, the ticker ticks), and a
\* Manager that went down is started again.
FairSpec == Spec /\ WF_vars(Watch) /\ WF_vars(Start)

-----------------------------------------------------------------------------
(* Properties.                                                             *)

\* The types.  A workspace may be of the empty kind.
TypeOK ==
  /\ provider \in [kind : Kinds, up : BOOLEAN, connected : BOOLEAN]
  /\ mem \in State
  /\ meta \in State
  /\ phase \in Phases
  /\ found \in Sync
  /\ report \in Sync
  /\ unrecorded \subseteq workspaces
  /\ workspaces \subseteq [provider : Kinds \cup {"none"}, external : Externals]
  /\ faults \in 0..MaxFaults /\ crashes \in 0..MaxCrashes /\ changes \in 0..MaxChanges

\* The kind recorded at the first contact never changes, through restarts and
\* exchanged Providers (Bootstrap, SaveProvider).
KindFixed == [][meta.kind # "none" => meta'.kind = meta.kind]_vars

\* No workspaces of two kinds come together: but for those reported while no
\* kind had been recorded, and those stored under the empty kind, all are of the
\* recorded kind, whether the Manager asked for them or they were reported, and
\* before and after restarts, failed saves and exchanges (Sync, ReportWorkspaces,
\* Bootstrap).
OneKind ==
  \A w \in workspaces \ unrecorded : w.provider \in {"none", meta.kind}

\* What is observed settles on the truth: a Manager that stays up and watches
\* in the end takes a Provider that answers and is connected for online, and
\* one that is not for offline (Monitor.Refresh, DecideProviderStatus).
StatusSettles ==
  LET well     == provider.up /\ provider.connected
      watching == phase \notin {"down", "stopped"}
  IN  /\ <>[](well /\ watching)  => <>[](mem.status = "online")
      /\ <>[](~well /\ watching) => <>[](mem.status = "offline")

=============================================================================
