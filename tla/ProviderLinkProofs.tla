------------------------- MODULE ProviderLinkProofs -------------------------
(***************************************************************************)
(* Theorems about the recorded kind of Provider, for any kinds and         *)
(* workspaces, and however often the Manager crashes, accesses to the      *)
(* database fail, and the Provider comes, goes and is exchanged.           *)
(***************************************************************************)
EXTENDS ProviderLink, TLAPS

\* The assumption of the theorems: the Provider is exchanged while the Manager
\* is down only.  README section 4 says what happens otherwise.
OrderlyProvider == ~SwapWhileUp

-----------------------------------------------------------------------------
(* The inductive invariant.                                                *)

\* The Manager watches the Provider it is paired with.
Paired == {"sync", "list", "store", "watch", "save"}

\* The memory and the record agree from the moment at which the record is
\* loaded; in between, the first kind observed is still to be recorded, or
\* never will be.
MemFollowsMeta ==
  /\ phase \in {"down", "load"} => mem.kind = "none"
  /\ phase \in Paired \cup {"poll", "save_miss"} => mem.kind = meta.kind
  /\ phase \in {"save_first", "stopped"} => mem.kind = "none" \/ meta.kind \in {"none", mem.kind}

\* The Provider is the one observed for as long as the Manager stays up.
MemFollowsProvider == phase \in Paired \cup {"save_first"} => mem.kind = provider.kind

\* A synchronisation is of the recorded kind, and a report of the one in memory
\* or of none.
FoundIsRecorded == phase \in {"list", "store"} => found.kind = meta.kind

ReportIsObserved == report.left # {} => report.kind \in {"none", mem.kind}

PairInv ==
  /\ TypeOK
  /\ MemFollowsMeta /\ MemFollowsProvider
  /\ FoundIsRecorded /\ ReportIsObserved
  /\ OneKind

-----------------------------------------------------------------------------
(* The parts of the state.                                                 *)

LEMMA MonitorLemma == NewMonitor \in State
BY PairingAssumption DEF NewMonitor, State

LEMMA SyncLemma == NoSync \in Sync
BY DEF NoSync, Sync

\* An answer of the Provider makes a state of the Monitor, of its kind.
LEMMA ObservedLemma ==
  ASSUME NEW m \in State, NEW p \in [kind : Kinds, up : BOOLEAN, connected : BOOLEAN]
  PROVE  Observed(m, p) \in State /\ Observed(m, p).kind = p.kind
BY PairingAssumption DEF Observed, Status, State

\* A missing answer keeps the kind, and counts to the threshold only.
LEMMA MissedLemma ==
  ASSUME NEW m \in State
  PROVE  Missed(m) \in State /\ Missed(m).kind = m.kind
<1> DEFINE n == IF m.failures < Threshold THEN m.failures + 1 ELSE Threshold
<1>1. n \in 0..Threshold
  BY PairingAssumption DEF State
<1>2. Status(m.connected, n) \in {"online", "offline"}
  BY DEF Status
<1> HIDE DEF n
<1>3. [m EXCEPT !.failures = n, !.status = Status(m.connected, n)] \in State
  BY <1>1, <1>2 DEF State
<1>4. Missed(m) = [m EXCEPT !.failures = n, !.status = Status(m.connected, n)]
  BY DEF Missed, n
<1> QED
  BY <1>3, <1>4 DEF State

\* A process that ends takes what was under way with it.
LEMMA DownLemma ==
  ASSUME PairInv, Down, UNCHANGED <<meta, stored>>,
         provider' \in [kind : Kinds, up : BOOLEAN, connected : BOOLEAN],
         faults' \in 0..MaxFaults, crashes' \in 0..MaxCrashes, changes' \in 0..MaxChanges
  PROVE  PairInv'
BY MonitorLemma, SyncLemma
   DEF PairInv, TypeOK, Down, MemFollowsMeta, MemFollowsProvider, FoundIsRecorded,
       ReportIsObserved, OneKind, Paired, Phases, NoSync, NewMonitor, stored

\* A workspace can be stored that is of the recorded kind or of none, or is
\* noted as one stored while there was none.
LEMMA StoreLemma ==
  ASSUME PairInv, NEW x \in Externals, NEW k \in Kinds \cup {"none"}, UNCHANGED meta,
         workspaces' = workspaces \cup {[provider |-> k, external |-> x]},
         \/ UNCHANGED unrecorded /\ k \in {"none", meta.kind}
         \/ unrecorded' = unrecorded \cup {[provider |-> k, external |-> x]}
  PROVE  /\ unrecorded' \subseteq workspaces'
         /\ workspaces' \subseteq [provider : Kinds \cup {"none"}, external : Externals]
         /\ OneKind'
BY DEF PairInv, TypeOK, OneKind

-----------------------------------------------------------------------------
(* The steps.                                                              *)

LEMMA InitLemma == Init => PairInv
<1> SUFFICES ASSUME Init PROVE PairInv
  OBVIOUS
<1>1. faults \in 0..MaxFaults /\ crashes \in 0..MaxCrashes /\ changes \in 0..MaxChanges
  BY PairingAssumption DEF Init
<1>2. provider \in [kind : Kinds, up : BOOLEAN, connected : BOOLEAN]
  BY DEF Init
<1> QED
  BY <1>1, <1>2, MonitorLemma, SyncLemma
  DEF Init, PairInv, TypeOK, MemFollowsMeta, MemFollowsProvider, FoundIsRecorded,
      ReportIsObserved, OneKind, Paired, Phases, NoSync, NewMonitor

\* Bootstrap and Run: the steps of the Monitor.
LEMMA MonitorStepLemma ==
  ASSUME PairInv, Load \/ GiveUp \/ Miss \/ Reach \/ Mismatch \/ Refresh \/ Save \/ LoseSave
  PROVE  PairInv'
<1> USE DEF PairInv, TypeOK, MemFollowsMeta, MemFollowsProvider, FoundIsRecorded,
            ReportIsObserved, OneKind, Paired, Phases, stored
<1>1. CASE Load
  BY <1>1 DEF Load
<1>2. CASE GiveUp
  BY <1>2, PairingAssumption DEF GiveUp, Fails
<1>3. CASE Miss
  BY <1>3, MissedLemma DEF Miss
<1>4. CASE Reach
  BY <1>4, ObservedLemma DEF Reach, SameKind
<1>5. CASE Mismatch
  BY <1>5, DownLemma DEF Mismatch
<1>6. CASE Refresh
  BY <1>6, ObservedLemma DEF Refresh
<1>7. CASE Save
  BY <1>7, PairingAssumption DEF Save, AfterSave
<1>8. CASE LoseSave
  BY <1>8, PairingAssumption DEF LoseSave, AfterSave, Fails
<1> QED
  BY <1>1, <1>2, <1>3, <1>4, <1>5, <1>6, <1>7, <1>8

\* SyncFromProvider and ReportWorkspaces.
LEMMA SyncStepLemma ==
  ASSUME OrderlyProvider,
         PairInv, \/ AskKind \/ AskWorkspaces \/ StoreFound \/ CutSync
                  \/ ReportWorkspaces \/ StoreReported \/ CutReport
  PROVE  PairInv'
<1>1. CASE AskKind
  BY <1>1 DEF AskKind, PairInv, TypeOK, Sync, NoSync, MemFollowsMeta, MemFollowsProvider,
     FoundIsRecorded, ReportIsObserved, OneKind, Paired, Phases, stored
<1>2. CASE AskWorkspaces
  BY <1>2 DEF AskWorkspaces, PairInv, TypeOK, Sync, MemFollowsMeta, MemFollowsProvider,
     FoundIsRecorded, ReportIsObserved, OneKind, Paired, Phases, stored
<1>3. CASE StoreFound
  <2>1. PICK x \in found.left :
          /\ workspaces' = workspaces \cup {[provider |-> found.kind, external |-> x]}
          /\ found' = [found EXCEPT !.left = @ \ {x}]
          /\ phase' = IF found.left = {x} THEN "watch" ELSE phase
    BY <1>3 DEF StoreFound
  <2>2. x \in Externals /\ found.kind = meta.kind /\ found.kind \in Kinds \cup {"none"}
    BY <1>3 DEF StoreFound, PairInv, TypeOK, Sync, FoundIsRecorded
  <2>3. found' \in Sync /\ found'.kind = found.kind
    BY <2>1 DEF PairInv, TypeOK, Sync
  <2>4. UNCHANGED <<meta, unrecorded>>
    BY <1>3 DEF StoreFound
  <2>5. /\ unrecorded' \subseteq workspaces'
        /\ workspaces' \subseteq [provider : Kinds \cup {"none"}, external : Externals]
        /\ OneKind'
    BY <2>1, <2>2, <2>4, StoreLemma
  <2> QED
    BY <1>3, <2>1, <2>2, <2>3, <2>5
    DEF StoreFound, PairInv, TypeOK, MemFollowsMeta, MemFollowsProvider, FoundIsRecorded,
        ReportIsObserved, Paired, Phases
<1>4. CASE CutSync
  BY <1>4, SyncLemma, PairingAssumption
  DEF CutSync, Fails, PairInv, TypeOK, MemFollowsMeta, MemFollowsProvider,
      FoundIsRecorded, ReportIsObserved, OneKind, Paired, Phases, stored
<1>5. CASE ReportWorkspaces
  BY <1>5
  DEF ReportWorkspaces, PairInv, TypeOK, State, Sync, MemFollowsMeta, MemFollowsProvider,
      FoundIsRecorded, ReportIsObserved, OneKind, stored
<1>6. CASE StoreReported
  <2> DEFINE w(x) == [provider |-> report.kind, external |-> x]
  <2>1. PICK x \in report.left :
          /\ workspaces' = workspaces \cup {w(x)}
          /\ unrecorded' = unrecorded \cup (IF meta.kind = "none" THEN {w(x)} ELSE {})
          /\ report' = IF report.left = {x} THEN NoSync ELSE [report EXCEPT !.left = @ \ {x}]
    BY <1>6 DEF StoreReported
  <2>2. /\ x \in Externals /\ phase \in Phases /\ report.kind \in Kinds \cup {"none"}
        /\ meta.kind # "none" => report.kind \in {"none", meta.kind}
    BY DEF PairInv, TypeOK, Sync, Phases, Paired, ReportIsObserved, MemFollowsMeta
  <2>3. report' \in Sync /\ (report'.left # {} => report'.kind = report.kind)
    BY <2>1 DEF PairInv, TypeOK, Sync, NoSync
  <2>4. UNCHANGED <<provider, mem, meta, phase, found, faults, crashes, changes>>
    BY <1>6 DEF StoreReported
  <2>5. \/ UNCHANGED unrecorded /\ report.kind \in {"none", meta.kind}
        \/ unrecorded' = unrecorded \cup {w(x)}
    BY <2>1, <2>2
  <2>6. /\ unrecorded' \subseteq workspaces'
        /\ workspaces' \subseteq [provider : Kinds \cup {"none"}, external : Externals]
        /\ OneKind'
    BY <2>1, <2>2, <2>4, <2>5, StoreLemma
  <2> QED
    BY <2>2, <2>3, <2>4, <2>6
    DEF PairInv, TypeOK, MemFollowsMeta, MemFollowsProvider, FoundIsRecorded,
        ReportIsObserved
<1>7. CASE CutReport
  BY <1>7, SyncLemma, PairingAssumption
  DEF CutReport, PairInv, TypeOK, NoSync, MemFollowsMeta, MemFollowsProvider,
      FoundIsRecorded, ReportIsObserved, OneKind, stored
<1> QED
  BY <1>1, <1>2, <1>3, <1>4, <1>5, <1>6, <1>7

\* The ends and starts of the Manager, and the Provider.
LEMMA LifeStepLemma ==
  ASSUME OrderlyProvider, PairInv, Crash \/ Start \/ Change
  PROVE  PairInv'
<1>1. CASE Crash
  <2>1. crashes' \in 0..MaxCrashes
    BY <1>1, PairingAssumption DEF Crash, PairInv, TypeOK
  <2> QED
    BY <1>1, <2>1, DownLemma DEF Crash, PairInv, TypeOK
<1>2. CASE Start
  BY <1>2 DEF Start, PairInv, TypeOK, MemFollowsMeta, MemFollowsProvider, FoundIsRecorded,
     ReportIsObserved, OneKind, Paired, Phases, stored
<1>3. CASE Change
  <2>1. changes' \in 0..MaxChanges
    <3>1. MaxChanges \in Nat /\ changes \in 0..MaxChanges
      BY PairingAssumption DEF PairInv, TypeOK
    <3>2. changes < MaxChanges /\ changes' = changes + 1
      BY <1>3 DEF Change
    <3> QED
      BY <3>1, <3>2
  <2>2. /\ provider' \in [kind : Kinds, up : BOOLEAN, connected : BOOLEAN]
        /\ phase = "down" \/ provider'.kind = provider.kind
    <3>1. CASE \E b \in BOOLEAN : provider' = [provider EXCEPT !.up = b, !.connected = FALSE]
      BY <3>1 DEF PairInv, TypeOK
    <3>2. CASE \E b \in BOOLEAN : provider' = [provider EXCEPT !.connected = b]
      BY <3>2 DEF PairInv, TypeOK
    <3>3. CASE phase = "down" /\ \E k \in Kinds :
                 provider' = [kind |-> k, up |-> TRUE, connected |-> FALSE]
      BY <3>3
    <3> QED
      BY <1>3, <3>1, <3>2, <3>3 DEF OrderlyProvider, Change
  <2>3. UNCHANGED <<mem, meta, phase, found, report, stored, faults, crashes>>
    BY <1>3 DEF Change
  <2> QED
    BY <2>1, <2>2, <2>3
    DEF PairInv, TypeOK, MemFollowsMeta, MemFollowsProvider, FoundIsRecorded,
        ReportIsObserved, OneKind, Paired, stored
<1> QED
  BY <1>1, <1>2, <1>3

LEMMA StepLemma == OrderlyProvider /\ PairInv /\ [Next]_vars => PairInv'
<1> SUFFICES ASSUME OrderlyProvider, PairInv, [Next]_vars PROVE PairInv'
  OBVIOUS
<1>1. CASE Next
  BY <1>1, MonitorStepLemma, SyncStepLemma, LifeStepLemma DEF Next, Watch
<1>2. CASE UNCHANGED vars
  BY <1>2 DEF vars, PairInv, TypeOK, MemFollowsMeta, MemFollowsProvider, FoundIsRecorded,
     ReportIsObserved, OneKind, stored
<1> QED
  BY <1>1, <1>2

LEMMA Invariance ==
  ASSUME OrderlyProvider
  PROVE  Spec => []PairInv
<1>1. PairInv /\ [Next]_vars => PairInv'
  BY StepLemma
<1> QED
  BY <1>1, InitLemma, PTL DEF Spec

-----------------------------------------------------------------------------
(* The theorems.                                                           *)

\* The state of the Monitor and the collections keep their types, a workspace
\* being of one of the kinds or of the empty one (monitor.go, rpc/manager.go).
THEOREM TypeCorrect ==
  ASSUME OrderlyProvider
  PROVE  Spec => []TypeOK
<1>1. Spec => []PairInv
  BY Invariance
<1> QED
  BY <1>1, PTL DEF PairInv

\* All workspaces in the database are of the recorded kind, whether the Manager
\* asked for them or the Provider reported them, but for those of the empty kind
\* and those reported while none was recorded (usecase/workspace.go, rpc/manager.go).
THEOREM KindKept ==
  ASSUME OrderlyProvider
  PROVE  Spec => []OneKind
<1>1. Spec => []PairInv
  BY Invariance
<1> QED
  BY <1>1, PTL DEF PairInv

\* A kind that has been recorded stays, through restarts and exchanged
\* Providers: only Save writes the record, and what it writes was compared
\* with the record when the process began (monitor.go, Bootstrap).
THEOREM KindForGood ==
  ASSUME OrderlyProvider
  PROVE  Spec => KindFixed
<1>1. PairInv /\ [Next]_vars => [meta.kind # "none" => meta'.kind = meta.kind]_vars
  <2> SUFFICES ASSUME PairInv, Next, meta.kind # "none" PROVE meta'.kind = meta.kind
    BY DEF vars
  <2>1. CASE Save
    BY <2>1, PairingAssumption DEF Save, PairInv, TypeOK, MemFollowsMeta, MemFollowsProvider, Paired
  <2>2. CASE UNCHANGED meta
    BY <2>2
  <2> QED
    BY <2>1, <2>2
    DEF Next, Watch, Load, GiveUp, Miss, Reach, Mismatch, Refresh, LoseSave, AskKind,
        AskWorkspaces, StoreFound, CutSync, ReportWorkspaces, StoreReported, CutReport,
        Crash, Start, Change
<1>2. Spec => []PairInv
  BY Invariance
<1> QED
  BY <1>1, <1>2, PTL DEF Spec, KindFixed

=============================================================================
