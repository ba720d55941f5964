-------------------------- MODULE LifecycleProofs ---------------------------
(***************************************************************************)
(* Theorems about Lifecycle, for every number of requests and edits.       *)
(***************************************************************************)
EXTENDS Lifecycle, TLAPS

(* The alarm thread is inside a handler exactly when it holds the mutex,   *)
(* and it has a request to work on exactly when it is not idle.            *)
HandlersLock ==
    /\ m_mtx \in {None, "alarm"}
    /\ m_mtx = "alarm" <=> pc["alarm"] \in InMutex
    /\ pc["alarm"] \in {"submit", "rebuild", "validate"} => request \in Submits
    /\ pc["alarm"] = "settings" => request = "control"
    /\ IF pc["alarm"] = "idle" THEN request = None ELSE alarmSub # None

BeforeRpcs == {"options", "modules", "publish", "rpcs"}
Early      == BeforeRpcs \cup {"switch", "control", "restore"}
Joining    == {"joinInventory", "joinAlarm"}

(* How far the main thread has come, told by what there is.                *)
Progress ==
    /\ pc["main"] \in {"exited"} \/ (alarmSub # None => pc["main"] \notin BeforeRpcs)
    /\ pc["main"] \notin {"options", "modules", "publish", "exited"} \cup Joining => m_edit
    /\ pc["main"] \notin BeforeRpcs \cup {"switch", "control", "exited"} \cup Joining
          => m_shelvingRules
    /\ handlers => m_shelvingRules
    /\ pc["main"] \in {"beforePause", "pause", "destroy"} => handlers
    /\ handlers => pc["main"] \in {"beforePause", "pause", "destroy", "exited"} \cup Joining

(* With no edits of control while the constructor runs, the datastore of   *)
(* m_session is only ever away from operational inside the constructor.    *)
SessionKnown ==
    /\ request = "control" => alarmSub = "all" /\ pc["main"] \notin Early
    /\ alarmSub = "all" => pc["main"] \notin BeforeRpcs \cup {"switch", "control"}
    /\ switched # None =>
          pc["alarm"] = "publish" /\ request = "control" /\ switched = "Operational"
    /\ session = "Running" => pc["main"] \in {"control", "restore", "exited"}

(* Nothing of the inventory is in flight: neither an event nor its         *)
(* handler.                                                                *)
Quiet == inventorySub # None /\ inventoryEvents = 0 /\ pc["inventory"] = "idle"

InventoryKnown ==
    /\ inventorySub # None =>
          inventorySub = "Operational" /\ pc["main"] \notin Early \cup {"inventory"}
    /\ Quiet /\ ~m_inventoryDirty => m_inventory = inventory
    /\ Quiet /\ pc["alarm"] = "rebuild" => data = inventory

(* A tree without an inventory was read from the running datastore, before *)
(* the constructor was through with it.                                    *)
StillStarting ==
    \/ pc["main"] \in {"control", "restore", "inventory"}
    \/ pc["main"] \in Joining /\ ~handlers

EmptyRead ==
    /\ pc["alarm"] = "rebuild" /\ data = None => StillStarting \/ pc["main"] = "exited"
    /\ fault = "data" => StillStarting

IInv == TypeOK /\ HandlersLock /\ Progress /\ MembersFaultAtTheEnds
-----------------------------------------------------------------------------
LEMMA InitIInv == Init => IInv /\ SessionKnown /\ InventoryKnown /\ EmptyRead
  <1> SUFFICES ASSUME Init PROVE IInv /\ SessionKnown /\ InventoryKnown /\ EmptyRead
    OBVIOUS
  <1>1. /\ m_edit \in BOOLEAN /\ m_shelvingRules \in BOOLEAN /\ m_alarms \in BOOLEAN
        /\ m_inventoryDirty \in BOOLEAN
        /\ handlers \in BOOLEAN /\ signalled \in BOOLEAN /\ missed \in BOOLEAN
    BY Zenon DEF Init
  <1>2. QED
    BY <1>1, LifecycleAssumption, SMT DEF Init, IInv, TypeOK, HandlersLock, Progress,
       MembersFaultAtTheEnds, SessionKnown, InventoryKnown, EmptyRead, StillStarting, Quiet,
       Thread, MainLabels, InMutex,
       Datastores, Kinds, Submits, Stages, Optionals, BeforeRpcs, Early, Joining

LEMMA MainStep == IInv /\ mainStep => IInv'
  <1> SUFFICES ASSUME IInv, mainStep PROVE IInv'
    OBVIOUS
  <1> USE LifecycleAssumption DEF IInv, TypeOK, HandlersLock, Progress, MembersFaultAtTheEnds,
     Thread, MainLabels, InMutex, Datastores, Kinds,
     Submits, Stages, Optionals, BeforeRpcs, Joining, Goto, Ended, members, cached, sessions, handling, subs, outside, signals
  <1>1. ASSUME NEW x \in LogLevelOptions, ParseOptions(x) PROVE IInv'
    BY <1>1, SMT DEF ParseOptions
  <1>2. CASE EnsureModules BY <1>2, SMT DEF EnsureModules
  <1>3. CASE PublishInitial BY <1>3, SMT DEF PublishInitial
  <1>4. CASE SubscribeRpcs BY <1>4, SMT DEF SubscribeRpcs
  <1>5. CASE SwitchToRunning BY <1>5, SMT DEF SwitchToRunning
  <1>6. CASE EnableControl BY <1>6, SMT DEF EnableControl
  <1>7. CASE RestoreDatastore BY <1>7, SMT DEF RestoreDatastore
  <1>8. CASE EnableInventory BY <1>8, SMT DEF EnableInventory, MarkedAtOnce
  <1>9. CASE ConstructionFails
    <2>1. m_edit' \in BOOLEAN BY <1>9, Zenon DEF ConstructionFails
    <2> QED BY <1>9, <2>1, SMT DEF ConstructionFails
  <1>10. CASE InstallHandlers BY <1>10, SMT DEF InstallHandlers
  <1>11. CASE Pause BY <1>11, SMT DEF Pause
  <1>12. CASE Destroy
    <2>1. m_edit' \in BOOLEAN BY <1>12, Zenon DEF Destroy
    <2> QED BY <1>12, <2>1, SMT DEF Destroy
  <1>13. CASE JoinInventory BY <1>13, SMT DEF JoinInventory
  <1>14. CASE JoinAlarm BY <1>14, SMT DEF JoinAlarm
  <1> QED BY <1>1, <1>2, <1>3, <1>4, <1>5, <1>6, <1>7, <1>8, <1>9, <1>10, <1>11, <1>12, <1>13, <1>14, Zenon DEF mainStep

LEMMA AlarmStep == IInv /\ alarmStep => IInv'
  <1> SUFFICES ASSUME IInv, alarmStep PROVE IInv'
    OBVIOUS
  <1> USE LifecycleAssumption DEF IInv, TypeOK, HandlersLock, Progress, MembersFaultAtTheEnds,
     Thread, MainLabels, InMutex, Datastores, Kinds, Submits, Stages, Optionals, BeforeRpcs,
     Joining, Goto, Ended, members, cached, sessions, handling, subs, outside, signals
  <1>1. CASE Lock BY <1>1, SMT DEF Lock
  <1>2. CASE getData BY <1>2, SMT DEF getData
  <1>3. CASE rebuildInventory
    <2>1. m_inventoryDirty' \in BOOLEAN BY <1>3, Zenon DEF rebuildInventory
    <2>2. QED BY <1>3, <2>1, SMT DEF rebuildInventory
  <1>4. CASE UseCached BY <1>4, SMT DEF UseCached
  <1>5. CASE SubmitReturnsEarly BY <1>5, SMT DEF SubmitReturnsEarly, Finish, ReleasedAfter
  <1>6. CASE SubmitRecords BY <1>6, SMT DEF SubmitRecords, Finish, ReleasedAfter, Proceeds
  <1>7. CASE SubmitFaults BY <1>7, SMT DEF SubmitFaults, Dereference, Proceeds
  <1>8. CASE HandlerChangesNothing
    <2>1. m_shelvingRules' \in BOOLEAN /\ (m_shelvingRules => m_shelvingRules')
      BY <1>8, Zenon DEF HandlerChangesNothing
    <2>2. QED
      BY <1>8, <2>1, SMT DEF HandlerChangesNothing, Finish, ReleasedAfter
  <1>9. CASE Prune
    <2>1. m_alarms' \in BOOLEAN BY <1>9, Zenon DEF Prune
    <2>2. QED BY <1>9, <2>1, SMT DEF Prune
  <1>10. CASE ControlMovesAlarms BY <1>10, SMT DEF ControlMovesAlarms
  <1>11. CASE HandlerFaults BY <1>11, SMT DEF HandlerFaults, Dereference
  <1>12. ASSUME NEW threw \in BOOLEAN, applyChanges(threw) PROVE IInv'
    BY <1>12, SMT DEF applyChanges, Finish, ReleasedAfter, Restored
  <1>13. CASE getDataThrows BY <1>13, SMT DEF getDataThrows, Finish, ReleasedAfter
  <1>14. CASE InventoryFaults BY <1>14, SMT DEF InventoryFaults, Dereference
  <1>15. CASE PublishFaults BY <1>15, SMT DEF PublishFaults, Dereference
  <1> QED BY <1>1, <1>2, <1>3, <1>4, <1>5, <1>6, <1>7, <1>8, <1>9, <1>10, <1>11, <1>12, <1>13,
    <1>14, <1>15, Zenon DEF alarmStep

LEMMA OtherStep == IInv /\ (inventoryStep \/ Environment) => IInv'
  <1> SUFFICES ASSUME IInv, inventoryStep \/ Environment PROVE IInv'
    OBVIOUS
  <1> USE LifecycleAssumption DEF IInv, TypeOK, HandlersLock, Progress, MembersFaultAtTheEnds,
     Thread, MainLabels, InMutex, Datastores, Kinds, Submits, Stages, Optionals, BeforeRpcs,
     Joining, Goto, Ended, members, cached, sessions, handling, subs, outside, signals
  <1>1. CASE TakeEvent BY <1>1, SMT DEF TakeEvent
  <1>2. CASE MarkDirty BY <1>2, SMT DEF MarkDirty
  <1>3. CASE Signal BY <1>3, SMT DEF Signal
  <1>4. CASE EditInventory BY <1>4, SMT DEF EditInventory
  <1>5. ASSUME NEW kind \in Kinds, Request(kind) PROVE IInv'
    BY <1>5, SMT DEF Request
  <1> QED BY <1>1, <1>2, <1>3, <1>4, <1>5, Zenon DEF inventoryStep, Environment

LEMMA Invariance == Spec => []IInv
  <1>1. IInv /\ [Next]_vars => IInv'
    <2> SUFFICES ASSUME IInv, [Next]_vars PROVE IInv'
      OBVIOUS
    <2>1. CASE UNCHANGED vars
      BY <2>1, SMT DEF IInv, TypeOK, HandlersLock, Progress, MembersFaultAtTheEnds, vars,
         members, cached, sessions, handling, subs, outside, signals
    <2>2. QED
      BY <2>1, MainStep, AlarmStep, OtherStep, Zenon DEF Next
  <1>2. QED BY InitIInv, <1>1, PTL DEF Spec

(* Every reachable state has the types of the members of Daemon.h.         *)
THEOREM LifecycleTypes == Spec => []TypeOK
  BY Invariance, PTL DEF IInv

(* The unchecked dereferences of m_edit and m_shelvingRules in the         *)
(* handlers are safe from the end of the constructor to the beginning of   *)
(* the destructor, however many requests interleave with both, and         *)
(* whatever is edited meanwhile.                                           *)
THEOREM MemberFaultsConfined == Spec => []MembersFaultAtTheEnds
  BY Invariance, PTL DEF IInv

(* Whoever holds the mutex is inside a handler, where nothing waits: no    *)
(* number of requests makes the three threads wait for one another.        *)
THEOREM HolderAlwaysRuns == Spec => []HolderRuns
  <1>1. IInv => HolderRuns
    BY Zenon DEF IInv, HandlersLock, HolderRuns
  <1> QED
    BY <1>1, Invariance, PTL
-----------------------------------------------------------------------------
(* What getData() returns depends on the datastore that m_session has      *)
(* active, which is known only if control is not edited while the          *)
(* constructor runs.                                                       *)

Known == SessionKnown /\ InventoryKnown /\ EmptyRead

LEMMA KnownMainStep == IInv /\ Known /\ mainStep => Known'
  <1> SUFFICES ASSUME IInv, Known, mainStep PROVE Known'
    OBVIOUS
  <1> USE LifecycleAssumption DEF IInv, TypeOK, HandlersLock, Known, SessionKnown,
     InventoryKnown, EmptyRead, StillStarting, Joining, Progress, Optionals, Quiet, Thread,
     MainLabels, InMutex, Datastores, Kinds, Submits, Stages, BeforeRpcs, Early, Goto, Ended, members, cached, sessions, handling, subs, outside
  <1>1. ASSUME NEW x \in LogLevelOptions, ParseOptions(x) PROVE Known'
    BY <1>1, SMT DEF ParseOptions
  <1>2. CASE EnsureModules BY <1>2, SMT DEF EnsureModules
  <1>3. CASE PublishInitial BY <1>3, SMT DEF PublishInitial
  <1>4. CASE SubscribeRpcs BY <1>4, SMT DEF SubscribeRpcs
  <1>5. CASE SwitchToRunning BY <1>5, SMT DEF SwitchToRunning
  <1>6. CASE EnableControl BY <1>6, SMT DEF EnableControl
  <1>7. CASE RestoreDatastore BY <1>7, SMT DEF RestoreDatastore
  <1>8. CASE EnableInventory BY <1>8, SMT DEF EnableInventory, MarkedAtOnce
  <1>9. CASE ConstructionFails BY <1>9, SMT DEF ConstructionFails
  <1>10. CASE InstallHandlers BY <1>10, SMT DEF InstallHandlers
  <1>11. CASE Pause BY <1>11, SMT DEF Pause
  <1>12. CASE Destroy BY <1>12, SMT DEF Destroy
  <1>13. CASE JoinInventory BY <1>13, SMT DEF JoinInventory
  <1>14. CASE JoinAlarm BY <1>14, SMT DEF JoinAlarm
  <1>15. QED
    BY <1>1, <1>2, <1>3, <1>4, <1>5, <1>6, <1>7, <1>8, <1>9, <1>10, <1>11, <1>12, <1>13, <1>14,
       Zenon DEF mainStep

LEMMA KnownAlarmStep == IInv /\ Known /\ alarmStep => Known'
  <1> SUFFICES ASSUME IInv, Known, alarmStep PROVE Known'
    OBVIOUS
  <1> USE LifecycleAssumption DEF IInv, TypeOK, HandlersLock, Known, SessionKnown,
     InventoryKnown, EmptyRead, StillStarting, Joining, Progress, Optionals, Quiet, Thread,
     MainLabels, InMutex, Datastores, Kinds, Submits, Stages, BeforeRpcs, Early, Goto, Ended, members, cached, sessions, handling, subs, outside
  <1>1. CASE Lock BY <1>1, SMT DEF Lock
  <1>2. CASE getData BY <1>2, SMT DEF getData
  <1>3. CASE rebuildInventory BY <1>3, SMT DEF rebuildInventory
  <1>4. CASE UseCached BY <1>4, SMT DEF UseCached
  <1>5. CASE SubmitReturnsEarly BY <1>5, SMT DEF SubmitReturnsEarly, Finish, ReleasedAfter
  <1>6. CASE SubmitRecords BY <1>6, SMT DEF SubmitRecords, Finish, ReleasedAfter
  <1>7. CASE SubmitFaults BY <1>7, SMT DEF SubmitFaults, Dereference
  <1>8. CASE HandlerChangesNothing BY <1>8, SMT DEF HandlerChangesNothing, Finish, ReleasedAfter
  <1>9. CASE Prune BY <1>9, SMT DEF Prune
  <1>10. CASE ControlMovesAlarms BY <1>10, SMT DEF ControlMovesAlarms
  <1>11. CASE HandlerFaults BY <1>11, SMT DEF HandlerFaults, Dereference
  <1>12. ASSUME NEW threw \in BOOLEAN, applyChanges(threw) PROVE Known'
    BY <1>12, SMT DEF applyChanges, Finish, ReleasedAfter, Restored
  <1>13. CASE getDataThrows BY <1>13, SMT DEF getDataThrows, Finish, ReleasedAfter
  <1>14. CASE InventoryFaults BY <1>14, SMT DEF InventoryFaults, Dereference
  <1>15. CASE PublishFaults BY <1>15, SMT DEF PublishFaults, Dereference
  <1>16. QED
    BY <1>1, <1>2, <1>3, <1>4, <1>5, <1>6, <1>7, <1>8, <1>9, <1>10, <1>11, <1>12, <1>13, <1>14,
       <1>15, Zenon DEF alarmStep

LEMMA KnownOtherStep ==
    ~EditsWhileStarting /\ IInv /\ Known /\ (inventoryStep \/ Environment) => Known'
  <1> SUFFICES ASSUME ~EditsWhileStarting, IInv, Known, inventoryStep \/ Environment
               PROVE Known'
    OBVIOUS
  <1> USE LifecycleAssumption DEF IInv, TypeOK, HandlersLock, Known, SessionKnown,
     InventoryKnown, EmptyRead, StillStarting, Joining, Progress, Optionals, Quiet, Thread,
     MainLabels, InMutex, Datastores, Kinds, Submits, Stages, BeforeRpcs, Early, Goto, Ended, members, cached, sessions, handling, subs, outside
  <1>1. CASE TakeEvent BY <1>1, SMT DEF TakeEvent
  <1>2. CASE MarkDirty BY <1>2, SMT DEF MarkDirty
  <1>3. CASE Signal BY <1>3, SMT DEF Signal
  <1>4. CASE EditInventory BY <1>4, SMT DEF EditInventory
  <1>5. ASSUME NEW kind \in Kinds, Request(kind) PROVE Known'
    BY <1>5, SMT DEF Request
  <1>6. QED BY <1>1, <1>2, <1>3, <1>4, <1>5, Zenon DEF inventoryStep, Environment

LEMMA KnownInvariance == ~EditsWhileStarting => (Spec => []Known)
  <1> SUFFICES ASSUME ~EditsWhileStarting PROVE Spec => []Known
    OBVIOUS
  <1>1. IInv /\ Known /\ [Next]_vars => Known'
    <2> SUFFICES ASSUME IInv, Known, [Next]_vars PROVE Known'
      OBVIOUS
    <2>1. CASE UNCHANGED vars
      BY <2>1, SMT DEF Known, SessionKnown, InventoryKnown, EmptyRead, StillStarting, Quiet,
         vars, members, cached, sessions, handling, subs, outside, signals
    <2>2. QED
      BY <2>1, KnownMainStep, KnownAlarmStep, KnownOtherStep, Zenon DEF Next
  <1>2. Init => Known
    BY InitIInv DEF Known
  <1>3. QED
    BY Invariance, <1>1, <1>2, PTL DEF Spec

(* If control is not edited while the constructor runs, no handler, early, *)
(* late or in between, finds an optional empty but in the two windows: a   *)
(* tree read without the inventory, on the running datastore, is never     *)
(* rebuilt from once the constructor is through.                           *)
THEOREM FaultsConfined == ~EditsWhileStarting => (Spec => []FaultsOnlyAtTheEnds)
  <1>1. IInv /\ Known => FaultsOnlyAtTheEnds
    BY Zenon DEF IInv, Known, EmptyRead, StillStarting, Joining, FaultsOnlyAtTheEnds
  <1> QED
    BY <1>1, Invariance, KnownInvariance, PTL

(* If control is not edited while the constructor runs, the inventory that *)
(* submitAlarm() validates against is that of the operational datastore    *)
(* unless an event is on its way: no interleaving of the two threads and   *)
(* the constructor loses the dirty flag or keeps what was read before an   *)
(* edit.                                                                   *)
THEOREM InventoryIsFollowed == ~EditsWhileStarting => (Spec => []InventoryFollowsEdits)
  <1>1. Known => InventoryFollowsEdits
    BY SMT DEF Known, InventoryKnown, Quiet, InventoryFollowsEdits
  <1> QED
    BY <1>1, KnownInvariance, PTL

(* Under the same condition the datastore switches nest as their comment   *)
(* promises (sysrepo.h:20), although the threads share the session.        *)
THEOREM SessionIsSwitchedBack == ~EditsWhileStarting => (Spec => []SessionSwitchesBack)
  <1>1. TypeOK /\ Known => SessionSwitchesBack
    BY SMT DEF TypeOK, Datastores, Known, SessionKnown, SessionSwitchesBack
  <1> QED
    BY <1>1, KnownInvariance, LifecycleTypes, PTL
=============================================================================
