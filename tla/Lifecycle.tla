----------------------------- MODULE Lifecycle ------------------------------
(***************************************************************************)
(* The daemon as a process (src/src/main.cpp, constructor and destructor   *)
(* in src/src/alarms/Daemon.cpp): the main thread, which constructs the    *)
(* daemon, waits for a signal and destroys it, and the threads of the two  *)
(* subscriptions, which run the handlers as soon as they are registered.   *)
(*                                                                         *)
(* Handlers are cut where another thread can tell: when they lock m_mtx,   *)
(* use the datastore of m_session, which the main thread switches without  *)
(* the mutex, and read what is not there before the end of the             *)
(* constructor or after the destructor.  Their effect on the alarms is     *)
(* the subject of module Daemon.                                           *)
(***************************************************************************)
EXTENDS Integers

CONSTANTS
    None,                 \* an empty std::optional, nobody, nothing
    LogLevelOptions,      \* values of --log-level; None if not an integer
    EditsWhileStarting,   \* whether control is edited while the constructor runs
    MaxRequests,          \* bound: RPCs and control events
    MaxEdits              \* bound: edits of the inventory

Thread     == {"main", "alarm", "inventory"}
Datastores == {"Operational", "Running"}
Submits    == {"raise", "clear"}
Kinds      == Submits \cup {"purge", "compress", "control"}
Stages     == {"rpcs", "all"}
Optionals  == {"m_edit", "m_shelvingRules", "data"}

ASSUME LifecycleAssumption ==
    /\ None \notin Int \cup Thread \cup Datastores \cup Kinds \cup Stages \cup Optionals
    /\ LogLevelOptions \subseteq Int \cup {None}
    /\ EditsWhileStarting \in BOOLEAN
    /\ MaxRequests \in Nat /\ MaxEdits \in Nat

VARIABLES
    pc,               \* what each thread does next
    m_mtx,            \* the thread that holds the mutex
    m_edit,           \* whether the optional has a value
    m_shelvingRules,  \* whether the optional has a value
    m_alarms,         \* whether the map has an alarm
    m_inventoryDirty,
    m_inventory,      \* version that was read; None: none yet
    session,          \* the active datastore of m_session
    switched,         \* what the handler's ScopedDatastoreSwitch restores
    data,             \* the inventory in what getData() returned
    request,          \* what the handler of m_alarmSub works on
    requests,         \* how many there have been
    alarmSub,         \* None, "rpcs" or, with the control callback, "all"
    inventorySub,     \* None or the datastore it listens to
    inventory,        \* version of the inventory in the datastore
    inventoryEvents,  \* undelivered events of its edits
    handlers,         \* whether the signal handlers are installed
    signalled,        \* a SIGTERM or SIGINT has arrived,
    missed,           \* and one after signal() but before pause()
    fault             \* the empty optional that was dereferenced

members  == <<m_edit, m_shelvingRules, m_alarms>>
cached   == <<m_inventoryDirty, m_inventory>>
sessions == <<session, switched>>
handling == <<data, request, requests>>
subs     == <<alarmSub, inventorySub>>
outside  == <<inventory, inventoryEvents>>
signals  == <<handlers, signalled, missed>>
vars == <<pc, m_mtx, members, cached, sessions, handling, subs, outside, signals, fault>>

(* The process is gone, or nothing is known of it any more.                *)
Ended == pc["main"] = "exited" \/ fault # None

Goto(thread, from, to) ==
    ~Ended /\ pc[thread] = from /\ pc' = [pc EXCEPT ![thread] = to]

Init ==
    /\ pc = [t \in Thread |-> IF t = "main" THEN "options" ELSE "idle"]
    /\ m_mtx = None
    /\ m_edit = FALSE /\ m_shelvingRules = FALSE /\ m_alarms = FALSE
    /\ m_inventoryDirty = TRUE /\ m_inventory = None
    /\ session = "Operational" /\ switched = None
    /\ data = None /\ request = None /\ requests = 0
    /\ alarmSub = None /\ inventorySub = None
    /\ inventory = 0 /\ inventoryEvents = 0
    /\ handlers = FALSE /\ signalled = FALSE /\ missed = FALSE
    /\ fault = None
-----------------------------------------------------------------------------
(* main() and the constructor *)

(* parseLogLevel(): the option counts from critical, spdlog from trace.    *)
parseLogLevel(x) == IF x \in 0..5 THEN 5 - x ELSE None

ParseOptions(x) ==
    /\ Goto("main", "options", IF parseLogLevel(x) = None THEN "exited" ELSE "modules")
    /\ UNCHANGED <<m_mtx, members, cached, sessions, handling, subs, outside, signals, fault>>

(* ensureModuleImplemented() for both modules.                             *)
EnsureModules ==
    /\ Goto("main", "modules", "publish")
    /\ UNCHANGED <<m_mtx, members, cached, sessions, handling, subs, outside, signals, fault>>

PublishInitial ==
    /\ Goto("main", "publish", "rpcs")
    /\ m_edit' = TRUE
    /\ UNCHANGED <<m_mtx, m_shelvingRules, m_alarms, cached, sessions, handling, subs,
                   outside, signals, fault>>

(* onRPCAction(): from here on the alarm thread takes RPCs.                *)
SubscribeRpcs ==
    /\ Goto("main", "rpcs", "switch")
    /\ alarmSub' = "rpcs"
    /\ UNCHANGED <<m_mtx, members, cached, sessions, handling, inventorySub, outside,
                   signals, fault>>

SwitchToRunning ==
    /\ Goto("main", "switch", "control")
    /\ session' = "Running"
    /\ UNCHANGED <<m_mtx, members, cached, switched, handling, subs, outside, signals, fault>>

(* onModuleChange() for control.  SubscribeOptions::Enabled: the callback  *)
(* runs at once, on this thread, for all that is configured, and reads the *)
(* shelving rules.  Faulty variant: without the option.                    *)
SubscribeLater ==
    /\ Goto("main", "control", "restore")
    /\ m_mtx = None
    /\ alarmSub' = "all"
    /\ UNCHANGED <<m_mtx, members, cached, sessions, handling, inventorySub, outside,
                   signals, fault>>

EnableControl ==
    /\ Goto("main", "control", "restore")
    /\ m_mtx = None
    /\ m_shelvingRules' = TRUE
    /\ alarmSub' = "all"
    /\ UNCHANGED <<m_mtx, m_edit, m_alarms, cached, sessions, handling, inventorySub,
                   outside, signals, fault>>

(* ~ScopedDatastoreSwitch(): back to what was active before.  Faulty       *)
(* variant: a switch that is not undone.                                   *)
StayInRunning ==
    /\ Goto("main", "restore", "inventory")
    /\ UNCHANGED <<m_mtx, members, cached, sessions, handling, subs, outside, signals, fault>>

RestoreDatastore ==
    /\ Goto("main", "restore", "inventory")
    /\ session' = "Operational"
    /\ UNCHANGED <<m_mtx, members, cached, switched, handling, subs, outside, signals, fault>>

(* onModuleChange() for alarm-inventory, in whatever datastore m_session   *)
(* has active.  Its callback runs at once as well and marks the inventory  *)
(* dirty.  Faulty variant: it does not.                                    *)
InventoryMarked(wasDirty) == wasDirty

MarkedAtOnce(wasDirty) == TRUE

EnableInventory ==
    /\ Goto("main", "inventory", "handlers")
    /\ m_mtx = None
    /\ m_inventoryDirty' = MarkedAtOnce(m_inventoryDirty)
    /\ inventorySub' = session
    /\ UNCHANGED <<m_mtx, members, m_inventory, sessions, handling, alarmSub, outside,
                   signals, fault>>

(* Any of these steps may throw, before a callback takes the mutex too.    *)
(* The members are destroyed in the reverse order of their declaration:    *)
(* m_edit, without the mutex, then the subscriptions.                      *)
ConstructionFails ==
    /\ ~Ended
    /\ pc["main"] \in {"modules", "publish", "rpcs", "control", "inventory"}
    /\ pc' = [pc EXCEPT !["main"] = "joinInventory"]
    /\ m_edit' = FALSE
    /\ session' = IF pc["main"] = "control" THEN "Operational" ELSE session
    /\ UNCHANGED <<m_mtx, m_shelvingRules, m_alarms, cached, switched, handling, subs,
                   outside, signals, fault>>

(* waitUntilSignaled() *)
InstallHandlers ==
    /\ Goto("main", "handlers", "beforePause")
    /\ handlers' = TRUE
    /\ UNCHANGED <<m_mtx, members, cached, sessions, handling, subs, outside, signalled,
                   missed, fault>>

Pause ==
    /\ Goto("main", "beforePause", "pause")
    /\ UNCHANGED <<m_mtx, members, cached, sessions, handling, subs, outside, signals, fault>>

(* SIGTERM or SIGINT: without a handler it ends the process; the handler   *)
(* does nothing, but pause() returns.                                      *)
Signal ==
    /\ ~Ended
    /\ signalled' = TRUE
    /\ missed' = (missed \/ pc["main"] = "beforePause")
    /\ pc' = [pc EXCEPT !["main"] = IF ~handlers THEN "exited"
                                    ELSE IF @ = "pause" THEN "destroy" ELSE @]
    /\ UNCHANGED <<m_mtx, members, cached, sessions, handling, subs, outside, handlers, fault>>

(* ~Daemon(), then the destructors of the subscriptions, each of which     *)
(* waits for the handler that is running.  Faulty variant: the mutex is    *)
(* held until the members are gone.                                        *)
DestroyHoldingLock ==
    /\ Goto("main", "destroy", "joinInventory")
    /\ m_mtx = None /\ m_mtx' = "main"
    /\ m_edit' = FALSE
    /\ UNCHANGED <<m_shelvingRules, m_alarms, cached, sessions, handling, subs, outside,
                   signals, fault>>

Destroy ==
    /\ Goto("main", "destroy", "joinInventory")
    /\ m_mtx = None
    /\ m_edit' = FALSE
    /\ UNCHANGED <<m_mtx, m_shelvingRules, m_alarms, cached, sessions, handling, subs, outside,
                   signals, fault>>

JoinInventory ==
    /\ Goto("main", "joinInventory", "joinAlarm")
    /\ pc["inventory"] = "idle"
    /\ inventorySub' = None
    /\ UNCHANGED <<m_mtx, members, cached, sessions, handling, alarmSub, outside, signals, fault>>

JoinAlarm ==
    /\ Goto("main", "joinAlarm", "exited")
    /\ pc["alarm"] = "idle"
    /\ alarmSub' = None
    /\ UNCHANGED <<m_mtx, members, cached, sessions, handling, inventorySub, outside, signals,
                   fault>>
-----------------------------------------------------------------------------
(* The thread of m_alarmSub: RPCs, and events of edits of control          *)

Request(kind) ==
    /\ Goto("alarm", "idle", "waiting")
    /\ alarmSub # None
    /\ kind = "control" =>
          alarmSub = "all" /\ (EditsWhileStarting \/ pc["main"] # "restore")
    /\ requests < MaxRequests
    /\ requests' = requests + 1
    /\ request' = kind
    /\ UNCHANGED <<m_mtx, members, cached, sessions, data, subs, outside, signals, fault>>

Lock ==
    /\ Goto("alarm", "waiting",
            IF request \in Submits THEN "submit"
            ELSE IF request = "control" THEN "settings" ELSE "prune")
    /\ m_mtx = None /\ m_mtx' = "alarm"
    /\ UNCHANGED <<members, cached, sessions, handling, subs, outside, signals, fault>>

(* The handler returns or throws; either way the unique_lock lets go of    *)
(* the mutex.  Faulty variant: not where the exception passes.             *)
HeldAfter(threw) == IF threw THEN "alarm" ELSE None

ReleasedAfter(threw) == None

Finish(threw) == m_mtx' = ReleasedAfter(threw) /\ request' = None /\ data' = None

(* operator* of an optional without a value: nothing more is known.        *)
Dereference(optional) ==
    /\ ~Ended
    /\ fault' = optional
    /\ UNCHANGED <<pc, m_mtx, members, cached, sessions, handling, subs, outside, signals>>

(* submitAlarm() asks m_session for all of ietf-alarms.  The inventory is  *)
(* state data: in running the tree that comes back is without it.          *)
getData ==
    /\ Goto("alarm", "submit", "rebuild")
    /\ m_inventoryDirty
    /\ data' = IF session = "Operational" THEN inventory ELSE None
    /\ UNCHANGED <<m_mtx, members, cached, sessions, request, requests, subs, outside,
                   signals, fault>>

getDataThrows ==
    /\ Goto("alarm", "submit", "idle")
    /\ m_inventoryDirty
    /\ Finish(TRUE)
    /\ UNCHANGED <<members, cached, sessions, requests, subs, outside, signals, fault>>

(* findPath() finds the inventory in that tree, or returns an empty        *)
(* optional, and nobody looks which.                                       *)
rebuildInventory ==
    /\ Goto("alarm", "rebuild", "validate")
    /\ data # None
    /\ m_inventory' = data
    /\ m_inventoryDirty' = FALSE
    /\ UNCHANGED <<m_mtx, members, sessions, handling, subs, outside, signals, fault>>

InventoryFaults ==
    /\ pc["alarm"] = "rebuild" /\ data = None
    /\ Dereference("data")

UseCached ==
    /\ Goto("alarm", "submit", "validate")
    /\ ~m_inventoryDirty
    /\ UNCHANGED <<m_mtx, members, cached, sessions, handling, subs, outside, signals, fault>>

(* Refused by the inventory, or a clear of what is not raised: the rules   *)
(* and the edit are not touched.                                           *)
SubmitReturnsEarly ==
    /\ Goto("alarm", "validate", "idle")
    /\ Finish(FALSE)
    /\ UNCHANGED <<members, cached, sessions, requests, subs, outside, signals, fault>>

Proceeds == request = "clear" => m_alarms

(* The alarm is recorded and, unless it was there and is the same, published. *)
SubmitRecords ==
    /\ Proceeds /\ m_shelvingRules /\ m_edit
    /\ m_alarms' = TRUE
    /\ \/ /\ Goto("alarm", "validate", "publish")
          /\ UNCHANGED <<m_mtx, data, request>>
       \/ m_alarms /\ Goto("alarm", "validate", "idle") /\ Finish(FALSE)
    /\ UNCHANGED <<m_edit, m_shelvingRules, cached, sessions, requests, subs, outside,
                   signals, fault>>

SubmitFaults ==
    /\ pc["alarm"] = "validate" /\ Proceeds
    /\ ~m_shelvingRules \/ ~m_edit
    /\ Dereference(IF m_shelvingRules THEN "m_edit" ELSE "m_shelvingRules")

(* purgeAlarms(), compressAlarms() and the control callback: none touches  *)
(* the edit unless an alarm is concerned.                                  *)
HandlerChangesNothing ==
    /\ Goto("alarm", pc["alarm"], "idle")
    /\ pc["alarm"] \in {"prune", "settings"}
    /\ m_shelvingRules' = (m_shelvingRules \/ pc["alarm"] = "settings")
    /\ Finish(FALSE)
    /\ UNCHANGED <<m_edit, m_alarms, cached, sessions, requests, subs, outside, signals, fault>>

Prune ==
    /\ Goto("alarm", "prune", "publish")
    /\ m_alarms /\ m_edit
    /\ m_alarms' \in IF request = "purge" THEN BOOLEAN ELSE {TRUE}
    /\ UNCHANGED <<m_mtx, m_edit, m_shelvingRules, cached, sessions, handling, subs, outside,
                   signals, fault>>

(* The callback publishes under a ScopedDatastoreSwitch of its own.        *)
ControlMovesAlarms ==
    /\ Goto("alarm", "settings", "publish")
    /\ m_alarms /\ m_edit
    /\ m_shelvingRules' = TRUE
    /\ switched' = session /\ session' = "Operational"
    /\ UNCHANGED <<m_mtx, m_edit, m_alarms, cached, handling, subs, outside, signals, fault>>

HandlerFaults ==
    /\ pc["alarm"] \in {"prune", "settings"} /\ m_alarms /\ ~m_edit
    /\ Dereference("m_edit")

(* ~ScopedDatastoreSwitch(), where the handler made one.  Faulty variant:  *)
(* where it made none as well.                                             *)
AlwaysRestored == switched

Restored == IF switched = None THEN session ELSE switched

(* applyChanges() may throw; it does when asked to put state data into the *)
(* running datastore.                                                      *)
applyChanges(threw) ==
    /\ Goto("alarm", "publish", "idle")
    /\ session = "Running" => threw
    /\ Finish(threw)
    /\ session' = Restored
    /\ switched' = None
    /\ UNCHANGED <<members, cached, requests, subs, outside, signals, fault>>

(* A failed constructor gave the edit up, without the mutex, before        *)
(* editBatch() or the notification used it.                                *)
PublishFaults ==
    /\ pc["alarm"] = "publish" /\ ~m_edit
    /\ Dereference("m_edit")
-----------------------------------------------------------------------------
(* The thread of m_inventorySub, and the edits it hears of                 *)

EditInventory ==
    /\ ~Ended
    /\ inventory < MaxEdits
    /\ inventory' = inventory + 1
    /\ inventoryEvents' = inventoryEvents + (IF inventorySub = "Operational" THEN 1 ELSE 0)
    /\ UNCHANGED <<pc, m_mtx, members, cached, sessions, handling, subs, signals, fault>>

TakeEvent ==
    /\ Goto("inventory", "idle", "marking")
    /\ inventorySub # None /\ inventoryEvents > 0
    /\ inventoryEvents' = inventoryEvents - 1
    /\ UNCHANGED <<m_mtx, members, cached, sessions, handling, subs, inventory, signals, fault>>

(* Faulty variant: the flag is set without the mutex.                      *)
MarkDirtyUnlocked ==
    /\ Goto("inventory", "marking", "idle")
    /\ m_inventoryDirty' = TRUE
    /\ UNCHANGED <<m_mtx, members, m_inventory, sessions, handling, subs, outside, signals,
                   fault>>

MarkDirty ==
    /\ Goto("inventory", "marking", "idle")
    /\ m_mtx = None
    /\ m_inventoryDirty' = TRUE
    /\ UNCHANGED <<m_mtx, members, m_inventory, sessions, handling, subs, outside, signals,
                   fault>>
-----------------------------------------------------------------------------
mainStep ==
    \/ \E x \in LogLevelOptions : ParseOptions(x)
    \/ EnsureModules \/ PublishInitial \/ SubscribeRpcs \/ SwitchToRunning \/ EnableControl
    \/ RestoreDatastore \/ EnableInventory \/ ConstructionFails \/ InstallHandlers \/ Pause
    \/ Destroy \/ JoinInventory \/ JoinAlarm

alarmStep ==
    \/ Lock \/ getData \/ getDataThrows \/ rebuildInventory \/ InventoryFaults \/ UseCached
    \/ SubmitReturnsEarly \/ SubmitRecords \/ SubmitFaults
    \/ HandlerChangesNothing \/ Prune \/ ControlMovesAlarms \/ HandlerFaults
    \/ PublishFaults \/ \E threw \in BOOLEAN : applyChanges(threw)

inventoryStep == TakeEvent \/ MarkDirty

Environment == Signal \/ EditInventory \/ \E kind \in Kinds : Request(kind)

Next == mainStep \/ alarmStep \/ inventoryStep \/ Environment \/ (Ended /\ UNCHANGED vars)

Spec == Init /\ [][Next]_vars

(* The system schedules the threads; nobody has to call or to signal.      *)
FairSpec == Spec /\ WF_vars(mainStep) /\ WF_vars(alarmStep) /\ WF_vars(inventoryStep)
-----------------------------------------------------------------------------
(* The labels and the optionals of Daemon.h.                               *)
MainLabels == {"options", "modules", "publish", "rpcs", "switch", "control", "restore",
               "inventory", "handlers", "beforePause", "pause", "destroy", "joinInventory",
               "joinAlarm", "exited"}
InMutex == {"submit", "rebuild", "validate", "prune", "settings", "publish"}

TypeOK ==
    /\ pc \in [Thread -> MainLabels \cup InMutex \cup {"idle", "waiting", "marking"}]
    /\ pc["main"] \in MainLabels
    /\ pc["alarm"] \in InMutex \cup {"idle", "waiting"}
    /\ pc["inventory"] \in {"idle", "marking"}
    /\ m_mtx \in {None} \cup Thread
    /\ m_edit \in BOOLEAN /\ m_shelvingRules \in BOOLEAN /\ m_alarms \in BOOLEAN
    /\ m_inventoryDirty \in BOOLEAN /\ m_inventory \in Nat \cup {None}
    /\ session \in Datastores /\ switched \in Datastores \cup {None}
    /\ data \in Nat \cup {None} /\ request \in Kinds \cup {None} /\ requests \in Nat
    /\ alarmSub \in Stages \cup {None} /\ inventorySub \in Datastores \cup {None}
    /\ inventory \in Nat /\ inventoryEvents \in Nat
    /\ handlers \in BOOLEAN /\ signalled \in BOOLEAN /\ missed \in BOOLEAN
    /\ fault \in Optionals \cup {None}

(* No handler checks that m_edit and m_shelvingRules have values           *)
(* (Daemon.cpp:434,436,510), nor that there is an inventory in what        *)
(* getData() returned (Daemon.cpp:652).  The only RPCs that can meet an    *)
(* empty one are those that come before the constructor is through with    *)
(* the running datastore and the control callback, and those that come     *)
(* after the destructor, or a failed constructor, gave up m_edit and       *)
(* before the subscription is gone.                                        *)
MembersFaultAtTheEnds ==
    /\ fault = "m_shelvingRules" =>
          \/ pc["main"] \in {"switch", "control"}
          \/ pc["main"] \in {"joinInventory", "joinAlarm"} /\ ~handlers
    /\ fault = "m_edit" => pc["main"] \in {"joinInventory", "joinAlarm"}

FaultsOnlyAtTheEnds ==
    /\ MembersFaultAtTheEnds
    /\ fault = "data" =>
          \/ pc["main"] \in {"control", "restore", "inventory"}
          \/ pc["main"] \in {"joinInventory", "joinAlarm"} /\ ~handlers

(* submitAlarm() reads the inventory, then lowers the flag; the callback   *)
(* of the other thread raises it (Daemon.cpp:188-191,412-417,674).  What   *)
(* is kept without the flag is the inventory of the operational datastore, *)
(* unless an event is on its way, even if an RPC that came before the      *)
(* callback was subscribed had lowered the flag, and an edit that nobody   *)
(* was told of came in between.                                            *)
InventoryFollowsEdits ==
    /\ inventorySub # None => inventorySub = "Operational"
    /\ /\ inventorySub # None /\ ~m_inventoryDirty
       /\ inventoryEvents = 0 /\ pc["inventory"] = "idle"
       => m_inventory = inventory

(* The mutex belongs to a handler that runs, and none of the steps that    *)
(* wait, neither for the mutex nor for a handler to return, holds it: the  *)
(* threads never wait in a circle (Daemon.cpp:67,188,411,459).             *)
HolderRuns == m_mtx # None => m_mtx = "alarm" /\ pc["alarm"] \in InMutex

(* m_mtx is held across applyChanges() (Daemon.cpp:459), handlers may      *)
(* throw, and the destructors wait for handlers: still, every request      *)
(* comes to an end.                                                        *)
RequestsAnswered == request # None ~> (request = None \/ Ended)

(* A signal ends the process, whatever the handlers are doing, unless it   *)
(* comes between signal() and pause() (waitUntilSignalled.cpp:14-16): then *)
(* it is lost.                                                             *)
SignalStops == signalled /\ ~missed ~> Ended

(* "Ensures that session switches to provided datastore and when the       *)
(* object gets destroyed the session switches back to the original         *)
(* datastore." (sysrepo.h:20)                                              *)
SessionSwitchesBack ==
    pc["main"] \in {"handlers", "beforePause", "pause"} /\ switched = None =>
        session = "Operational"
=============================================================================
