------------------------------- MODULE Daemon -------------------------------
(***************************************************************************)
(* The alarm daemon (src/src/alarms/Daemon.cpp, Daemon.h) between its two  *)
(* neighbours in sysrepo: the operational datastore into which it          *)
(* publishes the alarm lists, and the running configuration and alarm      *)
(* inventory which other processes edit.                                   *)
(*                                                                         *)
(* Every handler holds m_mtx while it uses the daemon's state, and all     *)
(* handlers but the inventory callback belong to one subscription, which   *)
(* runs them one at a time: a handler is one action.  What interleaves is  *)
(* the handlers with the edits of the datastores and with the delivery of  *)
(* the change events, which happens some time after the edit.              *)
(***************************************************************************)
EXTENDS Filters, FiniteSets

CONSTANTS
    Submissions,     \* inputs of the create-or-update-alarm RPC
    PurgeInputs,     \* inputs of the two purge RPCs
    CompressInputs,  \* inputs of the two compress RPCs
    Configs,         \* contents /ietf-alarms:alarms/control may have
    Inventories,     \* contents /ietf-alarms:alarms/alarm-inventory may have
    ApplyMayFail,    \* whether applyChanges() and other calls into sysrepo may throw
    MaxTime,         \* bound: instants after which nobody calls or edits any more
    MaxPending       \* bound: change events waiting for delivery

(* The values of the control container that the YANG constraints allow:    *)
(* the "must" and the "when" tie notify-severity-level to severity-level.  *)
Config == {c \in [maxAlarmStatusChanges : Nat \cup {None},
                  notifyStatusChanges   : NotifyStatusChanges,
                  notifySeverityLevel   : Severities \cup {None},
                  shelves               : Seq(Shelf)] :
             c.notifyStatusChanges = "BySeverity" <=> c.notifySeverityLevel # None}

InventoryData == [resources : SUBSET Resource, severities : SUBSET Severities]

ASSUME InputAssumption ==
    /\ Submissions \subseteq [key : InstanceKey, text : Text,
                              severity : Severities \cup {ClearedSeverity}]
    /\ PurgeInputs \subseteq PurgeInput
    /\ CompressInputs \subseteq CompressInput
    /\ Configs # {} /\ \A c \in Configs : c \in Config
    /\ Inventories # {}
    /\ \A i \in Inventories : /\ DOMAIN i \subseteq Type
                              /\ i \in [DOMAIN i -> InventoryData]
    /\ ApplyMayFail \in BOOLEAN
    /\ MaxTime \in Nat /\ MaxPending \in Nat

VARIABLES
    \* the daemon's members, under their names in Daemon.h
    m_notifyStatusChanges, m_notifySeverityThreshold, m_maxAlarmStatusChanges,
    m_inventoryDirty, m_inventory, m_alarms,
    m_alarmListLastChanged, m_shelfListLastChanged, m_shelvingRules, m_edit,
    \* sysrepo
    running,          \* /ietf-alarms:alarms/control in the running datastore
    inventory,        \* /ietf-alarms:alarms/alarm-inventory
    oper,             \* what the daemon's edits published
    controlEvents,    \* "done" events of control edits, oldest first
    inventoryEvents,  \* number of undelivered events of inventory edits
    \* what the last step sent, and the clock
    reply, notification, clock

control   == <<m_notifyStatusChanges, m_notifySeverityThreshold,
               m_maxAlarmStatusChanges, m_shelvingRules>>
cache     == <<m_alarms, m_alarmListLastChanged, m_shelfListLastChanged, m_edit>>
validator == <<m_inventoryDirty, m_inventory>>
datastore == <<running, inventory, controlEvents, inventoryEvents>>
vars == <<control, cache, validator, datastore, oper, reply, notification, clock>>
-----------------------------------------------------------------------------
(* The edit tree.  A row of either list has the leaves of the YANG         *)
(* grouping resource-alarm-parameters and one leaf of its own.             *)

ListedChange == [time : Time, severity : Severities \cup {ClearedSeverity}, text : Text]

Leaves == [isCleared : BOOLEAN, lastRaised : Time, lastChanged : Time,
           perceivedSeverity : Severities, alarmText : Text,
           statusChange : Seq(ListedChange)]

AlarmRow   == [leaves : Leaves, timeCreated : Time]
ShelvedRow == [leaves : Leaves, shelfName : ShelfName]

Put(f, k, v) == [x \in DOMAIN f \cup {k} |-> IF x = k THEN v ELSE f[x]]

Without(f, K) == [x \in DOMAIN f \ K |-> f[x]]

(* findPath(statusChangeXPath(...))->unlink() for every instant in times:  *)
(* the other rows keep their order.                                        *)
Unlink(list, times) ==
    LET kept   == {i \in DOMAIN list : list[i].time \notin times}
        nth(n) == CHOOSE i \in kept : Cardinality(kept \cap 1..i) = n
    IN  [n \in 1..Cardinality(kept) |-> list[nth(n)]]

NewStatusChange(entry) ==
    [time     |-> entry.lastChanged,
     severity |-> IF entry.isCleared THEN ClearedSeverity ELSE entry.lastSeverity,
     text     |-> entry.text]

(* updateStatusChangeList(): the new change becomes the first of the list. *)
(* Faulty variant: it stays where newPath() put it, at the end.            *)
appendToStatusChangeList(list, entry, removed) ==
    Unlink(list \o <<NewStatusChange(entry)>>, removed)

updateStatusChangeList(list, entry, removed) ==
    Unlink(<<NewStatusChange(entry)>> \o list, removed)

UpdatedLeaves(list, entry, removed) ==
    [isCleared         |-> entry.isCleared,
     lastRaised        |-> entry.lastRaised,
     lastChanged       |-> entry.lastChanged,
     perceivedSeverity |-> entry.lastSeverity,
     alarmText         |-> entry.text,
     statusChange      |-> updateStatusChangeList(list, entry, removed)]

Shelved(alarms) == {k \in DOMAIN alarms : alarms[k].shelf # None}
Unshelved(alarms) == {k \in DOMAIN alarms : alarms[k].shelf = None}

(* updateStatistics(): the last-changed stamps only move forward to the    *)
(* latest change of an alarm on the list; the counters are recounted.      *)
Latest(stamp, instants) ==
    IF \E t \in instants : t >= stamp /\ \A u \in instants : u <= t
      THEN CHOOSE t \in instants : t >= stamp /\ \A u \in instants : u <= t
      ELSE stamp

(* Faulty variant: changes of alarms leave the stamp alone.                *)
StampUnmoved(stamp, alarms, keys) == stamp

LatestChange(stamp, alarms, keys) == Latest(stamp, {alarms[k].lastChanged : k \in keys})

(* Faulty variant: shelved alarms are counted too.                         *)
SummaryOfAll(alarms) ==
    [severity \in Severities |->
        LET total   == {k \in DOMAIN alarms : alarms[k].lastSeverity = severity}
            cleared == {k \in total : alarms[k].isCleared}
        IN  [total      |-> Cardinality(total),
             cleared    |-> Cardinality(cleared),
             notCleared |-> Cardinality(total) - Cardinality(cleared)]]

Summary(alarms) ==
    [severity \in Severities |->
        LET total   == {k \in Unshelved(alarms) : alarms[k].lastSeverity = severity}
            cleared == {k \in total : alarms[k].isCleared}
        IN  [total      |-> Cardinality(total),
             cleared    |-> Cardinality(cleared),
             notCleared |-> Cardinality(total) - Cardinality(cleared)]]

Statistics(alarms, alarmStamp, shelfStamp) ==
    [summary                  |-> Summary(alarms),
     numberOfAlarms           |-> Cardinality(Unshelved(alarms)),
     lastChanged              |-> alarmStamp,
     numberOfShelvedAlarms    |-> Cardinality(Shelved(alarms)),
     shelvedAlarmsLastChanged |-> shelfStamp]

(* The stamps and the statistics of the edit, recomputed for new contents  *)
(* of m_alarms from the given values of the stamps.                        *)
updateStatistics(alarms, alarmRows, shelvedRows, alarmStamp, shelfStamp) ==
    /\ m_alarmListLastChanged' = LatestChange(alarmStamp, alarms, Unshelved(alarms))
    /\ m_shelfListLastChanged' = LatestChange(shelfStamp, alarms, Shelved(alarms))
    /\ m_edit' = [alarm        |-> alarmRows,
                  shelvedAlarm |-> shelvedRows,
                  stats        |-> Statistics(alarms, m_alarmListLastChanged',
                                                      m_shelfListLastChanged')]

(* editBatch(Replace) and applyChanges(): what the daemon had published is *)
(* replaced by the new edit, or the call throws and nothing is published.  *)
(* Faulty variants: a merge, which keeps the rows that the edit dropped;   *)
(* an edit that leaves the statistics alone is not published.              *)
PublishMerged(fails) ==
    /\ fails => ApplyMayFail
    /\ oper' = IF fails THEN oper
               ELSE [m_edit' EXCEPT !.alarm = [k \in DOMAIN oper.alarm \cup DOMAIN @ |->
                                                 IF k \in DOMAIN @ THEN @[k] ELSE oper.alarm[k]]]

PublishIfCounted(fails) ==
    /\ fails => ApplyMayFail
    /\ oper' = IF fails \/ m_edit'.stats = oper.stats THEN oper ELSE m_edit'

Publish(fails) ==
    /\ fails => ApplyMayFail
    /\ oper' = IF fails THEN oper ELSE m_edit'

(* An exception that leaves a handler becomes an error code of the RPC.    *)
Reply(code, count) == reply' = [code |-> code, count |-> count]

(* Recording an instant.  The bound is on what the clients ask for: the    *)
(* callback may always record one more, so that no event is stuck.         *)
Now == clock + 1
Advance == clock' = Now
WithinTime == clock < MaxTime
-----------------------------------------------------------------------------
(* Daemon::submitAlarm() *)

(* The subscription refuses the RPC from a management client.              *)
RefuseClient ==
    /\ Reply("OperationFailed", 0)
    /\ notification' = None
    /\ UNCHANGED <<control, cache, validator, datastore, oper, clock>>

SubmitBadKey(input) ==
    /\ ~ HasXPathIndex(input.key)
    /\ Reply("InvalidArgument", 0)
    /\ notification' = None
    /\ UNCHANGED <<control, cache, validator, datastore, oper, clock>>

(* getData() throws: the inventory stays dirty and the alarm unknown.      *)
SubmitReadFails(input) ==
    /\ ApplyMayFail
    /\ HasXPathIndex(input.key)
    /\ m_inventoryDirty
    /\ Reply("OperationFailed", 0)
    /\ notification' = None
    /\ UNCHANGED <<control, cache, validator, datastore, oper, clock>>

(* Faulty variant: the inventory is read once only.                        *)
InventoryReadOnce == IF m_inventory = [k \in {} |-> None] THEN inventory ELSE m_inventory

FreshInventory == IF m_inventoryDirty THEN inventory ELSE m_inventory

rebuildInventory == m_inventory' = FreshInventory /\ m_inventoryDirty' = FALSE

ResourceAllowed(data, key) == data.resources # {} => key.resource \in data.resources

SeverityAllowed(data, severity) ==
    data.severities # {} /\ severity # ClearedSeverity => severity \in data.severities

(* Faulty variant: the list of resources is not consulted.                 *)
inventoryTypeError(inv, key, severity) ==
    key.type \in DOMAIN inv => ~ SeverityAllowed(inv[key.type], severity)

inventoryValidationError(inv, key, severity) ==
    key.type \in DOMAIN inv =>
        ~ (ResourceAllowed(inv[key.type], key) /\ SeverityAllowed(inv[key.type], severity))

SubmitNotInInventory(input) ==
    /\ HasXPathIndex(input.key)
    /\ rebuildInventory
    /\ inventoryValidationError(m_inventory', input.key, input.severity)
    /\ Reply("OperationFailed", 0)
    /\ notification' = None
    /\ UNCHANGED <<control, cache, datastore, oper, clock>>

IsRedundantClear(input) ==
    /\ input.severity = ClearedSeverity
    /\ input.key \in DOMAIN m_alarms => m_alarms[input.key].isCleared

SubmitRedundantClear(input) ==
    /\ HasXPathIndex(input.key)
    /\ rebuildInventory
    /\ ~ inventoryValidationError(m_inventory', input.key, input.severity)
    /\ IsRedundantClear(input)
    /\ Reply("Ok", 0)
    /\ notification' = None
    /\ UNCHANGED <<control, cache, datastore, oper, clock>>

(* createStatusChangeNotification() reads the row of the edit.             *)
StatusChangeNotification(key, leaves) ==
    [kind     |-> "alarm-notification",
     key      |-> key,
     time     |-> leaves.lastChanged,
     text     |-> leaves.alarmText,
     severity |-> IF leaves.isCleared THEN ClearedSeverity ELSE leaves.perceivedSeverity]

ShelfFor(key) == findMatchingShelf(key, m_shelvingRules)

WhatChanged(input) ==
    updateByRpc(IF input.key \in DOMAIN m_alarms THEN m_alarms[input.key] ELSE DefaultEntry,
                input.key \in DOMAIN m_alarms, Now, input, ShelfFor(input.key),
                m_notifyStatusChanges, m_notifySeverityThreshold, m_maxAlarmStatusChanges)

(* The update repeats what the entry says already: nothing is published.   *)
(* newPath(Update) leaves the row alone, which exists by EditMirrorsCache. *)
SubmitUnchanged(input) ==
    /\ HasXPathIndex(input.key)
    /\ rebuildInventory
    /\ ~ inventoryValidationError(m_inventory', input.key, input.severity)
    /\ ~ IsRedundantClear(input)
    /\ ~ WhatChanged(input).changed
    /\ m_alarms' = Put(m_alarms, input.key, WhatChanged(input).entry)
    /\ Reply("Ok", 0)
    /\ notification' = None
    /\ UNCHANGED <<control, m_edit, m_alarmListLastChanged, m_shelfListLastChanged,
                   datastore, oper, clock>>

(* The rows of the list that the shelf selects, with the row of the alarm  *)
(* created or overwritten.                                                 *)
ListedHistory(rows, key) ==
    IF key \in DOMAIN rows THEN rows[key].leaves.statusChange ELSE <<>>

UpdatedAlarmRows(input, res) ==
    LET leaves == UpdatedLeaves(ListedHistory(m_edit.alarm, input.key), res.entry, res.removed)
    IN  IF ShelfFor(input.key) # None THEN m_edit.alarm
        ELSE Put(m_edit.alarm, input.key,
                 [leaves |-> leaves, timeCreated |-> res.entry.created])

UpdatedShelvedRows(input, res) ==
    LET leaves == UpdatedLeaves(ListedHistory(m_edit.shelvedAlarm, input.key),
                                res.entry, res.removed)
    IN  IF ShelfFor(input.key) = None THEN m_edit.shelvedAlarm
        ELSE Put(m_edit.shelvedAlarm, input.key,
                 [leaves |-> leaves, shelfName |-> res.entry.shelf])

(* sendNotification() comes after applyChanges().  Faulty variant: before. *)
SendsFirst(res, fails) == res.shouldNotify

SendsNotification(res, fails) == ~fails /\ res.shouldNotify

(* It may throw as well: then the alarm is published and the client told   *)
(* that the call failed.                                                   *)
SendMayFail(res, fails) == ApplyMayFail /\ SendsNotification(res, fails)

SubmitChanged(input, fails) ==
    LET res    == WhatChanged(input)
        alarms == Put(m_alarms, input.key, res.entry)
        row    == IF ShelfFor(input.key) = None THEN m_edit'.alarm[input.key]
                                                ELSE m_edit'.shelvedAlarm[input.key]
    IN  /\ HasXPathIndex(input.key)
        /\ rebuildInventory
        /\ ~ inventoryValidationError(m_inventory', input.key, input.severity)
        /\ ~ IsRedundantClear(input)
        /\ res.changed
        /\ WithinTime /\ Advance
        /\ m_alarms' = alarms
        /\ updateStatistics(alarms, UpdatedAlarmRows(input, res), UpdatedShelvedRows(input, res),
                            m_alarmListLastChanged, m_shelfListLastChanged)
        /\ Publish(fails)
        /\ \E lost \in BOOLEAN :
              /\ lost => SendMayFail(res, fails)
              /\ Reply(IF fails \/ lost THEN "OperationFailed" ELSE "Ok", 0)
              /\ notification' = IF SendsNotification(res, fails) /\ ~lost
                                   THEN StatusChangeNotification(input.key, row.leaves)
                                   ELSE None
        /\ UNCHANGED <<control, datastore>>
-----------------------------------------------------------------------------
(* Daemon::purgeAlarms(), for purge-alarms and purge-shelved-alarms *)

OnList(shelved) == IF shelved THEN Shelved(m_alarms) ELSE Unshelved(m_alarms)

Purged(shelved, filter) ==
    {k \in OnList(shelved) : PurgeFilter(filter, m_alarms[k], Now)}

PurgeNothing(shelved, filter) ==
    /\ Purged(shelved, filter) = {}
    /\ Reply("Ok", 0)
    /\ notification' = None
    /\ UNCHANGED <<control, cache, validator, datastore, oper, clock>>

Purge(shelved, filter, fails) ==
    LET purged == Purged(shelved, filter)
        alarms == Without(m_alarms, purged)
    IN  /\ purged # {}
        /\ WithinTime /\ Advance
        /\ m_alarms' = alarms
        /\ updateStatistics(alarms,
               IF shelved THEN m_edit.alarm ELSE Without(m_edit.alarm, purged),
               IF shelved THEN Without(m_edit.shelvedAlarm, purged) ELSE m_edit.shelvedAlarm,
               IF shelved THEN m_alarmListLastChanged ELSE Now,
               IF shelved THEN Now ELSE m_shelfListLastChanged)
        /\ Publish(fails)
        /\ IF fails THEN Reply("OperationFailed", 0) ELSE Reply("Ok", Cardinality(purged))
        /\ notification' = None
        /\ UNCHANGED <<control, validator, datastore>>
-----------------------------------------------------------------------------
(* Daemon::compressAlarms() and Daemon::shrinkStatusChangesLists(): the    *)
(* histories of some alarms are shortened, in the cache and in the edit.   *)

ShrunkAlarms(alarms, keys, max) ==
    [k \in DOMAIN alarms |->
        IF k \in keys
          THEN [alarms[k] EXCEPT !.statusChanges = Shrunk(alarms[k].statusChanges, max)]
          ELSE alarms[k]]

UnlinkedRows(rows, alarms, keys, max) ==
    [k \in DOMAIN rows |->
        IF k \in keys
          THEN [rows[k] EXCEPT !.leaves.statusChange =
                    Unlink(rows[k].leaves.statusChange, Discarded(alarms[k].statusChanges, max))]
          ELSE rows[k]]

EditWith(alarmRows, shelvedRows) ==
    [alarm |-> alarmRows, shelvedAlarm |-> shelvedRows, stats |-> m_edit.stats]

(* The keys whose histories are over the limit.                            *)
Overlong(alarms, keys, max) == {k \in keys : toErase(alarms[k].statusChanges, max) > 0}

Compressed(shelved, filter) ==
    Overlong(m_alarms, {k \in OnList(shelved) : CompressFilter(filter, k)}, 1)

CompressNothing(shelved, filter) ==
    /\ Compressed(shelved, filter) = {}
    /\ Reply("Ok", 0)
    /\ notification' = None
    /\ UNCHANGED <<control, cache, validator, datastore, oper, clock>>

Compress(shelved, filter, fails) ==
    LET compressed == Compressed(shelved, filter)
    IN  /\ compressed # {}
        /\ m_alarms' = ShrunkAlarms(m_alarms, compressed, 1)
        /\ m_edit' = EditWith(
               UnlinkedRows(m_edit.alarm, m_alarms, compressed \cap Unshelved(m_alarms), 1),
               UnlinkedRows(m_edit.shelvedAlarm, m_alarms, compressed \cap Shelved(m_alarms), 1))
        /\ Publish(fails)
        /\ IF fails THEN Reply("OperationFailed", 0) ELSE Reply("Ok", Cardinality(compressed))
        /\ notification' = None
        /\ UNCHANGED <<control, m_alarmListLastChanged, m_shelfListLastChanged, validator,
                       datastore, clock>>
-----------------------------------------------------------------------------
(* The control subscription *)

(* The order in which Session::getChanges() yields the nodes: that of the  *)
(* schema, where alarm-shelving is the last child of control.  Faulty      *)
(* variants: alarm-shelving comes earlier.                                 *)
ShelvingThird == <<"max-alarm-status-changes", "notify-status-changes",
                   "alarm-shelving", "notify-severity-level">>
ShelvingFirst == <<"alarm-shelving", "max-alarm-status-changes",
                   "notify-status-changes", "notify-severity-level">>

DocumentOrder == <<"max-alarm-status-changes", "notify-status-changes",
                   "notify-severity-level", "alarm-shelving">>

Position(node) == CHOOSE i \in DOMAIN DocumentOrder : DocumentOrder[i] = node

(* A "done" event: the nodes an edit changed, with their new values.  A    *)
(* deleted notify-severity-level has the value None; reshelve() reads the  *)
(* shelves from the datastore and not from the event.                      *)
ConfigValue(c, node) ==
    CASE node = "max-alarm-status-changes" -> c.maxAlarmStatusChanges
      [] node = "notify-status-changes"    -> c.notifyStatusChanges
      [] node = "notify-severity-level"    -> c.notifySeverityLevel
      [] node = "alarm-shelving"           -> c.shelves

ControlNodes == {DocumentOrder[i] : i \in DOMAIN DocumentOrder}

ChangesBetween(old, new) ==
    [node \in {n \in ControlNodes : ConfigValue(old, n) # ConfigValue(new, n)} |->
        ConfigValue(new, node)]

(* The nodes the loop gets to: it stops at the first one below             *)
(* alarm-shelving.                                                         *)
Visited(changes) ==
    {n \in DOMAIN changes :
        "alarm-shelving" \in DOMAIN changes => Position(n) <= Position("alarm-shelving")}

NewValue(changes, node, old) == IF node \in Visited(changes) THEN changes[node] ELSE old

(* reshelve(): every alarm goes where the current shelves put it.  A row   *)
(* that moves keeps its leaves and gets the leaf of its new list.          *)
(* Faulty variant of Moved: moves between two shelves go unnoticed.        *)
MovedAcross(rules) ==
    {k \in DOMAIN m_alarms : (m_alarms[k].shelf = None) # (findMatchingShelf(k, rules) = None)}

Moved(rules) == {k \in DOMAIN m_alarms : m_alarms[k].shelf # findMatchingShelf(k, rules)}
Unshelves(rules) == {k \in Moved(rules) : findMatchingShelf(k, rules) = None}
Shelves(rules) == {k \in Moved(rules) : m_alarms[k].shelf = None}

ReshelvedAlarms(rules) ==
    [k \in DOMAIN m_alarms |->
        IF k \in Moved(rules) THEN [m_alarms[k] EXCEPT !.shelf = findMatchingShelf(k, rules)]
                              ELSE m_alarms[k]]

(* Faulty variant: the row of a shelved alarm is not unlinked.             *)
AlarmRowsKept(rules) ==
    [k \in DOMAIN m_edit.alarm \cup Unshelves(rules) |->
        IF k \in Unshelves(rules)
          THEN [leaves |-> m_edit.shelvedAlarm[k].leaves, timeCreated |-> Now]
          ELSE m_edit.alarm[k]]

ReshelvedAlarmRows(rules) ==
    [k \in (DOMAIN m_edit.alarm \ Shelves(rules)) \cup Unshelves(rules) |->
        IF k \in Unshelves(rules)
          THEN [leaves |-> m_edit.shelvedAlarm[k].leaves, timeCreated |-> Now]
          ELSE m_edit.alarm[k]]

(* Faulty variants: shelf-name keeps its old value when an alarm moves     *)
(* between shelves; a newly shelved alarm gets no row.                     *)
ShelfNamesKept(rules) ==
    [k \in (DOMAIN m_edit.shelvedAlarm \ Unshelves(rules)) \cup Shelves(rules) |->
        IF k \in Shelves(rules)
          THEN [leaves |-> m_edit.alarm[k].leaves, shelfName |-> findMatchingShelf(k, rules)]
          ELSE m_edit.shelvedAlarm[k]]

NoNewShelvedRows(rules) ==
    [k \in DOMAIN m_edit.shelvedAlarm \ Unshelves(rules) |->
        [m_edit.shelvedAlarm[k] EXCEPT !.shelfName = findMatchingShelf(k, rules)]]

ReshelvedShelvedRows(rules) ==
    [k \in (DOMAIN m_edit.shelvedAlarm \ Unshelves(rules)) \cup Shelves(rules) |->
        IF k \in Moved(rules)
          THEN [leaves    |-> IF k \in Shelves(rules) THEN m_edit.alarm[k].leaves
                                                      ELSE m_edit.shelvedAlarm[k].leaves,
                shelfName |-> findMatchingShelf(k, rules)]
          ELSE m_edit.shelvedAlarm[k]]

ControlSettings(changes, rules) ==
    /\ m_maxAlarmStatusChanges' =
           NewValue(changes, "max-alarm-status-changes", m_maxAlarmStatusChanges)
    /\ m_notifyStatusChanges' =
           NewValue(changes, "notify-status-changes", m_notifyStatusChanges)
    /\ m_notifySeverityThreshold' =
           NewValue(changes, "notify-severity-level", m_notifySeverityThreshold)
    /\ m_shelvingRules' = rules

(* Faulty variant: going from "infinite" to a number is no shrinking.      *)
LimitDecreases(changes) ==
    LET max == NewValue(changes, "max-alarm-status-changes", m_maxAlarmStatusChanges)
    IN  /\ "max-alarm-status-changes" \in Visited(changes)
        /\ max # None /\ m_maxAlarmStatusChanges # None
        /\ max < m_maxAlarmStatusChanges

LimitShrinks(changes) ==
    LET max == NewValue(changes, "max-alarm-status-changes", m_maxAlarmStatusChanges)
    IN  /\ "max-alarm-status-changes" \in Visited(changes)
        /\ max # None
        /\ m_maxAlarmStatusChanges = None \/ max < m_maxAlarmStatusChanges

DeliverControl == controlEvents # <<>> /\ controlEvents' = Tail(controlEvents)

(* The callback: it takes over the settings, then calls reshelve() and     *)
(* shrinkStatusChangesLists() as needed, and publishes if either changed   *)
(* the edit.                                                               *)
ControlChanged(fails) ==
    LET changes     == Head(controlEvents)
        reshelves   == "alarm-shelving" \in DOMAIN changes
        rules       == IF reshelves THEN running.shelves ELSE m_shelvingRules
        moved       == reshelves /\ Moved(rules) # {}
        crossed     == moved /\ Unshelves(rules) \cup Shelves(rules) # {}
        alarms      == IF moved THEN ReshelvedAlarms(rules) ELSE m_alarms
        alarmRows   == IF moved THEN ReshelvedAlarmRows(rules) ELSE m_edit.alarm
        shelvedRows == IF moved THEN ReshelvedShelvedRows(rules) ELSE m_edit.shelvedAlarm
        max         == m_maxAlarmStatusChanges'
        overlong    == IF LimitShrinks(changes) THEN Overlong(alarms, DOMAIN alarms, max)
                                                ELSE {}
        newAlarmRows   == UnlinkedRows(alarmRows, alarms, overlong \cap Unshelved(alarms), max)
        newShelvedRows == UnlinkedRows(shelvedRows, alarms, overlong \cap Shelved(alarms), max)
    IN  /\ DeliverControl
        /\ ControlSettings(changes, rules)
        /\ m_alarms' = ShrunkAlarms(alarms, overlong, max)
        /\ IF moved
             THEN /\ Advance
                  /\ updateStatistics(alarms, newAlarmRows, newShelvedRows,
                                      IF crossed THEN Now ELSE m_alarmListLastChanged, Now)
             ELSE /\ m_edit' = EditWith(newAlarmRows, newShelvedRows)
                  /\ UNCHANGED <<m_alarmListLastChanged, m_shelfListLastChanged, clock>>
        /\ IF moved \/ overlong # {} THEN Publish(fails) ELSE ~fails /\ UNCHANGED oper
        /\ reply' = None
        /\ notification' = None
        /\ UNCHANGED <<validator, running, inventory, inventoryEvents>>

(* Another process commits an edit of the control container.               *)
EditControl(c) ==
    /\ c # running
    /\ WithinTime /\ Len(controlEvents) < MaxPending
    /\ running' = c
    /\ controlEvents' = Append(controlEvents, ChangesBetween(running, c))
    /\ reply' = None
    /\ notification' = None
    /\ UNCHANGED <<control, cache, validator, oper, inventory, inventoryEvents, clock>>
-----------------------------------------------------------------------------
(* The inventory subscription *)

EditInventory(i) ==
    /\ i # inventory
    /\ inventoryEvents < MaxPending
    /\ inventory' = i
    /\ inventoryEvents' = inventoryEvents + 1
    /\ reply' = None
    /\ notification' = None
    /\ UNCHANGED <<control, cache, validator, oper, running, controlEvents, clock>>

InventoryChanged ==
    /\ inventoryEvents > 0
    /\ inventoryEvents' = inventoryEvents - 1
    /\ m_inventoryDirty' = TRUE
    /\ reply' = None
    /\ \E lost \in BOOLEAN :
          /\ lost => ApplyMayFail
          /\ notification' = IF lost THEN None ELSE [kind |-> "alarm-inventory-changed"]
    /\ UNCHANGED <<control, cache, m_inventory, oper, running, inventory, controlEvents, clock>>
-----------------------------------------------------------------------------
(* The daemon as its constructor leaves it: the lists are empty, their     *)
(* statistics are published, and the control callback has run once with    *)
(* every node of the running configuration.                                *)
NoRows == [k \in {} |-> None]

Init ==
    /\ running \in Configs
    /\ inventory \in Inventories
    /\ m_notifyStatusChanges = running.notifyStatusChanges
    /\ m_notifySeverityThreshold = running.notifySeverityLevel
    /\ m_maxAlarmStatusChanges = running.maxAlarmStatusChanges
    /\ m_shelvingRules = running.shelves
    /\ m_inventoryDirty = TRUE
    /\ m_inventory = NoRows
    /\ m_alarms = NoRows
    /\ m_alarmListLastChanged = 0
    /\ m_shelfListLastChanged = 0
    /\ m_edit = [alarm |-> NoRows, shelvedAlarm |-> NoRows, stats |-> Statistics(NoRows, 0, 0)]
    /\ oper = m_edit
    /\ controlEvents = <<>>
    /\ inventoryEvents = 0
    /\ reply = None
    /\ notification = None
    /\ clock = 0

submitAlarm ==
    \/ RefuseClient
    \/ \E input \in Submissions :
         \/ SubmitBadKey(input)
         \/ SubmitReadFails(input)
         \/ SubmitNotInInventory(input)
         \/ SubmitRedundantClear(input)
         \/ SubmitUnchanged(input)
         \/ \E fails \in BOOLEAN : SubmitChanged(input, fails)

purgeAlarms ==
    \E shelved \in BOOLEAN, filter \in PurgeInputs :
        \/ PurgeNothing(shelved, filter)
        \/ \E fails \in BOOLEAN : Purge(shelved, filter, fails)

compressAlarms ==
    \E shelved \in BOOLEAN, filter \in CompressInputs :
        \/ CompressNothing(shelved, filter)
        \/ \E fails \in BOOLEAN : Compress(shelved, filter, fails)

controlCallback == \E fails \in BOOLEAN : ControlChanged(fails)

Environment ==
    \/ \E c \in Configs : EditControl(c)
    \/ \E i \in Inventories : EditInventory(i)

Next == \/ submitAlarm \/ purgeAlarms \/ compressAlarms
        \/ controlCallback \/ InventoryChanged \/ Environment

Spec == Init /\ [][Next]_vars

(* The thread of the subscription delivers the events of edits of control. *)
FairSpec == Spec /\ WF_controlEvents(DeliverControl)
-----------------------------------------------------------------------------
(* Type correctness.  A member of an optional type is None when the        *)
(* std::optional is empty.                                                 *)
CodeType == {"Ok", "OperationFailed", "InvalidArgument"}

ASSUME ReplyAssumption == None \notin [code : CodeType, count : Nat]

AlarmsType(alarms) ==
    /\ DOMAIN alarms \subseteq InstanceKey
    /\ \A k \in DOMAIN alarms : alarms[k] \in AlarmEntryType

RowsType(alarmRows, shelvedRows) ==
    /\ DOMAIN alarmRows \subseteq InstanceKey
    /\ \A k \in DOMAIN alarmRows : alarmRows[k] \in AlarmRow
    /\ DOMAIN shelvedRows \subseteq InstanceKey
    /\ \A k \in DOMAIN shelvedRows : shelvedRows[k] \in ShelvedRow

EventType == {ChangesBetween(old, new) : old, new \in Configs}

ControlType ==
    /\ m_notifyStatusChanges \in NotifyStatusChanges
    /\ m_notifySeverityThreshold \in Severities \cup {None}
    /\ m_maxAlarmStatusChanges \in Nat \cup {None}
    /\ m_shelvingRules \in {c.shelves : c \in Configs}

CacheType ==
    /\ AlarmsType(m_alarms)
    /\ m_alarmListLastChanged \in Time /\ m_shelfListLastChanged \in Time
    /\ RowsType(m_edit.alarm, m_edit.shelvedAlarm)
    /\ clock \in Time

DatastoreType ==
    /\ m_inventoryDirty \in BOOLEAN
    /\ m_inventory \in Inventories \cup {NoRows}
    /\ running \in Configs /\ inventory \in Inventories
    /\ controlEvents \in Seq(EventType) /\ inventoryEvents \in Nat
    /\ RowsType(oper.alarm, oper.shelvedAlarm)

ReplyType == reply = None \/ reply \in [code : CodeType, count : Nat]

(* The members of the daemon and the contents of the datastores have the   *)
(* types of Daemon.h, AlarmEntry.h and the YANG model: in particular every *)
(* severity stored is a real one, never -1 or "cleared" (Daemon.cpp:263),  *)
(* and every published row is complete.                                    *)
TypeOK == ControlType /\ CacheType /\ DatastoreType /\ ReplyType
-----------------------------------------------------------------------------
(* Configuration and cache *)

(* submitAlarm() picks the list to write to from the shelving rules but    *)
(* the leaves from the entry's own shelf (Daemon.cpp:434-449): the two     *)
(* must agree for every cached alarm, whatever edits of the configuration  *)
(* came between.                                                           *)
ShelfMatchesRules == \A k \in DOMAIN m_alarms : m_alarms[k].shelf = ShelfFor(k)

PendingChange(node) == \E i \in DOMAIN controlEvents : node \in DOMAIN controlEvents[i]

(* The callback's loop stops at the first change below alarm-shelving      *)
(* (Daemon.cpp:122), and its events arrive late and with old values: still *)
(* each cached setting is that of the running datastore unless an event    *)
(* that changes it is on its way.                                          *)
SettingsFollowRunning ==
    /\ ~ PendingChange("max-alarm-status-changes") =>
           m_maxAlarmStatusChanges = running.maxAlarmStatusChanges
    /\ ~ PendingChange("notify-status-changes") =>
           m_notifyStatusChanges = running.notifyStatusChanges
    /\ ~ PendingChange("notify-severity-level") =>
           m_notifySeverityThreshold = running.notifySeverityLevel

(* updateByRpc() dereferences the threshold without a check when the mode  *)
(* is BySeverity (Daemon.cpp:292): it has a value whenever that happens,   *)
(* although mode and threshold are two changes of one event.               *)
ThresholdPresent ==
    m_notifyStatusChanges = "BySeverity" => m_notifySeverityThreshold # None

(* What the YANG model demands of shelving: unless a shelving change is    *)
(* still to be handled, every alarm is published in the list, and with the *)
(* shelf name, that the running configuration gives it.  (Holds when no    *)
(* publication fails.)                                                     *)
ShelvingPublished ==
    ~ PendingChange("alarm-shelving") =>
        /\ DOMAIN oper.alarm =
               {k \in DOMAIN m_alarms : findMatchingShelf(k, running.shelves) = None}
        /\ DOMAIN oper.shelvedAlarm = DOMAIN m_alarms \ DOMAIN oper.alarm
        /\ \A k \in DOMAIN oper.shelvedAlarm :
               oper.shelvedAlarm[k].shelfName = findMatchingShelf(k, running.shelves)

(* Unless control is edited forever, its last edit takes effect for good,  *)
(* however many RPCs and events come before: the settings become those of  *)
(* the edit, and every published alarm is on the list, under the shelf and *)
(* with no longer a history than they say.  (Holds when no publication     *)
(* fails.)                                                                 *)
InEffect(c) ==
    /\ m_maxAlarmStatusChanges = c.maxAlarmStatusChanges
    /\ m_notifyStatusChanges = c.notifyStatusChanges
    /\ m_notifySeverityThreshold = c.notifySeverityLevel
    /\ \A k \in DOMAIN oper.alarm : findMatchingShelf(k, c.shelves) = None
    /\ \A k \in DOMAIN oper.shelvedAlarm :
           oper.shelvedAlarm[k].shelfName = findMatchingShelf(k, c.shelves)
    /\ c.maxAlarmStatusChanges # None =>
           \A rows \in {oper.alarm, oper.shelvedAlarm} : \A k \in DOMAIN rows :
              Len(rows[k].leaves.statusChange) <= c.maxAlarmStatusChanges

EditsTakeEffect == []<><<running' # running>>_vars \/ <>[]InEffect(running)

(* All that the last edit needs is that the events are handled: when none  *)
(* is left, the running configuration is in effect, whatever the callbacks *)
(* skipped, moved, shrank or found done already on the way (Daemon.cpp:    *)
(* 113-179).  (Holds when no publication fails.)                           *)
SettledIsInEffect == controlEvents = <<>> => InEffect(running)

(* rebuildInventory() runs lazily: a cached inventory that is not marked   *)
(* dirty is the one in the datastore, unless the event that will mark it   *)
(* is still on its way (Daemon.cpp:190,412).                               *)
InventoryFresh == ~m_inventoryDirty /\ inventoryEvents = 0 => m_inventory = inventory
(* Unless an event about the inventory is on its way, no raise is accepted *)
(* that the inventory in the datastore does not allow.  (The rows of the   *)
(* alarm list only: the run has no shelves.)                               *)
InventoryRespected ==
    [][inventoryEvents = 0 =>
        \A k \in DOMAIN oper'.alarm :
            LET leaves == oper'.alarm[k].leaves IN
            leaves.lastChanged > clock /\ ~leaves.isCleared =>
                /\ k.type \in DOMAIN inventory
                /\ \/ inventory[k.type].resources = {}
                   \/ k.resource \in inventory[k.type].resources
                /\ \/ inventory[k.type].severities = {}
                   \/ leaves.perceivedSeverity \in inventory[k.type].severities]_vars
-----------------------------------------------------------------------------
(* The edit tree *)

(* The listed history, newest first, against the cached one, oldest first. *)
MirrorsHistory(listed, cached) ==
    /\ Len(listed) = Len(cached)
    /\ \A i \in DOMAIN listed :
          LET c == cached[Len(cached) + 1 - i] IN
          /\ listed[i].time = c.time
          /\ listed[i].text = c.text
          /\ listed[i].severity \in {c.perceivedSeverity, ClearedSeverity}

MirrorsEntry(leaves, entry) ==
    /\ leaves.isCleared = entry.isCleared
    /\ leaves.lastRaised = entry.lastRaised
    /\ leaves.lastChanged = entry.lastChanged
    /\ leaves.perceivedSeverity = entry.lastSeverity
    /\ leaves.alarmText = entry.text
    /\ MirrorsHistory(leaves.statusChange, entry.statusChanges)

MirrorsAlarms(alarmRows, shelvedRows, alarms) ==
    /\ DOMAIN alarmRows = Unshelved(alarms)
    /\ DOMAIN shelvedRows = Shelved(alarms)
    /\ \A k \in Unshelved(alarms) : MirrorsEntry(alarmRows[k].leaves, alarms[k])
    /\ \A k \in Shelved(alarms) : /\ MirrorsEntry(shelvedRows[k].leaves, alarms[k])
                                  /\ shelvedRows[k].shelfName = alarms[k].shelf

(* purge, compress, reshelve and shrink look nodes up in m_edit and use    *)
(* them without a check (Daemon.cpp:367,386,510,551,615,624): that is safe *)
(* because m_edit has exactly the rows and the status changes that         *)
(* m_alarms has, each row in the list that the entry's shelf says.         *)
EditMirrorsCache == MirrorsAlarms(m_edit.alarm, m_edit.shelvedAlarm, m_alarms)

(* No history is longer than the limit in force, whether the limit, the    *)
(* history or the list that holds the alarm changed last.                  *)
HistoryBounded ==
    m_maxAlarmStatusChanges # None =>
        \A k \in DOMAIN m_alarms : Len(m_alarms[k].statusChanges) <= m_maxAlarmStatusChanges

PublishedLeaves == {oper.alarm[k].leaves : k \in DOMAIN oper.alarm}
                   \cup {oper.shelvedAlarm[k].leaves : k \in DOMAIN oper.shelvedAlarm}

(* The status change that the leaves of a row amount to.                   *)
Newest(leaves) ==
    [time     |-> leaves.lastChanged,
     severity |-> IF leaves.isCleared THEN ClearedSeverity ELSE leaves.perceivedSeverity,
     text     |-> leaves.alarmText]

(* The earlier clears that a listed history shows, and the instant of the  *)
(* change that followed the last of them.                                  *)
Clears(list) == {i \in 2..Len(list) : list[i].severity = ClearedSeverity}

RaiseTime(list) ==
    LET last == CHOOSE i \in Clears(list) : \A j \in Clears(list) : i <= j
    IN  list[last - 1].time

(* The YANG model's demands on status-change, quoted in                    *)
(* updateStatusChangeList(): the list is ordered newest first and its      *)
(* first entry is the state the row's leaves show.                         *)
LatestChangeFirst ==
    \A leaves \in PublishedLeaves :
        LET list == leaves.statusChange IN
        /\ \A i, j \in DOMAIN list : i < j => list[i].time > list[j].time
        /\ list # <<>> => list[1] = Newest(leaves)

(* last-raised is the instant of the oldest change after the previous      *)
(* clear, so far as the history still reaches back to that; otherwise it   *)
(* is no later than anything listed.                                       *)
LastRaisedFollowsHistory ==
    \A leaves \in PublishedLeaves :
        LET list == leaves.statusChange IN
        IF Clears(list) # {} THEN leaves.lastRaised = RaiseTime(list)
                             ELSE \A i \in DOMAIN list : leaves.lastRaised <= list[i].time

(* The published counters and stamps against the published rows: no        *)
(* handler that moves, adds or removes a row forgets updateStatistics().   *)
StatisticsMatchRows ==
    LET rows == oper.alarm
        Count(P(_)) == Cardinality({k \in DOMAIN rows : P(rows[k].leaves)})
    IN  /\ oper.stats.numberOfAlarms = Cardinality(DOMAIN rows)
        /\ oper.stats.numberOfShelvedAlarms = Cardinality(DOMAIN oper.shelvedAlarm)
        /\ \A s \in Severities :
              oper.stats.summary[s] =
                [total      |-> Count(LAMBDA l : l.perceivedSeverity = s),
                 cleared    |-> Count(LAMBDA l : l.perceivedSeverity = s /\ l.isCleared),
                 notCleared |-> Count(LAMBDA l : l.perceivedSeverity = s /\ ~l.isCleared)]
        /\ \A k \in DOMAIN rows : rows[k].leaves.lastChanged <= oper.stats.lastChanged
        /\ \A k \in DOMAIN oper.shelvedAlarm :
              oper.shelvedAlarm[k].leaves.lastChanged <= oper.stats.shelvedAlarmsLastChanged

(* Every handler that changed the edit published it before it answered.    *)
(* (Holds when no publication fails.)                                      *)
EditPublished == oper = m_edit
-----------------------------------------------------------------------------
(* What a step may do *)

IsAlarmNotification(n) == n # None /\ n.kind = "alarm-notification"

(* What an observer of alarm-list sees of one row, the history aside.      *)
Visible(row) == [row EXCEPT !.leaves.statusChange = <<>>]
VisibleRows(rows) == [k \in DOMAIN rows |-> Visible(rows[k])]

(* A client that polls only last-changed and shelved-alarms-last-changed   *)
(* misses no row that appeared, went, moved or changed: the stamp of the   *)
(* list moves forward in the step that publishes the change.               *)
StampsCoverChanges ==
    [][/\ VisibleRows(oper'.alarm) # VisibleRows(oper.alarm) =>
             oper'.stats.lastChanged > oper.stats.lastChanged
       /\ VisibleRows(oper'.shelvedAlarm) # VisibleRows(oper.shelvedAlarm) =>
             oper'.stats.shelvedAlarmsLastChanged > oper.stats.shelvedAlarmsLastChanged]_vars

(* The rule of notify-status-changes in the YANG model, for a row of the   *)
(* alarm list whose state changed from old, or that is new, to new.        *)
NotificationWanted(isNew, old, new) ==
    \/ new.isCleared
    \/ m_notifyStatusChanges = "All"
    \/ m_notifyStatusChanges = "RaiseAndClear" /\ (isNew \/ old.isCleared)
    \/ /\ m_notifyStatusChanges = "BySeverity"
       /\ \/ new.perceivedSeverity >= m_notifySeverityThreshold
          \/ ~isNew /\ old.perceivedSeverity >= m_notifySeverityThreshold

StatusChanged(k) == oper'.alarm[k].leaves.lastChanged > clock

(* Of every change of the state of an unshelved alarm the clients are      *)
(* notified exactly when the configured mode says so, and the notification *)
(* carries the state that the row now shows (Daemon.cpp:276-297,463).      *)
NotificationPolicy ==
    [][\A k \in DOMAIN oper'.alarm : StatusChanged(k) =>
          LET isNew == k \notin DOMAIN oper.alarm
              new   == oper'.alarm[k].leaves
          IN  notification' = IF NotificationWanted(isNew, oper.alarm[k].leaves, new)
                                THEN StatusChangeNotification(k, new)
                                ELSE None]_vars

(* Even when publications fail, a notification only ever reports what the  *)
(* operational datastore shows (Daemon.cpp:461-466).                       *)
NotifiedIsPublished ==
    [][IsAlarmNotification(notification') =>
          LET k == notification'.key IN
          \/ /\ k \in DOMAIN oper'.alarm
             /\ notification' = StatusChangeNotification(k, oper'.alarm[k].leaves)
          \/ /\ k \in DOMAIN oper'.shelvedAlarm
             /\ notification' = StatusChangeNotification(k, oper'.shelvedAlarm[k].leaves)]_vars

(* The next publication that succeeds brings all that failed ones did not: *)
(* whenever the published data change, and whenever a call that changed an *)
(* alarm is answered Ok, both published lists are those of the whole cache *)
(* and not only of the alarms of that call (Daemon.cpp:456-459,508-513).   *)
PublicationCatchesUp ==
    [][\/ oper' # oper
       \/ m_alarms' # m_alarms /\ reply' # None /\ reply'.code = "Ok"
       => MirrorsAlarms(oper'.alarm, oper'.shelvedAlarm, m_alarms')]_vars

(* What a client sees of both lists: module AlarmList says how that may    *)
(* change.  In particular no alarm leaves the lists but through a purge    *)
(* that counts it, none is on both lists or on neither while it moves, and *)
(* severity and last-raised survive clears and moves.  (Holds when no      *)
(* publication fails.)                                                     *)
Listed(o) == DOMAIN o.alarm \cup DOMAIN o.shelvedAlarm

Shown(leaves) ==
    [severity |-> leaves.perceivedSeverity, cleared |-> leaves.isCleared,
     text     |-> leaves.alarmText,         raised  |-> leaves.lastRaised,
     changed  |-> leaves.lastChanged]

Seen(o) ==
    [k \in Listed(o) |->
        IF k \in DOMAIN o.alarm
          THEN [shelf |-> None, state |-> Shown(o.alarm[k].leaves)]
          ELSE [shelf |-> o.shelvedAlarm[k].shelfName, state |-> Shown(o.shelvedAlarm[k].leaves)]]

AnswerSeen == IF reply = None THEN 0 ELSE reply.count

Published == INSTANCE AlarmList WITH list <- Seen(oper), answer <- AnswerSeen

PublishedListSpec == Published!Spec

(* In particular the rows of both lists together tell one story            *)
(* (Daemon.cpp:287-299,397,441-449).  (Holds when no publication fails.)   *)
PublishedTimesTell == Published!TimesTell
-----------------------------------------------------------------------------
(* What documents say and the code does not do *)

(* "The server does not send any notifications for shelved alarms."        *)
(* (description of alarm-shelving in the YANG model)                       *)
ShelvedAlarmsAreSilent ==
    [][IsAlarmNotification(notification') =>
          notification'.key \notin DOMAIN oper'.shelvedAlarm]_vars

(* "Further state changes of the same alarm do not change this leaf"       *)
(* (description of time-created in the YANG model)                         *)
TimeCreatedIsStable ==
    [][\A k \in DOMAIN oper.alarm \cap DOMAIN oper'.alarm :
          oper'.alarm[k].timeCreated = oper.alarm[k].timeCreated]_vars

(* "min-elements 1" of status-change in the YANG model: no row is          *)
(* published without a status change.                                      *)
HistoryNeverEmpty == \A leaves \in PublishedLeaves : leaves.statusChange # <<>>

(* "Entries appear in the alarm list the first time an alarm becomes       *)
(* active" (description of the alarm list in the YANG model): when the     *)
(* daemon answers Ok to a repeated raise, the alarm is published.          *)
AcknowledgedIsPublished ==
    [][\A input \in Submissions : SubmitUnchanged(input) => input.key \in Listed(oper)]_vars
=============================================================================
