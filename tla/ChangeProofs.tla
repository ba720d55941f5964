---------------------------- MODULE ChangeProofs -----------------------------
(***************************************************************************)
(* What a step may do to the published rows: only a submission changes the *)
(* state of an alarm, it obeys the inventory and the notification mode,    *)
(* and every visible change moves the stamp of its list.                   *)
(***************************************************************************)
EXTENDS PublicationProofs

(* The step changed the state of an alarm, so it is a submission of it.    *)
LEMMA ChangedBySubmit ==
    ASSUME IInv, Ordered, [Next]_vars,
           NEW key \in DOMAIN m_alarms', m_alarms'[key].lastChanged > clock
    PROVE  \E input \in Submissions, fails \in BOOLEAN :
              SubmitChanged(input, fails) /\ key = input.key
  <1> DEFINE Submitted == \E input \in Submissions, fails \in BOOLEAN :
                             SubmitChanged(input, fails) /\ key = input.key
             Old == key \in DOMAIN m_alarms
                      => m_alarms'[key].lastChanged = m_alarms[key].lastChanged
  <1>1. \A k \in DOMAIN m_alarms : /\ m_alarms[k].lastChanged \in Nat
                                   /\ m_alarms[k].lastChanged <= clock
                                   /\ m_alarms[k] \in AlarmEntryType
        /\ clock \in Nat
    BY DEF IInv, TypeOK, CacheType, AlarmsType, AlarmEntryType, Time, Ordered,
           HistoriesOrdered, HistoryOrdered
  <1>2. ~(key \in DOMAIN m_alarms /\ m_alarms'[key].lastChanged = m_alarms[key].lastChanged)
    BY <1>1
  <1>3. m_alarms' # m_alarms
    BY <1>2
  <1>4. ASSUME NEW input \in Submissions, SubmitUnchanged(input) PROVE FALSE
    <2>1. input.key \in DOMAIN m_alarms /\ WhatChanged(input).entry = m_alarms[input.key]
      BY <1>4, WhatChangedFacts DEF SubmitUnchanged
    <2> QED
      BY <1>2, <1>4, <2>1 DEF SubmitUnchanged, Put
  <1>5. ASSUME NEW input \in Submissions, NEW fails \in BOOLEAN, SubmitChanged(input, fails)
        PROVE  Submitted
    <2>1. m_alarms' = Put(m_alarms, input.key, WhatChanged(input).entry)
      BY <1>5 DEF SubmitChanged
    <2>2. key = input.key
      BY <1>2, <2>1 DEF Put
    <2> QED
      BY <1>5, <2>2
  <1>6. ASSUME NEW shelved \in BOOLEAN, NEW filter \in PurgeInputs, NEW fails \in BOOLEAN,
               Purge(shelved, filter, fails)
        PROVE  FALSE
    BY <1>2, <1>6 DEF Purge, Without
  <1>7. ASSUME NEW alarms, NEW keys, NEW max, m_alarms' = ShrunkAlarms(alarms, keys, max),
               DOMAIN alarms = DOMAIN m_alarms,
               \A k \in DOMAIN m_alarms : alarms[k].lastChanged = m_alarms[k].lastChanged
        PROVE  FALSE
    <2>1. DOMAIN m_alarms' = DOMAIN alarms /\ m_alarms'[key].lastChanged = alarms[key].lastChanged
      BY <1>7, ShrunkCounts DEF SameCounts
    <2> QED
      BY <1>2, <1>7, <2>1
  <1>8. ASSUME NEW shelved \in BOOLEAN, NEW filter \in CompressInputs, NEW fails \in BOOLEAN,
               Compress(shelved, filter, fails)
        PROVE  FALSE
    BY <1>7, <1>8 DEF Compress
  <1>9. ASSUME NEW fails \in BOOLEAN, ControlChanged(fails) PROVE FALSE
    <2> DEFINE changes   == Head(controlEvents)
               reshelves == "alarm-shelving" \in DOMAIN changes
               rules     == IF reshelves THEN running.shelves ELSE m_shelvingRules
               moved     == reshelves /\ Moved(rules) # {}
               alarms    == IF moved THEN ReshelvedAlarms(rules) ELSE m_alarms
               max       == m_maxAlarmStatusChanges'
               overlong  == IF LimitShrinks(changes)
                              THEN Overlong(alarms, DOMAIN alarms, max) ELSE {}
    <2>1. m_alarms' = ShrunkAlarms(alarms, overlong, max)
      BY <1>9 DEF ControlChanged
    <2>2. DOMAIN alarms = DOMAIN m_alarms
      BY DEF ReshelvedAlarms
    <2>3. ASSUME NEW k \in DOMAIN m_alarms PROVE alarms[k].lastChanged = m_alarms[k].lastChanged
      BY <1>1 DEF ReshelvedAlarms, AlarmEntryType
    <2> HIDE DEF alarms, overlong, max
    <2> QED
      BY <1>7, <2>1, <2>2, <2>3
  <1>10. CASE submitAlarm
    BY <1>3, <1>4, <1>5, <1>10 DEF submitAlarm, RefuseClient, SubmitBadKey, SubmitReadFails,
                                   SubmitNotInInventory, SubmitRedundantClear, cache
  <1>11. CASE purgeAlarms
    BY <1>3, <1>6, <1>11 DEF purgeAlarms, PurgeNothing, cache
  <1>12. CASE compressAlarms
    BY <1>3, <1>8, <1>12 DEF compressAlarms, CompressNothing, cache
  <1>13. CASE controlCallback
    BY <1>9, <1>13 DEF controlCallback
  <1>14. CASE InventoryChanged \/ Environment
    BY <1>3, <1>14 DEF InventoryChanged, Environment, EditControl, EditInventory, cache
  <1>15. CASE UNCHANGED vars
    BY <1>3, <1>15 DEF vars, cache
  <1> QED
    BY <1>10, <1>11, <1>12, <1>13, <1>14, <1>15 DEF Next

(* A row of the alarm list whose state is news was put there by a          *)
(* submission that is published.                                           *)
PastRows(rows) == \A k \in DOMAIN rows : rows[k].leaves.lastChanged <= clock

LEMMA EditPast == IInv /\ Ordered => PastRows(m_edit.alarm)
  BY DEF IInv, PastRows, Coherent, MirrorsAlarms, MirrorsEntry, Unshelved, Ordered,
         HistoriesOrdered, HistoryOrdered

LEMMA NewsBySubmit ==
    ASSUME IInv, Ordered, IInv', PastRows(oper.alarm), [Next]_vars,
           NEW k \in DOMAIN oper'.alarm, oper'.alarm[k].leaves.lastChanged > clock
    PROVE  /\ oper' = m_edit'
           /\ k \in Unshelved(m_alarms') /\ MirrorsEntry(oper'.alarm[k].leaves, m_alarms'[k])
           /\ \E input \in Submissions, fails \in BOOLEAN :
                 SubmitChanged(input, fails) /\ k = input.key
  <1>1. oper' = m_edit'
    <2>1. oper' = oper \/ oper' = m_edit'
      BY KeptOrReplaced
    <2>2. ASSUME oper' = oper PROVE FALSE
      <3>1. /\ oper.alarm[k].leaves.lastChanged <= clock /\ clock \in Nat
            /\ oper.alarm[k].leaves.lastChanged \in Nat
        BY <2>2 DEF PastRows, IInv, TypeOK, CacheType, DatastoreType, RowsType, AlarmRow,
                    Leaves, Time
      <3> QED
        BY <2>2, <3>1
    <2> QED
      BY <2>1, <2>2
  <1>2. Coherent(m_alarms', m_edit'.alarm, m_edit'.shelvedAlarm)
    BY DEF IInv
  <1>3. k \in Unshelved(m_alarms') /\ MirrorsEntry(oper'.alarm[k].leaves, m_alarms'[k])
    BY <1>1, <1>2 DEF Coherent, MirrorsAlarms
  <1>4. k \in DOMAIN m_alarms' /\ m_alarms'[k].lastChanged > clock
    BY <1>3 DEF Unshelved, MirrorsEntry
  <1>5. \E input \in Submissions, fails \in BOOLEAN :
           SubmitChanged(input, fails) /\ k = input.key
    BY <1>4, ChangedBySubmit
  <1> QED
    BY <1>1, <1>3, <1>5

LEMMA ClockAdvances == ASSUME clock \in Nat, [Next]_vars PROVE clock <= clock'
  <1> SUFFICES clock' = clock \/ clock' = Now
    BY DEF Now
  <1>1. CASE submitAlarm
    BY <1>1 DEF submitAlarm, RefuseClient, SubmitBadKey, SubmitReadFails, SubmitNotInInventory,
                SubmitRedundantClear, SubmitUnchanged, SubmitChanged, Advance
  <1>2. CASE purgeAlarms
    BY <1>2 DEF purgeAlarms, PurgeNothing, Purge, Advance
  <1>3. CASE compressAlarms
    BY <1>3 DEF compressAlarms, CompressNothing, Compress, Advance
  <1>4. CASE controlCallback
    BY <1>4 DEF controlCallback, ControlChanged, Advance
  <1>5. CASE InventoryChanged \/ Environment
    BY <1>5 DEF InventoryChanged, Environment, EditControl, EditInventory
  <1>6. CASE UNCHANGED vars
    BY <1>6 DEF vars
  <1> QED
    BY <1>1, <1>2, <1>3, <1>4, <1>5, <1>6 DEF Next

LEMMA PublishedPast == Spec => []PastRows(oper.alarm)
  <1>1. Init => PastRows(oper.alarm)
    BY DEF Init, NoRows, PastRows
  <1>2. IInv /\ IInv' /\ Ordered' /\ PastRows(oper.alarm) /\ [Next]_vars => PastRows(oper.alarm)'
    <2> SUFFICES ASSUME IInv, IInv', Ordered', PastRows(oper.alarm), [Next]_vars,
                        NEW k \in DOMAIN oper'.alarm
                 PROVE  oper'.alarm[k].leaves.lastChanged <= clock'
      BY DEF PastRows
    <2>1. CASE oper' = m_edit'
      <3>1. Coherent(m_alarms', m_edit'.alarm, m_edit'.shelvedAlarm)
        BY DEF IInv
      <3> QED
        BY <2>1, <3>1 DEF Coherent, MirrorsAlarms, MirrorsEntry, Unshelved, Ordered,
                          HistoriesOrdered, HistoryOrdered
    <2>2. CASE oper' = oper
      <3>1. /\ oper.alarm[k].leaves.lastChanged <= clock /\ clock \in Nat /\ clock' \in Nat
            /\ oper.alarm[k].leaves.lastChanged \in Nat
        BY <2>2 DEF PastRows, IInv, TypeOK, CacheType, DatastoreType, RowsType, AlarmRow,
                    Leaves, Time
      <3>2. clock <= clock'
        BY <3>1, ClockAdvances
      <3> QED
        BY <2>2, <3>1, <3>2
    <2> QED
      BY <2>1, <2>2, KeptOrReplaced
  <1> QED
    BY <1>1, <1>2, Invariance, PTL DEF Spec
-----------------------------------------------------------------------------
(* The inventory *)

(* Unless an event about the inventory is on its way, no raise appears on  *)
(* the alarm list that the inventory in the datastore does not allow       *)
(* (Daemon.cpp:412-417,648-675), also when publications fail.              *)
THEOREM InventoryIsRespected == Spec => InventoryRespected
  <1>1. ASSUME IInv, Ordered, IInv', InventoryFresh, PastRows(oper.alarm), [Next]_vars,
               inventoryEvents = 0, NEW k \in DOMAIN oper'.alarm,
               oper'.alarm[k].leaves.lastChanged > clock, ~oper'.alarm[k].leaves.isCleared
        PROVE  /\ k.type \in DOMAIN inventory
               /\ \/ inventory[k.type].resources = {}
                  \/ k.resource \in inventory[k.type].resources
               /\ \/ inventory[k.type].severities = {}
                  \/ oper'.alarm[k].leaves.perceivedSeverity \in inventory[k.type].severities
    <2>1. /\ k \in Unshelved(m_alarms') /\ MirrorsEntry(oper'.alarm[k].leaves, m_alarms'[k])
          /\ \E input \in Submissions, fails \in BOOLEAN :
                SubmitChanged(input, fails) /\ k = input.key
      BY <1>1, NewsBySubmit
    <2>2. PICK input \in Submissions, fails \in BOOLEAN :
             SubmitChanged(input, fails) /\ k = input.key
      BY <2>1
    <2>3. /\ m_alarms'[k] = WhatChanged(input).entry
          /\ ~inventoryValidationError(FreshInventory, k, input.severity)
      BY <2>2 DEF SubmitChanged, rebuildInventory, Put
    <2>4. FreshInventory = inventory
      BY <1>1 DEF FreshInventory, InventoryFresh, IInv, TypeOK, DatastoreType
    <2>5. /\ ~WhatChanged(input).entry.isCleared
          /\ oper'.alarm[k].leaves.perceivedSeverity = WhatChanged(input).entry.lastSeverity
      BY <1>1, <2>1, <2>3 DEF MirrorsEntry
    <2>6. /\ WhatChanged(input).entry.isCleared = (input.severity = ClearedSeverity)
          /\ input.severity > ClearedSeverity =>
                 WhatChanged(input).entry.lastSeverity = input.severity
      BY DEF WhatChanged, updateByRpc, StoredSeverity
    <2>7. input.severity # ClearedSeverity /\ input.severity > ClearedSeverity
      <3>1. input.severity # ClearedSeverity
        BY <2>5, <2>6
      <3>2. input.severity \in Severities
        BY <3>1, InputAssumption
      <3> QED
        BY <3>1, <3>2 DEF Severities, ClearedSeverity
    <2>8. oper'.alarm[k].leaves.perceivedSeverity = input.severity
      BY <2>5, <2>6, <2>7
    <2> QED
      BY <2>3, <2>4, <2>7, <2>8 DEF inventoryValidationError, ResourceAllowed, SeverityAllowed
  <1>2. IInv /\ Ordered /\ IInv' /\ InventoryFresh /\ PastRows(oper.alarm) /\ [Next]_vars =>
          [inventoryEvents = 0 =>
             \A k \in DOMAIN oper'.alarm :
                LET leaves == oper'.alarm[k].leaves IN
                leaves.lastChanged > clock /\ ~leaves.isCleared =>
                    /\ k.type \in DOMAIN inventory
                    /\ \/ inventory[k.type].resources = {}
                       \/ k.resource \in inventory[k.type].resources
                    /\ \/ inventory[k.type].severities = {}
                       \/ leaves.perceivedSeverity \in inventory[k.type].severities]_vars
    BY <1>1
  <1> QED
    BY <1>2, Invariance, InventoryStaysFresh, PublishedPast, PTL DEF Spec, InventoryRespected
-----------------------------------------------------------------------------
(* The notifications *)

(* As long as publications succeed, clients are notified of a change of an *)
(* unshelved alarm exactly when notify-status-changes says so, and with    *)
(* the state that the row now shows (Daemon.cpp:276-297,463).              *)
THEOREM NotificationsFollowPolicy == ~ApplyMayFail => (Spec => NotificationPolicy)
  <1> SUFFICES ASSUME ~ApplyMayFail PROVE Spec => NotificationPolicy
    OBVIOUS
  <1>1. ASSUME IInv, Ordered, IInv', InStep, ThresholdPresent, PastRows(oper.alarm), [Next]_vars,
               NEW k \in DOMAIN oper'.alarm, StatusChanged(k)
        PROVE  notification' =
                 IF NotificationWanted(k \notin DOMAIN oper.alarm, oper.alarm[k].leaves,
                                       oper'.alarm[k].leaves)
                   THEN StatusChangeNotification(k, oper'.alarm[k].leaves) ELSE None
    <2> DEFINE new == oper'.alarm[k].leaves
               old == oper.alarm[k].leaves
    <2>1. /\ oper' = m_edit'
          /\ k \in Unshelved(m_alarms') /\ MirrorsEntry(new, m_alarms'[k])
          /\ \E input \in Submissions, fails \in BOOLEAN :
                SubmitChanged(input, fails) /\ k = input.key
      BY <1>1, NewsBySubmit DEF StatusChanged
    <2>2. PICK input \in Submissions, fails \in BOOLEAN :
             SubmitChanged(input, fails) /\ k = input.key
      BY <2>1
    <2> DEFINE res == WhatChanged(input)
    <2>3. /\ m_alarms'[k] = res.entry /\ ~IsRedundantClear(input) /\ ~fails
          /\ notification' = IF res.shouldNotify
                               THEN StatusChangeNotification(k,
                                      (IF ShelfFor(k) = None THEN m_edit'.alarm[k]
                                                             ELSE m_edit'.shelvedAlarm[k]).leaves)
                               ELSE None
      BY <2>2 DEF SubmitChanged, Put, Publish, SendsNotification, SendMayFail
    <2>4. ShelfFor(k) = None
      <3>1. res.entry.shelf = ShelfFor(k)
        BY <1>1, <2>2, <2>3, WhatChangedFacts
      <3> QED
        BY <2>1, <2>3, <3>1 DEF Unshelved
    <2>5. k \in DOMAIN oper.alarm <=> k \in DOMAIN m_alarms
      BY <1>1, <2>4 DEF IInv, Coherent, MirrorsAlarms, ShelfMatchesRules, Unshelved, InStep,
                        EditPublished
    <2>6. k \in DOMAIN m_alarms => /\ old.isCleared = m_alarms[k].isCleared
                                   /\ old.perceivedSeverity = m_alarms[k].lastSeverity
      BY <1>1, <2>5 DEF IInv, Coherent, MirrorsAlarms, MirrorsEntry, InStep, EditPublished
    <2>7. /\ new.isCleared = res.entry.isCleared
          /\ new.perceivedSeverity = res.entry.lastSeverity
      BY <2>1, <2>3 DEF MirrorsEntry
    <2>8. /\ res.entry.isCleared = (input.severity = ClearedSeverity)
          /\ input.severity > ClearedSeverity => res.entry.lastSeverity = input.severity
      BY DEF WhatChanged, updateByRpc, StoredSeverity
    <2>9. res.shouldNotify =
            LET isClearedNow == input.severity = ClearedSeverity
                wasPresent   == k \in DOMAIN m_alarms
            IN  \/ isClearedNow
                \/ m_notifyStatusChanges = "All"
                \/ /\ m_notifyStatusChanges = "RaiseAndClear"
                   /\ ~isClearedNow /\ (~wasPresent \/ m_alarms[k].isCleared)
                \/ /\ m_notifyStatusChanges = "BySeverity"
                   /\ \/ input.severity >= m_notifySeverityThreshold
                      \/ (IF wasPresent THEN m_alarms[k].lastSeverity ELSE -1)
                           >= m_notifySeverityThreshold
      BY <2>2 DEF WhatChanged, updateByRpc, IsRaise, TouchesThreshold
    <2> HIDE DEF res, new, old
    <2>10. res.shouldNotify = NotificationWanted(k \notin DOMAIN oper.alarm, old, new)
      <3>1. input.severity \in Severities \cup {ClearedSeverity}
        BY InputAssumption
      <3>2. CASE input.severity = ClearedSeverity
        <4>1. new.isCleared
          BY <2>7, <2>8, <3>2
        <4> QED
          BY <2>9, <3>2, <4>1 DEF NotificationWanted
      <3>3. CASE input.severity # ClearedSeverity
        <4> input.severity > ClearedSeverity
          BY <3>1, <3>3 DEF Severities, ClearedSeverity
        <4>1. ~new.isCleared /\ new.perceivedSeverity = input.severity
          BY <2>7, <2>8, <3>3
        <4>2. m_notifyStatusChanges = "BySeverity" => m_notifySeverityThreshold \in Severities
          BY <1>1 DEF ThresholdPresent, IInv, TypeOK, ControlType
        <4>3. m_notifyStatusChanges = "BySeverity" =>
                (/\ m_notifySeverityThreshold \in Severities
                 /\ ~ (-1 >= m_notifySeverityThreshold))
          BY <4>2 DEF Severities
        <4> QED
          BY <2>5, <2>6, <2>9, <3>3, <4>1, <4>3 DEF NotificationWanted
      <3> QED
        BY <3>2, <3>3
    <2> QED
      BY <2>1, <2>3, <2>4, <2>10 DEF new, old
  <1>2. IInv /\ Ordered /\ IInv' /\ InStep /\ ThresholdPresent /\ PastRows(oper.alarm)
        /\ [Next]_vars =>
          [\A k \in DOMAIN oper'.alarm : StatusChanged(k) =>
              LET isNew == k \notin DOMAIN oper.alarm
                  new   == oper'.alarm[k].leaves
              IN  notification' = IF NotificationWanted(isNew, oper.alarm[k].leaves, new)
                                    THEN StatusChangeNotification(k, new)
                                    ELSE None]_vars
    BY <1>1
  <1> QED
    BY <1>2, InitInStep, InStepStep, Invariance, ThresholdIsPresent, PublishedPast, PTL
       DEF Spec, NotificationPolicy
-----------------------------------------------------------------------------
(* The stamps *)

(* From the rows and the stamp of a list to later ones: the stamp never    *)
(* goes back, and goes forward if anything visible of the rows changed.    *)
Forward(rows, stamp, newRows, newStamp) ==
    /\ stamp \in Nat /\ newStamp \in Nat /\ stamp <= newStamp
    /\ VisibleRows(rows) # VisibleRows(newRows) => stamp < newStamp

LEMMA ForwardTwice ==
    ASSUME NEW a, NEW s, NEW b, NEW t, NEW c, NEW u, Forward(a, s, b, t), Forward(b, t, c, u)
    PROVE  Forward(a, s, c, u)
  <1>1. s \in Nat /\ t \in Nat /\ u \in Nat /\ s <= t /\ t <= u
    BY DEF Forward
  <1>2. CASE VisibleRows(a) = VisibleRows(b) /\ VisibleRows(b) = VisibleRows(c)
    BY <1>1, <1>2 DEF Forward
  <1>3. CASE VisibleRows(a) # VisibleRows(b) \/ VisibleRows(b) # VisibleRows(c)
    <2>1. s < t \/ t < u
      BY <1>3 DEF Forward
    <2> QED
      BY <1>1, <2>1 DEF Forward
  <1> QED
    BY <1>2, <1>3

(* updateStatistics() from a stamp that is not ahead of now.               *)
LEMMA LatestReaches ==
    ASSUME NEW now \in Nat, NEW stamp \in Nat, stamp <= now,
           NEW alarms, NEW keys,
           \A k \in keys : alarms[k].lastChanged \in Nat /\ alarms[k].lastChanged <= now
    PROVE  LET latest == LatestChange(stamp, alarms, keys) IN
           /\ latest \in Nat /\ stamp <= latest /\ latest <= now
           /\ stamp = now \/ (\E k \in keys : alarms[k].lastChanged = now) => latest = now
  <1> DEFINE instants == {alarms[k].lastChanged : k \in keys}
             IsLatest(t) == t >= stamp /\ \A u \in instants : u <= t
             latest == LatestChange(stamp, alarms, keys)
  <1>1. /\ \A t \in instants : t \in Nat /\ t <= now
        /\ (\E k \in keys : alarms[k].lastChanged = now) <=> now \in instants
    OBVIOUS
  <1>2. latest = IF \E t \in instants : IsLatest(t)
                   THEN CHOOSE t \in instants : IsLatest(t) ELSE stamp
    BY DEF LatestChange, Latest
  <1> HIDE DEF instants, latest
  <1>3. CASE \E t \in instants : IsLatest(t)
    <2>1. latest \in instants /\ IsLatest(latest)
      BY <1>2, <1>3
    <2> QED
      BY <1>1, <2>1 DEF latest
  <1>4. CASE ~ \E t \in instants : IsLatest(t)
    <2>1. latest = stamp
      BY <1>2, <1>4
    <2>2. now \notin instants
      BY <1>1, <1>4
    <2> QED
      BY <1>1, <2>1, <2>2 DEF latest
  <1> QED
    BY <1>3, <1>4

(* Cutting histories changes nothing that is visible.                      *)
LEMMA UnlinkedLooksSame ==
    ASSUME NEW rows, \A k \in DOMAIN rows : rows[k] \in AlarmRow \/ rows[k] \in ShelvedRow,
           NEW alarms, NEW keys, NEW max
    PROVE  VisibleRows(UnlinkedRows(rows, alarms, keys, max)) = VisibleRows(rows)
  <1> DEFINE Cut(k) == Unlink(rows[k].leaves.statusChange,
                              Discarded(alarms[k].statusChanges, max))
             cut == UnlinkedRows(rows, alarms, keys, max)
  <1>1. /\ DOMAIN cut = DOMAIN rows
        /\ \A k \in DOMAIN rows :
              cut[k] = IF k \in keys THEN [rows[k] EXCEPT !.leaves.statusChange = Cut(k)]
                                     ELSE rows[k]
    BY DEF UnlinkedRows
  <1> HIDE DEF cut
  <1>2. ASSUME NEW k \in DOMAIN rows PROVE Visible(cut[k]) = Visible(rows[k])
    <2>1. ASSUME NEW row, row \in AlarmRow \/ row \in ShelvedRow, NEW list
          PROVE  Visible([row EXCEPT !.leaves.statusChange = list]) = Visible(row)
      BY <2>1 DEF Visible, AlarmRow, ShelvedRow, Leaves
    <2> HIDE DEF Cut
    <2>2. rows[k] \in AlarmRow \/ rows[k] \in ShelvedRow
      OBVIOUS
    <2> QED
      BY <1>1, <2>1, <2>2
  <1> QED
    BY <1>1, <1>2 DEF VisibleRows, cut

(* What every step does to the edit and its stamps.                        *)
EditForward ==
    /\ Forward(m_edit.alarm, m_alarmListLastChanged, m_edit'.alarm, m_alarmListLastChanged')
    /\ Forward(m_edit.shelvedAlarm, m_shelfListLastChanged,
               m_edit'.shelvedAlarm, m_shelfListLastChanged')
    /\ m_alarmListLastChanged' <= clock' /\ m_shelfListLastChanged' <= clock'

StampsPast == m_alarmListLastChanged <= clock /\ m_shelfListLastChanged <= clock

LEMMA EditForwardStep ==
    ASSUME IInv, Ordered, StampsPast, [Next]_vars PROVE EditForward
  <1>1. /\ \A k \in DOMAIN m_alarms : /\ m_alarms[k].lastChanged \in Nat
                                      /\ m_alarms[k].lastChanged <= clock
                                      /\ m_alarms[k] \in AlarmEntryType
        /\ clock \in Nat /\ Now \in Nat /\ clock < Now
        /\ m_alarmListLastChanged \in Nat /\ m_shelfListLastChanged \in Nat
        /\ m_alarmListLastChanged < Now /\ m_shelfListLastChanged < Now
    BY DEF IInv, TypeOK, CacheType, AlarmsType, AlarmEntryType, Time, Now, Ordered,
           HistoriesOrdered, HistoryOrdered, StampsPast
  <1>2. \A rows \in {m_edit.alarm, m_edit.shelvedAlarm} :
           \A k \in DOMAIN rows : rows[k] \in AlarmRow \/ rows[k] \in ShelvedRow
    BY DEF IInv, TypeOK, CacheType, RowsType
  <1>3. ASSUME UNCHANGED <<m_alarmListLastChanged, m_shelfListLastChanged>>, clock' = clock,
               VisibleRows(m_edit'.alarm) = VisibleRows(m_edit.alarm),
               VisibleRows(m_edit'.shelvedAlarm) = VisibleRows(m_edit.shelvedAlarm)
        PROVE  EditForward
    BY <1>1, <1>3 DEF EditForward, Forward, StampsPast
  (* One list in a step that records an instant: its rows look the same,   *)
  (* or its stamp becomes Now.                                             *)
  <1>4. ASSUME NEW rows, NEW newRows, NEW stamp \in Nat, stamp < Now,
               NEW base \in {stamp, Now}, NEW alarms, NEW keys,
               \A k \in keys : alarms[k].lastChanged \in Nat /\ alarms[k].lastChanged <= Now,
               \/ VisibleRows(newRows) = VisibleRows(rows)
               \/ base = Now
               \/ \E k \in keys : alarms[k].lastChanged = Now
        PROVE  /\ Forward(rows, stamp, newRows, LatestChange(base, alarms, keys))
               /\ LatestChange(base, alarms, keys) <= Now
    <2>1. base \in Nat /\ stamp <= base /\ base <= Now
      BY <1>1, <1>4
    <2> DEFINE latest == LatestChange(base, alarms, keys)
    <2>2. /\ latest \in Nat /\ base <= latest /\ latest <= Now
          /\ base = Now \/ (\E k \in keys : alarms[k].lastChanged = Now) => latest = Now
      BY <1>1, <1>4, <2>1, LatestReaches
    <2> HIDE DEF latest
    <2>3. stamp <= latest
      BY <1>1, <2>1, <2>2
    <2>4. VisibleRows(rows) # VisibleRows(newRows) => stamp < latest
      BY <1>4, <2>2
    <2> QED
      BY <2>2, <2>3, <2>4 DEF Forward, latest
  <1>5. ASSUME NEW alarms, NEW newA, NEW newS, NEW stampA \in {m_alarmListLastChanged, Now},
               NEW stampS \in {m_shelfListLastChanged, Now},
               updateStatistics(alarms, newA, newS, stampA, stampS), clock' = Now,
               \A k \in DOMAIN alarms :
                  alarms[k].lastChanged \in Nat /\ alarms[k].lastChanged <= Now,
               \/ VisibleRows(newA) = VisibleRows(m_edit.alarm)
               \/ stampA = Now
               \/ \E k \in Unshelved(alarms) : alarms[k].lastChanged = Now,
               \/ VisibleRows(newS) = VisibleRows(m_edit.shelvedAlarm)
               \/ stampS = Now
               \/ \E k \in Shelved(alarms) : alarms[k].lastChanged = Now
        PROVE  EditForward
    <2>1. /\ m_edit'.alarm = newA /\ m_edit'.shelvedAlarm = newS
          /\ m_alarmListLastChanged' = LatestChange(stampA, alarms, Unshelved(alarms))
          /\ m_shelfListLastChanged' = LatestChange(stampS, alarms, Shelved(alarms))
      BY <1>5 DEF updateStatistics
    <2>2. /\ \A k \in Unshelved(alarms) : k \in DOMAIN alarms
          /\ \A k \in Shelved(alarms) : k \in DOMAIN alarms
      BY DEF Unshelved, Shelved
    <2>3. /\ Forward(m_edit.alarm, m_alarmListLastChanged, newA, m_alarmListLastChanged')
          /\ m_alarmListLastChanged' <= Now
      BY <1>1, <1>4, <1>5, <2>1, <2>2
    <2>4. /\ Forward(m_edit.shelvedAlarm, m_shelfListLastChanged, newS, m_shelfListLastChanged')
          /\ m_shelfListLastChanged' <= Now
      BY <1>1, <1>4, <1>5, <2>1, <2>2
    <2> QED
      BY <1>5, <2>1, <2>3, <2>4 DEF EditForward
  <1>6. ASSUME NEW input \in Submissions, NEW fails \in BOOLEAN, SubmitChanged(input, fails)
        PROVE  EditForward
    <2> DEFINE key == input.key
               entry == WhatChanged(input).entry
               alarms == Put(m_alarms, key, entry)
               newA == UpdatedAlarmRows(input, WhatChanged(input))
               newS == UpdatedShelvedRows(input, WhatChanged(input))
    <2>1. /\ updateStatistics(alarms, newA, newS, m_alarmListLastChanged, m_shelfListLastChanged)
          /\ clock' = Now /\ WhatChanged(input).changed /\ ~IsRedundantClear(input)
      BY <1>6 DEF SubmitChanged, Advance
    <2>2. entry.lastChanged = Now
      BY <2>1 DEF WhatChanged, updateByRpc
    <2>3. entry.shelf = ShelfFor(key)
      BY <2>1, WhatChangedFacts
    <2>4. /\ ShelfFor(key) # None => newA = m_edit.alarm
          /\ ShelfFor(key) = None => newS = m_edit.shelvedAlarm
      BY DEF UpdatedAlarmRows, UpdatedShelvedRows
    <2> HIDE DEF entry, newA, newS
    <2>5. /\ DOMAIN alarms = DOMAIN m_alarms \cup {key} /\ alarms[key] = entry
          /\ \A k \in DOMAIN m_alarms : k # key => alarms[k] = m_alarms[k]
      BY DEF Put
    <2> HIDE DEF alarms
    <2>6. \A k \in DOMAIN alarms : alarms[k].lastChanged \in Nat /\ alarms[k].lastChanged <= Now
      BY <1>1, <2>2, <2>5
    <2>7. /\ ShelfFor(key) = None => key \in Unshelved(alarms)
          /\ ShelfFor(key) # None => key \in Shelved(alarms)
      BY <2>3, <2>5 DEF Unshelved, Shelved
    <2>8. \/ VisibleRows(newA) = VisibleRows(m_edit.alarm)
          \/ \E k \in Unshelved(alarms) : alarms[k].lastChanged = Now
      BY <2>2, <2>4, <2>5, <2>7
    <2>9. \/ VisibleRows(newS) = VisibleRows(m_edit.shelvedAlarm)
          \/ \E k \in Shelved(alarms) : alarms[k].lastChanged = Now
      BY <2>2, <2>4, <2>5, <2>7
    <2> QED
      BY <1>5, <2>1, <2>6, <2>8, <2>9
  <1>7. ASSUME NEW shelved \in BOOLEAN, NEW filter \in PurgeInputs, NEW fails \in BOOLEAN,
               Purge(shelved, filter, fails)
        PROVE  EditForward
    <2> DEFINE purged == Purged(shelved, filter)
               alarms == Without(m_alarms, purged)
               newA == IF shelved THEN m_edit.alarm ELSE Without(m_edit.alarm, purged)
               newS == IF shelved THEN Without(m_edit.shelvedAlarm, purged)
                                  ELSE m_edit.shelvedAlarm
               stampA == IF shelved THEN m_alarmListLastChanged ELSE Now
               stampS == IF shelved THEN Now ELSE m_shelfListLastChanged
    <2>1. updateStatistics(alarms, newA, newS, stampA, stampS) /\ clock' = Now
      BY <1>7 DEF Purge, Advance
    <2>2. \A k \in DOMAIN alarms : alarms[k].lastChanged \in Nat /\ alarms[k].lastChanged <= Now
      BY <1>1 DEF Without
    <2>3. /\ newA = m_edit.alarm \/ stampA = Now
          /\ newS = m_edit.shelvedAlarm \/ stampS = Now
          /\ stampA \in {m_alarmListLastChanged, Now} /\ stampS \in {m_shelfListLastChanged, Now}
      OBVIOUS
    <2> HIDE DEF alarms, newA, newS, stampA, stampS
    <2> QED
      BY <1>5, <2>1, <2>2, <2>3
  <1>8. ASSUME NEW shelved \in BOOLEAN, NEW filter \in CompressInputs, NEW fails \in BOOLEAN,
               Compress(shelved, filter, fails)
        PROVE  EditForward
    BY <1>2, <1>3, <1>8, UnlinkedLooksSame DEF Compress, EditWith
  <1>9. ASSUME NEW fails \in BOOLEAN, ControlChanged(fails) PROVE EditForward
    <2> DEFINE changes     == Head(controlEvents)
               reshelves   == "alarm-shelving" \in DOMAIN changes
               rules       == IF reshelves THEN running.shelves ELSE m_shelvingRules
               moved       == reshelves /\ Moved(rules) # {}
               crossed     == moved /\ Unshelves(rules) \cup Shelves(rules) # {}
               alarms      == IF moved THEN ReshelvedAlarms(rules) ELSE m_alarms
               alarmRows   == IF moved THEN ReshelvedAlarmRows(rules) ELSE m_edit.alarm
               shelvedRows == IF moved THEN ReshelvedShelvedRows(rules)
                                       ELSE m_edit.shelvedAlarm
               max         == m_maxAlarmStatusChanges'
               overlong    == IF LimitShrinks(changes)
                                THEN Overlong(alarms, DOMAIN alarms, max) ELSE {}
               newA == UnlinkedRows(alarmRows, alarms, overlong \cap Unshelved(alarms), max)
               newS == UnlinkedRows(shelvedRows, alarms, overlong \cap Shelved(alarms), max)
               stampA == IF crossed THEN Now ELSE m_alarmListLastChanged
    <2>1. /\ moved => updateStatistics(alarms, newA, newS, stampA, Now) /\ clock' = Now
          /\ ~moved => /\ m_edit' = EditWith(newA, newS)
                       /\ UNCHANGED <<m_alarmListLastChanged, m_shelfListLastChanged, clock>>
      BY <1>9 DEF ControlChanged, Advance
    <2> HIDE DEF overlong, max
    <2>2. CASE ~moved
      <3>1. alarmRows = m_edit.alarm /\ shelvedRows = m_edit.shelvedAlarm
        BY <2>2
      <3>2. /\ VisibleRows(newA) = VisibleRows(m_edit.alarm)
            /\ VisibleRows(newS) = VisibleRows(m_edit.shelvedAlarm)
        BY <1>2, <3>1, UnlinkedLooksSame
      <3> HIDE DEF newA, newS
      <3> QED
        BY <1>3, <2>1, <2>2, <3>2 DEF EditWith
    <2>3. CASE moved
      <3>1. /\ DOMAIN alarms = DOMAIN m_alarms
            /\ \A k \in DOMAIN m_alarms : alarms[k] =
                  IF k \in Moved(rules)
                    THEN [m_alarms[k] EXCEPT !.shelf = findMatchingShelf(k, rules)]
                    ELSE m_alarms[k]
        BY <2>3 DEF ReshelvedAlarms
      <3>2. \A k \in DOMAIN alarms : alarms[k].lastChanged \in Nat /\ alarms[k].lastChanged <= Now
        <4> HIDE DEF alarms
        <4>1. \A k \in DOMAIN m_alarms : alarms[k].lastChanged = m_alarms[k].lastChanged
          BY <1>1, <3>1 DEF AlarmEntryType
        <4> QED
          BY <1>1, <3>1, <4>1
      <3>3. ASSUME ~crossed PROVE VisibleRows(newA) = VisibleRows(m_edit.alarm)
        <4>1. Unshelves(rules) = {} /\ Shelves(rules) = {}
          BY <2>3, <3>3
        <4>2. /\ DOMAIN alarmRows = DOMAIN m_edit.alarm
              /\ \A k \in DOMAIN m_edit.alarm : alarmRows[k] = m_edit.alarm[k]
          BY <2>3, <4>1 DEF ReshelvedAlarmRows
        <4> HIDE DEF alarms, alarmRows
        <4>3. VisibleRows(alarmRows) = VisibleRows(m_edit.alarm)
          BY <4>2 DEF VisibleRows
        <4>4. VisibleRows(newA) = VisibleRows(alarmRows)
          BY <1>2, <4>2, UnlinkedLooksSame
        <4> QED
          BY <4>3, <4>4
      <3>4. VisibleRows(newA) = VisibleRows(m_edit.alarm) \/ stampA = Now
        BY <3>3
      <3>5. stampA \in {m_alarmListLastChanged, Now}
        OBVIOUS
      <3> HIDE DEF alarms, newA, newS, stampA
      <3> QED
        BY <1>5, <2>1, <2>3, <3>2, <3>4, <3>5
    <2> QED
      BY <2>2, <2>3
  <1>10. ASSUME UNCHANGED cache, clock' = clock PROVE EditForward
    BY <1>3, <1>10 DEF cache
  <1>11. CASE submitAlarm
    BY <1>3, <1>6, <1>10, <1>11 DEF submitAlarm, RefuseClient, SubmitBadKey, SubmitReadFails,
                        SubmitNotInInventory, SubmitRedundantClear, SubmitUnchanged
  <1>12. CASE purgeAlarms
    BY <1>7, <1>10, <1>12 DEF purgeAlarms, PurgeNothing
  <1>13. CASE compressAlarms
    BY <1>8, <1>10, <1>13 DEF compressAlarms, CompressNothing
  <1>14. CASE controlCallback
    BY <1>9, <1>14 DEF controlCallback
  <1>15. CASE InventoryChanged \/ Environment
    BY <1>10, <1>15 DEF InventoryChanged, Environment, EditControl, EditInventory
  <1>16. CASE UNCHANGED vars
    BY <1>10, <1>16 DEF vars
  <1> QED
    BY <1>11, <1>12, <1>13, <1>14, <1>15, <1>16 DEF Next

(* Whoever polls only the two stamps of the summaries misses no change,    *)
(* whatever fails: a list's stamp goes forward with every publication that *)
(* changes its rows (Daemon.cpp:515-520,611-642,697-711).  What failed     *)
(* publications left unpublished is ahead of the published stamp.          *)
THEOREM StampsAreMoved == Spec => StampsCoverChanges
  <1> DEFINE Ahead ==
        /\ Forward(oper.alarm, oper.stats.lastChanged, m_edit.alarm, m_alarmListLastChanged)
        /\ Forward(oper.shelvedAlarm, oper.stats.shelvedAlarmsLastChanged,
                   m_edit.shelvedAlarm, m_shelfListLastChanged)
             Stamps == Counted /\ StampsPast /\ Ahead
  <1>1. Counted => /\ m_edit.stats.lastChanged = m_alarmListLastChanged
                   /\ m_edit.stats.shelvedAlarmsLastChanged = m_shelfListLastChanged
    BY DEF Counted, Statistics
  <1>2. Init => Stamps
    <2> SUFFICES ASSUME Init PROVE Stamps
      OBVIOUS
    <2>1. Unshelved(NoRows) = {} /\ Shelved(NoRows) = {}
      BY DEF Unshelved, Shelved, NoRows
    <2>2. Counted
      BY <2>1 DEF Init, Counted, Covers
    <2>3. StampsPast
      BY DEF Init, StampsPast
    <2>4. Ahead
      BY <1>1, <2>2 DEF Init, Forward
    <2> QED
      BY <2>2, <2>3, <2>4
  <1>3. ASSUME IInv, Ordered, Stamps, [Next]_vars
        PROVE  /\ Stamps'
               /\ VisibleRows(oper'.alarm) # VisibleRows(oper.alarm) =>
                    oper'.stats.lastChanged > oper.stats.lastChanged
               /\ VisibleRows(oper'.shelvedAlarm) # VisibleRows(oper.shelvedAlarm) =>
                    oper'.stats.shelvedAlarmsLastChanged > oper.stats.shelvedAlarmsLastChanged
    <2>1. Counted'
      BY <1>3, CountedStep
    <2>2. EditForward
      BY <1>3, EditForwardStep
    <2>3. StampsPast'
      BY <2>2 DEF EditForward, StampsPast
    <2>4. /\ Forward(oper.alarm, oper.stats.lastChanged, m_edit'.alarm, m_alarmListLastChanged')
          /\ Forward(oper.shelvedAlarm, oper.stats.shelvedAlarmsLastChanged,
                     m_edit'.shelvedAlarm, m_shelfListLastChanged')
      BY <1>3, <2>2, ForwardTwice DEF EditForward
    <2>5. /\ m_edit'.stats.lastChanged = m_alarmListLastChanged'
          /\ m_edit'.stats.shelvedAlarmsLastChanged = m_shelfListLastChanged'
      BY <2>1 DEF Counted, Statistics
    <2>6. CASE oper' = oper
      BY <2>1, <2>3, <2>4, <2>6 DEF Forward, VisibleRows, Visible
    <2>7. CASE oper' = m_edit'
      <3>1. Ahead'
        BY <2>4, <2>5, <2>7 DEF Forward, VisibleRows, Visible
      <3> QED
        BY <2>1, <2>3, <2>4, <2>5, <2>7, <3>1 DEF Forward
    <2> QED
      BY <1>3, <2>6, <2>7, KeptOrReplaced
  <1>4. IInv /\ Ordered /\ Stamps /\ [Next]_vars =>
          /\ Stamps'
          /\ [/\ VisibleRows(oper'.alarm) # VisibleRows(oper.alarm) =>
                   oper'.stats.lastChanged > oper.stats.lastChanged
              /\ VisibleRows(oper'.shelvedAlarm) # VisibleRows(oper.shelvedAlarm) =>
                   oper'.stats.shelvedAlarmsLastChanged
                     > oper.stats.shelvedAlarmsLastChanged]_vars
    BY <1>3
  <1> HIDE DEF Stamps
  <1> QED
    BY <1>2, <1>4, Invariance, PTL DEF Spec, StampsCoverChanges
-----------------------------------------------------------------------------
(* time-created *)

NoShelves == \A c \in Configs : c.shelves = <<>>

(* The rows show when their entries were created.                          *)
CreatedShown == \A k \in DOMAIN m_edit.alarm : m_edit.alarm[k].timeCreated = m_alarms[k].created

CreatedKept ==
    \A k \in DOMAIN m_alarms \cap DOMAIN m_alarms' : m_alarms'[k].created = m_alarms[k].created

LEMMA NothingShelved ==
    ASSUME NoShelves, IInv
    PROVE  /\ running.shelves = <<>> /\ m_shelvingRules = <<>>
           /\ \A key : findMatchingShelf(key, <<>>) = None
           /\ Moved(<<>>) = {} /\ DOMAIN m_edit.alarm = DOMAIN m_alarms
  <1>1. running.shelves = <<>> /\ m_shelvingRules = <<>>
    BY DEF NoShelves, IInv, TypeOK, ControlType, DatastoreType
  <1>2. \A key : findMatchingShelf(key, <<>>) = None
    BY DEF findMatchingShelf
  <1>3. \A k \in DOMAIN m_alarms : m_alarms[k].shelf = None
    BY <1>1, <1>2 DEF IInv, ShelfMatchesRules, ShelfFor
  <1> QED
    BY <1>1, <1>2, <1>3 DEF Moved, IInv, Coherent, MirrorsAlarms, Unshelved

(* Shortening histories touches no creation time, of entries or rows.      *)
LEMMA ShrinkKeepsCreated ==
    ASSUME NEW alarms, AlarmsType(alarms), NEW rows, \A k \in DOMAIN rows : rows[k] \in AlarmRow,
           NEW keys, NEW others, NEW max
    PROVE  /\ \A k \in DOMAIN alarms :
                 ShrunkAlarms(alarms, keys, max)[k].created = alarms[k].created
           /\ \A k \in DOMAIN rows :
                 UnlinkedRows(rows, alarms, others, max)[k].timeCreated = rows[k].timeCreated
  <1>1. ASSUME NEW k \in DOMAIN alarms
        PROVE  ShrunkAlarms(alarms, keys, max)[k].created = alarms[k].created
    <2>1. alarms[k] \in AlarmEntryType
      BY DEF AlarmsType
    <2> QED
      BY <2>1 DEF ShrunkAlarms, AlarmEntryType
  <1>2. ASSUME NEW k \in DOMAIN rows
        PROVE  UnlinkedRows(rows, alarms, others, max)[k].timeCreated = rows[k].timeCreated
    <2>1. rows[k] \in AlarmRow
      OBVIOUS
    <2> QED
      BY <2>1 DEF UnlinkedRows, AlarmRow
  <1> QED
    BY <1>1, <1>2

LEMMA CreatedStep ==
    ASSUME NoShelves, IInv, CreatedShown, [Next]_vars PROVE CreatedShown' /\ CreatedKept
  <1>1. /\ AlarmsType(m_alarms) /\ DOMAIN m_edit.alarm = DOMAIN m_alarms
        /\ \A k \in DOMAIN m_edit.alarm : m_edit.alarm[k] \in AlarmRow
    BY NothingShelved DEF IInv, Coherent, RowsType
  <1>2. ASSUME UNCHANGED <<m_alarms, m_edit>> PROVE CreatedShown' /\ CreatedKept
    BY <1>2 DEF CreatedShown, CreatedKept
  <1>3. ASSUME NEW input \in Submissions, SubmitUnchanged(input)
        PROVE  CreatedShown' /\ CreatedKept
    <2>1. /\ input.key \in DOMAIN m_alarms
          /\ WhatChanged(input).entry = m_alarms[input.key]
          /\ m_alarms' = Put(m_alarms, input.key, WhatChanged(input).entry) /\ m_edit' = m_edit
      BY <1>3, WhatChangedFacts DEF SubmitUnchanged
    <2>2. \A k \in DOMAIN m_alarms : m_alarms'[k] = m_alarms[k]
      BY <2>1 DEF Put
    <2> QED
      BY <1>1, <2>1, <2>2 DEF CreatedShown, CreatedKept
  <1>4. ASSUME NEW input \in Submissions, NEW fails \in BOOLEAN, SubmitChanged(input, fails)
        PROVE  CreatedShown' /\ CreatedKept
    <2> DEFINE key == input.key
               res == WhatChanged(input)
    <2>1. m_alarms' = Put(m_alarms, key, res.entry) /\ m_edit'.alarm = UpdatedAlarmRows(input, res)
      BY <1>4 DEF SubmitChanged, updateStatistics
    <2>2. PICK leaves : m_edit'.alarm = Put(m_edit.alarm, key,
                                            [leaves |-> leaves, timeCreated |-> res.entry.created])
      BY <2>1, NothingShelved DEF UpdatedAlarmRows, ShelfFor
    <2>3. key \in DOMAIN m_alarms => res.entry.created = m_alarms[key].created
      BY DEF WhatChanged, updateByRpc
    <2> HIDE DEF key, res
    <2> QED
      BY <1>1, <2>1, <2>2, <2>3 DEF Put, CreatedShown, CreatedKept
  <1>5. ASSUME NEW shelved \in BOOLEAN, NEW filter \in PurgeInputs, NEW fails \in BOOLEAN,
               Purge(shelved, filter, fails)
        PROVE  CreatedShown' /\ CreatedKept
    <2> DEFINE purged == Purged(shelved, filter)
    <2>1. /\ m_alarms' = Without(m_alarms, purged)
          /\ m_edit'.alarm = IF shelved THEN m_edit.alarm ELSE Without(m_edit.alarm, purged)
      BY <1>5 DEF Purge, updateStatistics
    <2>2. shelved => purged = {}
      BY <1>1 DEF Purged, OnList, Shelved, IInv, Coherent, MirrorsAlarms, Unshelved
    <2> HIDE DEF purged
    <2> QED
      BY <1>1, <2>1, <2>2 DEF Without, CreatedShown, CreatedKept
  <1>6. ASSUME NEW shelved \in BOOLEAN, NEW filter \in CompressInputs, NEW fails \in BOOLEAN,
               Compress(shelved, filter, fails)
        PROVE  CreatedShown' /\ CreatedKept
    <2>1. PICK keys, others :
             /\ m_alarms' = ShrunkAlarms(m_alarms, keys, 1)
             /\ m_edit'.alarm = UnlinkedRows(m_edit.alarm, m_alarms, others, 1)
      BY <1>6 DEF Compress, EditWith
    <2>2. DOMAIN m_alarms' = DOMAIN m_alarms /\ DOMAIN m_edit'.alarm = DOMAIN m_edit.alarm
      BY <2>1 DEF ShrunkAlarms, UnlinkedRows
    <2> QED
      BY <1>1, <2>1, <2>2, ShrinkKeepsCreated DEF CreatedShown, CreatedKept
  <1>7. ASSUME NEW fails \in BOOLEAN, ControlChanged(fails) PROVE CreatedShown' /\ CreatedKept
    <2>1. PICK keys, others, max :
             /\ m_alarms' = ShrunkAlarms(m_alarms, keys, max)
             /\ m_edit'.alarm = UnlinkedRows(m_edit.alarm, m_alarms, others, max)
      <3> DEFINE changes   == Head(controlEvents)
                 rules     == IF "alarm-shelving" \in DOMAIN changes THEN running.shelves
                                                                      ELSE m_shelvingRules
      <3>1. Moved(rules) = {}
        BY NothingShelved
      <3> QED
        BY <1>7, <3>1 DEF ControlChanged, EditWith
    <2>2. DOMAIN m_alarms' = DOMAIN m_alarms /\ DOMAIN m_edit'.alarm = DOMAIN m_edit.alarm
      BY <2>1 DEF ShrunkAlarms, UnlinkedRows
    <2> QED
      BY <1>1, <2>1, <2>2, ShrinkKeepsCreated DEF CreatedShown, CreatedKept
  <1>8. CASE submitAlarm
    BY <1>2, <1>3, <1>4, <1>8 DEF submitAlarm, RefuseClient, SubmitBadKey, SubmitReadFails,
                                  SubmitNotInInventory, SubmitRedundantClear, cache
  <1>9. CASE purgeAlarms
    BY <1>2, <1>5, <1>9 DEF purgeAlarms, PurgeNothing, cache
  <1>10. CASE compressAlarms
    BY <1>2, <1>6, <1>10 DEF compressAlarms, CompressNothing, cache
  <1>11. CASE controlCallback
    BY <1>7, <1>11 DEF controlCallback
  <1>12. CASE InventoryChanged \/ Environment
    BY <1>2, <1>12 DEF InventoryChanged, Environment, EditControl, EditInventory, cache
  <1>13. CASE UNCHANGED vars
    BY <1>2, <1>13 DEF vars, cache
  <1> QED
    BY <1>8, <1>9, <1>10, <1>11, <1>12, <1>13 DEF Next

(* time-created is stable, as the YANG model has it, if no configuration   *)
(* has a shelf and no publication fails: only the way back from a shelf    *)
(* disturbs it (Daemon.cpp:593).                                           *)
THEOREM TimeCreatedStable == NoShelves /\ ~ApplyMayFail => (Spec => TimeCreatedIsStable)
  <1> SUFFICES ASSUME NoShelves, ~ApplyMayFail PROVE Spec => TimeCreatedIsStable
    OBVIOUS
  <1>1. Init => CreatedShown
    BY DEF Init, CreatedShown, NoRows
  <1>2. IInv /\ CreatedShown /\ [Next]_vars => CreatedShown'
    BY CreatedStep
  <1>3. IInv /\ IInv' /\ InStep /\ InStep' /\ CreatedShown /\ [Next]_vars
          => [\A k \in DOMAIN oper.alarm \cap DOMAIN oper'.alarm :
                 oper'.alarm[k].timeCreated = oper.alarm[k].timeCreated]_vars
    <2> SUFFICES ASSUME IInv, IInv', InStep, InStep', CreatedShown, [Next]_vars,
                        NEW k \in DOMAIN oper.alarm \cap DOMAIN oper'.alarm
                 PROVE  oper'.alarm[k].timeCreated = oper.alarm[k].timeCreated
      OBVIOUS
    <2>1. CreatedShown' /\ CreatedKept
      BY CreatedStep
    <2>2. oper = m_edit /\ oper' = m_edit'
      BY DEF InStep, EditPublished
    <2>3. k \in DOMAIN m_alarms /\ k \in DOMAIN m_alarms'
      BY <2>2 DEF IInv, Coherent, MirrorsAlarms, Unshelved
    <2> QED
      BY <2>1, <2>2, <2>3 DEF CreatedShown, CreatedKept
  <1> QED
    BY <1>1, <1>2, <1>3, InitInStep, InStepStep, Invariance, PTL DEF Spec, TimeCreatedIsStable
=============================================================================
