-------------------------- MODULE PublicationProofs --------------------------
(***************************************************************************)
(* What is published against the configuration and against itself: the     *)
(* shelves, the notifications and the statistics.                          *)
(***************************************************************************)
EXTENDS ListProofs, SettingsProofs

LEMMA FollowedShelving == IInv /\ InStep /\ Followed => ShelvingPublished
  <1> SUFFICES ASSUME IInv, InStep, Followed, ~PendingChange("alarm-shelving")
               PROVE  ShelvingPublished
    BY DEF ShelvingPublished
  <1>1. m_shelvingRules = running.shelves /\ oper = m_edit
    BY DEF Followed, RulesFollow, InStep, EditPublished
  <1>2. \A k \in DOMAIN m_alarms : m_alarms[k].shelf = findMatchingShelf(k, running.shelves)
    BY <1>1 DEF IInv, ShelfMatchesRules, ShelfFor
  <1>3. /\ DOMAIN oper.alarm = Unshelved(m_alarms) /\ DOMAIN oper.shelvedAlarm = Shelved(m_alarms)
        /\ \A k \in Shelved(m_alarms) : oper.shelvedAlarm[k].shelfName = m_alarms[k].shelf
    BY <1>1 DEF IInv, Coherent, MirrorsAlarms
  <1> QED
    BY <1>2, <1>3 DEF ShelvingPublished, Unshelved, Shelved

(* Alarms are published on the list, and under the shelf, that the running *)
(* configuration gives them, unless an event about shelving is on its way. *)
THEOREM ShelvingIsPublished == ~ApplyMayFail => (Spec => []ShelvingPublished)
  <1> SUFFICES ASSUME ~ApplyMayFail PROVE Spec => []ShelvingPublished
    OBVIOUS
  <1> QED
    BY FollowedShelving, InitInStep, InStepStep, Invariance, AlwaysFollowed, PTL DEF Spec

LEMMA FollowedSettled == IInv /\ InStep /\ Followed => SettledIsInEffect
  <1> SUFFICES ASSUME IInv, InStep, Followed, controlEvents = <<>> PROVE InEffect(running)
    BY DEF SettledIsInEffect
  <1>1. \A node : ~PendingChange(node)
    BY DEF PendingChange
  <1>2. /\ m_maxAlarmStatusChanges = running.maxAlarmStatusChanges
        /\ m_notifyStatusChanges = running.notifyStatusChanges
        /\ m_notifySeverityThreshold = running.notifySeverityLevel
    BY <1>1, FollowedSettings DEF SettingsFollowRunning
  <1>3. /\ \A k \in DOMAIN oper.alarm : findMatchingShelf(k, running.shelves) = None
        /\ \A k \in DOMAIN oper.shelvedAlarm :
              oper.shelvedAlarm[k].shelfName = findMatchingShelf(k, running.shelves)
    BY <1>1, FollowedShelving DEF ShelvingPublished
  <1>4. oper.alarm = m_edit.alarm /\ oper.shelvedAlarm = m_edit.shelvedAlarm
    BY DEF InStep, EditPublished
  <1>5. ASSUME running.maxAlarmStatusChanges # None,
               NEW rows \in {oper.alarm, oper.shelvedAlarm}, NEW k \in DOMAIN rows
        PROVE  Len(rows[k].leaves.statusChange) <= running.maxAlarmStatusChanges
    <2>1. k \in DOMAIN m_alarms /\ MirrorsEntry(rows[k].leaves, m_alarms[k])
      BY <1>4, <1>5 DEF IInv, Coherent, MirrorsAlarms, Unshelved, Shelved
    <2>2. Len(rows[k].leaves.statusChange) = Len(m_alarms[k].statusChanges)
      BY <2>1 DEF MirrorsEntry, MirrorsHistory
    <2> QED
      BY <1>2, <1>5, <2>1, <2>2 DEF IInv, HistoryBounded
  <1> QED
    BY <1>2, <1>3, <1>5 DEF InEffect

(* The part of EditsTakeEffect that does not depend on fairness: once the  *)
(* last event is handled, the last edit is in effect in every respect, for *)
(* any sequence of edits, RPCs and deliveries.                             *)
THEOREM SettledTakesEffect == ~ApplyMayFail => (Spec => []SettledIsInEffect)
  <1> SUFFICES ASSUME ~ApplyMayFail PROVE Spec => []SettledIsInEffect
    OBVIOUS
  <1> QED
    BY FollowedSettled, InitInStep, InStepStep, Invariance, AlwaysFollowed, PTL DEF Spec

(* An alarm that a repeated raise finds unchanged is cached, hence in the  *)
(* edit, hence published: only a publication that failed makes the answer  *)
(* Ok say too much (AcknowledgedIsPublished is violated if some may).      *)
THEOREM AcknowledgedIfPublished == ~ApplyMayFail => (Spec => AcknowledgedIsPublished)
  <1> SUFFICES ASSUME ~ApplyMayFail PROVE Spec => AcknowledgedIsPublished
    OBVIOUS
  <1>1. ASSUME IInv, InStep, NEW input \in Submissions, SubmitUnchanged(input)
        PROVE  input.key \in Listed(oper)
    <2>1. input.key \in DOMAIN m_alarms
      <3>1. input.key \notin DOMAIN m_alarms => WhatChanged(input).changed
        <4>1. input.severity \in Int /\ input.severity # -1
          BY InputAssumption DEF Severities, ClearedSeverity
        <4> QED
          BY <4>1 DEF WhatChanged, updateByRpc
      <3> QED
        BY <1>1, <3>1 DEF SubmitUnchanged
    <2>2. DOMAIN oper.alarm = Unshelved(m_alarms) /\ DOMAIN oper.shelvedAlarm = Shelved(m_alarms)
      BY <1>1 DEF IInv, Coherent, MirrorsAlarms, InStep, EditPublished
    <2> QED
      BY <2>1, <2>2 DEF Unshelved, Shelved, Listed
  <1>2. IInv /\ InStep
          => [\A input \in Submissions : SubmitUnchanged(input) => input.key \in Listed(oper)]_vars
    BY <1>1
  <1> QED
    BY <1>2, InitInStep, InStepStep, Invariance, PTL DEF Spec, AcknowledgedIsPublished

(* The notification that a step sends shows what the step published.       *)
Shows(key) ==
    \/ /\ key \in DOMAIN oper'.alarm
       /\ notification' = StatusChangeNotification(key, oper'.alarm[key].leaves)
    \/ /\ key \in DOMAIN oper'.shelvedAlarm
       /\ notification' = StatusChangeNotification(key, oper'.shelvedAlarm[key].leaves)

LEMMA NotifiedStep ==
    ASSUME Next, IsAlarmNotification(notification') PROVE Shows(notification'.key)
  <1>1. ASSUME NEW input \in Submissions, NEW fails \in BOOLEAN, SubmitChanged(input, fails),
               IsAlarmNotification(notification')
        PROVE  Shows(notification'.key)
    <2> DEFINE key == input.key
               res == WhatChanged(input)
               alarms == Put(m_alarms, key, res.entry)
               newA == UpdatedAlarmRows(input, res)
               newS == UpdatedShelvedRows(input, res)
               row == IF ShelfFor(key) = None THEN m_edit'.alarm[key] ELSE m_edit'.shelvedAlarm[key]
    <2>1. /\ updateStatistics(alarms, newA, newS, m_alarmListLastChanged, m_shelfListLastChanged)
          /\ Publish(fails)
          /\ \/ notification' = None
             \/ /\ SendsNotification(res, fails)
                /\ notification' = StatusChangeNotification(key, row.leaves)
      BY <1>1 DEF SubmitChanged
    <2>2. ShelfFor(key) = None => key \in DOMAIN newA
      BY DEF UpdatedAlarmRows, Put
    <2>3. ShelfFor(key) # None => key \in DOMAIN newS
      BY DEF UpdatedShelvedRows, Put
    <2> HIDE DEF res, newA, newS, alarms
    <2>4. m_edit'.alarm = newA /\ m_edit'.shelvedAlarm = newS
      BY <2>1 DEF updateStatistics
    <2>5. notification' = StatusChangeNotification(key, row.leaves) /\ oper' = m_edit'
      BY <1>1, <2>1 DEF IsAlarmNotification, SendsNotification, Publish
    <2>6. notification'.key = key
      BY <2>5 DEF StatusChangeNotification
    <2> QED
      BY <2>2, <2>3, <2>4, <2>5, <2>6 DEF Shows
  <1>2. notification' # None /\ notification'.kind = "alarm-notification"
    BY DEF IsAlarmNotification
  <1>3. CASE submitAlarm
    BY <1>1, <1>2, <1>3
       DEF submitAlarm, RefuseClient, SubmitBadKey, SubmitReadFails, SubmitNotInInventory,
           SubmitRedundantClear, SubmitUnchanged
  <1>4. CASE purgeAlarms
    BY <1>2, <1>4 DEF purgeAlarms, PurgeNothing, Purge
  <1>5. CASE compressAlarms
    BY <1>2, <1>5 DEF compressAlarms, CompressNothing, Compress
  <1>6. CASE controlCallback
    BY <1>2, <1>6 DEF controlCallback, ControlChanged
  <1>7. CASE InventoryChanged \/ Environment
    BY <1>2, <1>7 DEF InventoryChanged, Environment, EditControl, EditInventory
  <1> QED
    BY <1>3, <1>4, <1>5, <1>6, <1>7 DEF Next

(* No notification is sent of what is not published, whatever fails.       *)
THEOREM NotificationsArePublished == Spec => NotifiedIsPublished
  <1>1. [Next]_vars => [IsAlarmNotification(notification') =>
                          LET k == notification'.key IN
                          \/ /\ k \in DOMAIN oper'.alarm
                             /\ notification' = StatusChangeNotification(k, oper'.alarm[k].leaves)
                          \/ /\ k \in DOMAIN oper'.shelvedAlarm
                             /\ notification' =
                                  StatusChangeNotification(k, oper'.shelvedAlarm[k].leaves)]_vars
    BY NotifiedStep DEF Shows
  <1> QED
    BY <1>1, PTL DEF Spec, NotifiedIsPublished
-----------------------------------------------------------------------------
(* Statistics *)

(* StatisticsMatchRows for any tree.                                       *)
Severe(rows, s) == {k \in DOMAIN rows : rows[k].leaves.perceivedSeverity = s}
SevereCleared(rows, s) ==
    {k \in DOMAIN rows : rows[k].leaves.perceivedSeverity = s /\ rows[k].leaves.isCleared}
SevereNotCleared(rows, s) ==
    {k \in DOMAIN rows : rows[k].leaves.perceivedSeverity = s /\ ~rows[k].leaves.isCleared}

StatisticsShow(o) ==
    /\ o.stats.numberOfAlarms = Cardinality(DOMAIN o.alarm)
    /\ o.stats.numberOfShelvedAlarms = Cardinality(DOMAIN o.shelvedAlarm)
    /\ \A s \in Severities :
          o.stats.summary[s] = [total      |-> Cardinality(Severe(o.alarm, s)),
                                cleared    |-> Cardinality(SevereCleared(o.alarm, s)),
                                notCleared |-> Cardinality(SevereNotCleared(o.alarm, s))]
    /\ \A k \in DOMAIN o.alarm : o.alarm[k].leaves.lastChanged <= o.stats.lastChanged
    /\ \A k \in DOMAIN o.shelvedAlarm :
          o.shelvedAlarm[k].leaves.lastChanged <= o.stats.shelvedAlarmsLastChanged

(* No alarm changed after the stamp of its list.                           *)
Covers(alarms, alarmStamp, shelfStamp) ==
    /\ \A k \in Unshelved(alarms) : alarms[k].lastChanged <= alarmStamp
    /\ \A k \in Shelved(alarms) : alarms[k].lastChanged <= shelfStamp

Counted ==
    /\ m_edit.stats = Statistics(m_alarms, m_alarmListLastChanged, m_shelfListLastChanged)
    /\ Covers(m_alarms, m_alarmListLastChanged, m_shelfListLastChanged)

LEMMA StatisticsShown ==
    ASSUME NEW o, NEW alarms, NEW stampA, NEW stampS, IsFiniteSet(DOMAIN alarms),
           o.stats = Statistics(alarms, stampA, stampS), Covers(alarms, stampA, stampS),
           MirrorsAlarms(o.alarm, o.shelvedAlarm, alarms)
    PROVE  StatisticsShow(o)
  <1>1. /\ DOMAIN o.alarm = Unshelved(alarms) /\ DOMAIN o.shelvedAlarm = Shelved(alarms)
        /\ \A k \in Unshelved(alarms) :
              /\ o.alarm[k].leaves.perceivedSeverity = alarms[k].lastSeverity
              /\ o.alarm[k].leaves.isCleared = alarms[k].isCleared
              /\ o.alarm[k].leaves.lastChanged = alarms[k].lastChanged
        /\ \A k \in Shelved(alarms) :
              o.shelvedAlarm[k].leaves.lastChanged = alarms[k].lastChanged
    BY DEF MirrorsAlarms, MirrorsEntry
  <1>2. /\ o.stats.numberOfAlarms = Cardinality(Unshelved(alarms))
        /\ o.stats.numberOfShelvedAlarms = Cardinality(Shelved(alarms))
        /\ o.stats.lastChanged = stampA /\ o.stats.shelvedAlarmsLastChanged = stampS
        /\ o.stats.summary = Summary(alarms)
    BY DEF Statistics
  <1>3. ASSUME NEW s \in Severities
        PROVE  Summary(alarms)[s] =
                  [total      |-> Cardinality(Severe(o.alarm, s)),
                   cleared    |-> Cardinality(SevereCleared(o.alarm, s)),
                   notCleared |-> Cardinality(SevereNotCleared(o.alarm, s))]
    <2> DEFINE total == {k \in Unshelved(alarms) : alarms[k].lastSeverity = s}
               cleared == {k \in total : alarms[k].isCleared}
    <2>1. Summary(alarms)[s] = [total      |-> Cardinality(total),
                                cleared    |-> Cardinality(cleared),
                                notCleared |-> Cardinality(total) - Cardinality(cleared)]
      BY DEF Summary
    <2>2. total = Severe(o.alarm, s) /\ cleared = SevereCleared(o.alarm, s)
          /\ SevereNotCleared(o.alarm, s) = total \ cleared
      BY <1>1 DEF Severe, SevereCleared, SevereNotCleared
    <2>3. cleared \subseteq total /\ total \subseteq DOMAIN alarms
      BY DEF Unshelved
    <2> HIDE DEF total, cleared
    <2>4. IsFiniteSet(total)
      BY <2>3, FS_Subset
    <2>5. total \cap cleared = cleared
      BY <2>3
    <2>6. Cardinality(total \ cleared) = Cardinality(total) - Cardinality(cleared)
      BY <2>4, <2>5, FS_Difference
    <2> QED
      BY <2>1, <2>2, <2>6
  <1>4. /\ \A k \in DOMAIN o.alarm : o.alarm[k].leaves.lastChanged <= stampA
        /\ \A k \in DOMAIN o.shelvedAlarm : o.shelvedAlarm[k].leaves.lastChanged <= stampS
    BY <1>1 DEF Covers
  <1> QED
    BY <1>1, <1>2, <1>3, <1>4 DEF StatisticsShow

(* What the counters depend on.                                            *)
SameCounts(alarms, others) ==
    /\ DOMAIN alarms = DOMAIN others
    /\ \A k \in DOMAIN alarms : /\ alarms[k].shelf = others[k].shelf
                                 /\ alarms[k].lastSeverity = others[k].lastSeverity
                                 /\ alarms[k].isCleared = others[k].isCleared
                                 /\ alarms[k].lastChanged = others[k].lastChanged

LEMMA SameStatistics ==
    ASSUME NEW alarms, NEW others, SameCounts(alarms, others), NEW stampA, NEW stampS
    PROVE  /\ Statistics(alarms, stampA, stampS) = Statistics(others, stampA, stampS)
           /\ Covers(alarms, stampA, stampS) <=> Covers(others, stampA, stampS)
  <1>1. Unshelved(alarms) = Unshelved(others) /\ Shelved(alarms) = Shelved(others)
    BY DEF SameCounts, Unshelved, Shelved
  <1>2. \A k \in Unshelved(alarms) \cup Shelved(alarms) : k \in DOMAIN alarms
    BY DEF Unshelved, Shelved
  <1>3. Covers(alarms, stampA, stampS) <=> Covers(others, stampA, stampS)
    BY <1>1, <1>2 DEF SameCounts, Covers
  <1>4. ASSUME NEW s \in Severities PROVE Summary(alarms)[s] = Summary(others)[s]
    <2>1. {k \in Unshelved(alarms) : alarms[k].lastSeverity = s}
          = {k \in Unshelved(others) : others[k].lastSeverity = s}
      BY <1>1, <1>2 DEF SameCounts
    <2>2. {k \in {j \in Unshelved(alarms) : alarms[j].lastSeverity = s} : alarms[k].isCleared}
          = {k \in {j \in Unshelved(others) : others[j].lastSeverity = s} : others[k].isCleared}
      BY <1>1, <1>2 DEF SameCounts
    <2> QED
      BY <2>1, <2>2 DEF Summary
  <1>5. Summary(alarms) = Summary(others)
    <2>1. \A x : Summary(x) = [s \in Severities |-> Summary(x)[s]]
      BY DEF Summary
    <2> QED
      BY <1>4, <2>1
  <1> QED
    BY <1>1, <1>3, <1>5 DEF Statistics

LEMMA ShrunkCounts ==
    \A alarms, keys, max : SameCounts(ShrunkAlarms(alarms, keys, max), alarms)
  <1> SUFFICES ASSUME NEW alarms, NEW keys, NEW max
               PROVE  SameCounts(ShrunkAlarms(alarms, keys, max), alarms)
    OBVIOUS
  <1> DEFINE new == ShrunkAlarms(alarms, keys, max)
  <1>1. /\ DOMAIN new = DOMAIN alarms
        /\ \A k \in DOMAIN alarms : new[k] =
              IF k \in keys
                THEN [alarms[k] EXCEPT !.statusChanges = Shrunk(alarms[k].statusChanges, max)]
                ELSE alarms[k]
    BY DEF ShrunkAlarms
  <1> HIDE DEF new
  <1>2. ASSUME NEW k \in DOMAIN alarms
        PROVE  /\ new[k].shelf = alarms[k].shelf /\ new[k].lastSeverity = alarms[k].lastSeverity
               /\ new[k].isCleared = alarms[k].isCleared
               /\ new[k].lastChanged = alarms[k].lastChanged
    <2> DEFINE shorter == Shrunk(alarms[k].statusChanges, max)
    <2>1. new[k] = IF k \in keys THEN [alarms[k] EXCEPT !.statusChanges = shorter] ELSE alarms[k]
      BY <1>1
    <2> HIDE DEF shorter
    <2> QED
      BY <2>1
  <1> QED
    BY <1>1, <1>2 DEF SameCounts, new

LEMMA LatestCovers ==
    ASSUME NEW stamp \in Nat, NEW instants \in SUBSET Nat,
           \/ \A t \in instants : t <= stamp
           \/ \E m \in instants : \A t \in instants : t <= m
    PROVE  \A t \in instants : t <= Latest(stamp, instants)
  <1> DEFINE IsLatest(t) == t >= stamp /\ \A u \in instants : u <= t
  <1>1. CASE \E t \in instants : IsLatest(t)
    <2> DEFINE m == CHOOSE t \in instants : IsLatest(t)
    <2>1. m \in instants /\ IsLatest(m)
      BY <1>1
    <2>2. Latest(stamp, instants) = m
      BY <1>1 DEF Latest
    <2> HIDE DEF m
    <2> QED
      BY <2>1, <2>2
  <1>2. CASE ~ \E t \in instants : IsLatest(t)
    <2>1. Latest(stamp, instants) = stamp
      BY <1>2 DEF Latest
    <2>2. ASSUME NEW m \in instants, \A t \in instants : t <= m
          PROVE  \A t \in instants : t <= stamp
      <3>1. m \in Nat /\ ~(m >= stamp)
        BY <1>2, <2>2
      <3> QED
        BY <2>2, <3>1
    <2> QED
      BY <2>1, <2>2
  <1> QED
    BY <1>1, <1>2

(* The stamp that updateStatistics() gives to the list of keys.            *)
LEMMA StampCovers ==
    ASSUME NEW alarms, NEW keys \in SUBSET DOMAIN alarms, NEW stamp \in Nat,
           \A k \in keys : alarms[k].lastChanged \in Nat,
           \/ \A k \in keys : alarms[k].lastChanged <= stamp
           \/ \E m \in keys : \A k \in keys : alarms[k].lastChanged <= alarms[m].lastChanged
    PROVE  \A k \in keys : alarms[k].lastChanged <= LatestChange(stamp, alarms, keys)
  <1> DEFINE instants == {alarms[k].lastChanged : k \in keys}
  <1>1. instants \in SUBSET Nat /\ \A k \in keys : alarms[k].lastChanged \in instants
    OBVIOUS
  <1>2. \/ \A t \in instants : t <= stamp
        \/ \E m \in instants : \A t \in instants : t <= m
    OBVIOUS
  <1>3. LatestChange(stamp, alarms, keys) = Latest(stamp, instants)
    BY DEF LatestChange
  <1> HIDE DEF instants
  <1> QED
    BY <1>1, <1>2, <1>3, LatestCovers

(* The instants of a list have a latest that the stamp can be set to, or   *)
(* the stamp covers them already.                                          *)
Coverable(alarms, keys, stamp) ==
    \/ \A k \in keys : alarms[k].lastChanged <= stamp
    \/ \E m \in keys : \A k \in keys : alarms[k].lastChanged <= alarms[m].lastChanged

(* There is no need for the clock to go forward: the instants are bounded, *)
(* so one of them is the latest.                                           *)
LEMMA BoundedCoverable ==
    ASSUME NEW alarms, NEW bound \in Nat,
           \A k \in DOMAIN alarms : alarms[k].lastChanged \in 0..bound,
           NEW keys \in SUBSET DOMAIN alarms, NEW stamp
    PROVE  Coverable(alarms, keys, stamp)
  <1>1. CASE keys = {}
    BY <1>1 DEF Coverable
  <1>2. CASE keys # {}
    <2> DEFINE bounds == {n \in Nat : \A k \in keys : alarms[k].lastChanged <= n}
    <2>1. \A k \in keys : alarms[k].lastChanged \in Nat /\ alarms[k].lastChanged <= bound
      OBVIOUS
    <2>2. bounds \subseteq Nat /\ bounds # {}
      BY <2>1
    <2>3. PICK n \in bounds : \A m \in bounds : n <= m
      BY <2>2, SmallestOf
    <2>4. PICK k \in keys : TRUE
      BY <1>2
    <2>5. ASSUME \A m \in keys : alarms[m].lastChanged # n PROVE FALSE
      <3>1. \A m \in keys : alarms[m].lastChanged < n
        BY <2>1, <2>3, <2>5
      <3>2. n - 1 \in Nat /\ \A m \in keys : alarms[m].lastChanged <= n - 1
        BY <2>1, <2>3, <2>4, <3>1
      <3>3. n <= n - 1
        BY <2>3, <3>2
      <3> QED
        BY <2>3, <3>3
    <2> QED
      BY <2>3, <2>5 DEF Coverable
  <1> QED
    BY <1>1, <1>2

LEMMA UpdateCounts ==
    ASSUME NEW alarms, NEW rowsA, NEW rowsS, NEW stampA \in Nat, NEW stampS \in Nat,
           NEW bound \in Nat, \A k \in DOMAIN alarms : alarms[k].lastChanged \in 0..bound,
           updateStatistics(alarms, rowsA, rowsS, stampA, stampS),
           SameCounts(m_alarms', alarms)
    PROVE  Counted'
  <1>1. /\ m_alarmListLastChanged' = LatestChange(stampA, alarms, Unshelved(alarms))
        /\ m_shelfListLastChanged' = LatestChange(stampS, alarms, Shelved(alarms))
        /\ m_edit'.stats = Statistics(alarms, m_alarmListLastChanged', m_shelfListLastChanged')
    BY DEF updateStatistics
  <1>2. Unshelved(alarms) \in SUBSET DOMAIN alarms /\ Shelved(alarms) \in SUBSET DOMAIN alarms
    BY DEF Unshelved, Shelved
  <1>3. \A k \in DOMAIN alarms : alarms[k].lastChanged \in Nat
    OBVIOUS
  <1>4. /\ Coverable(alarms, Unshelved(alarms), stampA)
        /\ Coverable(alarms, Shelved(alarms), stampS)
    BY <1>2, BoundedCoverable
  <1>5. \A k \in Unshelved(alarms) :
           alarms[k].lastChanged <= LatestChange(stampA, alarms, Unshelved(alarms))
    BY <1>2, <1>3, <1>4, StampCovers DEF Coverable
  <1>6. \A k \in Shelved(alarms) :
           alarms[k].lastChanged <= LatestChange(stampS, alarms, Shelved(alarms))
    BY <1>2, <1>3, <1>4, StampCovers DEF Coverable
  <1>7. Covers(alarms, m_alarmListLastChanged', m_shelfListLastChanged')
    BY <1>1, <1>5, <1>6 DEF Covers
  <1>8. /\ m_edit'.stats = Statistics(m_alarms', m_alarmListLastChanged', m_shelfListLastChanged')
        /\ Covers(m_alarms', m_alarmListLastChanged', m_shelfListLastChanged')
    BY <1>1, <1>7, SameStatistics
  <1> QED
    BY <1>8 DEF Counted, Covers, Statistics, Summary, Unshelved, Shelved

LEMMA SameCounted ==
    ASSUME Counted, SameCounts(m_alarms', m_alarms),
           UNCHANGED <<m_alarmListLastChanged, m_shelfListLastChanged>>,
           m_edit'.stats = m_edit.stats
    PROVE  Counted'
  <1>1. /\ m_edit'.stats = Statistics(m_alarms', m_alarmListLastChanged', m_shelfListLastChanged')
        /\ Covers(m_alarms', m_alarmListLastChanged', m_shelfListLastChanged')
    BY SameStatistics DEF Counted
  <1> QED
    BY <1>1 DEF Counted, Covers, Statistics, Summary, Unshelved, Shelved

LEMMA CountedStep ==
    ASSUME IInv, Counted, [Next]_vars PROVE Counted'
  <1>0. /\ \A k \in DOMAIN m_alarms : m_alarms[k].lastChanged \in Nat
        /\ Now \in Nat /\ m_alarmListLastChanged \in Nat /\ m_shelfListLastChanged \in Nat
    BY DEF IInv, TypeOK, CacheType, AlarmsType, AlarmEntryType, Time, Now
  <1>1. PICK bound \in Nat : /\ Now \in 0..bound
                             /\ \A k \in DOMAIN m_alarms : m_alarms[k].lastChanged \in 0..bound
    <2> DEFINE bound == Now + m_alarmListLastChanged + m_shelfListLastChanged
    <2>1. \A k \in DOMAIN m_alarms : \/ m_alarms[k].lastChanged <= m_alarmListLastChanged
                                     \/ m_alarms[k].lastChanged <= m_shelfListLastChanged
      BY DEF Counted, Covers, Unshelved, Shelved
    <2>2. /\ bound \in Nat /\ Now \in 0..bound
          /\ \A k \in DOMAIN m_alarms : m_alarms[k].lastChanged \in 0..bound
      BY <1>0, <2>1
    <2> QED
      BY <2>2
  <1>2. \A alarms : SameCounts(alarms, alarms)
    BY DEF SameCounts
  <1>3. ASSUME UNCHANGED cache PROVE Counted'
    BY <1>2, <1>3, SameCounted DEF cache
  <1>4. ASSUME NEW input \in Submissions, SubmitUnchanged(input) PROVE Counted'
    <2>1. input.key \in DOMAIN m_alarms /\ WhatChanged(input).entry = m_alarms[input.key]
      BY <1>4, WhatChangedFacts DEF SubmitUnchanged
    <2>2. SameCounts(m_alarms', m_alarms)
      <3>1. /\ DOMAIN m_alarms' = DOMAIN m_alarms
            /\ \A k \in DOMAIN m_alarms : m_alarms'[k] = m_alarms[k]
        BY <1>4, <2>1 DEF SubmitUnchanged, Put
      <3> QED
        BY <3>1 DEF SameCounts
    <2> QED
      BY <1>4, <2>2, SameCounted DEF SubmitUnchanged
  <1>5. ASSUME NEW input \in Submissions, NEW fails \in BOOLEAN, SubmitChanged(input, fails)
        PROVE  Counted'
    <2> DEFINE key == input.key
               entry == WhatChanged(input).entry
               alarms == Put(m_alarms, key, entry)
               newA == UpdatedAlarmRows(input, WhatChanged(input))
               newS == UpdatedShelvedRows(input, WhatChanged(input))
    <2>1. /\ m_alarms' = alarms
          /\ updateStatistics(alarms, newA, newS, m_alarmListLastChanged, m_shelfListLastChanged)
          /\ WhatChanged(input).changed
      BY <1>5 DEF SubmitChanged
    <2>2. entry.lastChanged = Now
      BY <2>1 DEF WhatChanged, updateByRpc
    <2> HIDE DEF entry, newA, newS
    <2>4. /\ DOMAIN alarms = DOMAIN m_alarms \cup {key} /\ alarms[key] = entry
          /\ \A k \in DOMAIN m_alarms : k # key => alarms[k] = m_alarms[k]
      BY DEF Put
    <2> HIDE DEF alarms
    <2>5. \A k \in DOMAIN alarms : alarms[k].lastChanged \in 0..bound
      BY <1>1, <2>2, <2>4
    <2> QED
      BY <1>0, <1>2, <2>1, <2>5, UpdateCounts
  <1>6. ASSUME NEW shelved \in BOOLEAN, NEW filter \in PurgeInputs, NEW fails \in BOOLEAN,
               Purge(shelved, filter, fails)
        PROVE  Counted'
    <2> DEFINE purged == Purged(shelved, filter)
               alarms == Without(m_alarms, purged)
               newA == IF shelved THEN m_edit.alarm ELSE Without(m_edit.alarm, purged)
               newS == IF shelved THEN Without(m_edit.shelvedAlarm, purged)
                                  ELSE m_edit.shelvedAlarm
               stampA == IF shelved THEN m_alarmListLastChanged ELSE Now
               stampS == IF shelved THEN Now ELSE m_shelfListLastChanged
    <2>1. m_alarms' = alarms /\ updateStatistics(alarms, newA, newS, stampA, stampS)
      BY <1>6 DEF Purge
    <2>2. /\ DOMAIN alarms \subseteq DOMAIN m_alarms
          /\ \A k \in DOMAIN alarms : alarms[k] = m_alarms[k]
      BY DEF Without
    <2> HIDE DEF alarms, newA, newS
    <2>3. \A k \in DOMAIN alarms : alarms[k].lastChanged \in 0..bound
      BY <1>1, <2>2
    <2>4. stampA \in Nat /\ stampS \in Nat
      BY <1>0
    <2> HIDE DEF stampA, stampS
    <2> QED
      BY <1>1, <1>2, <2>1, <2>3, <2>4, UpdateCounts
  <1>7. ASSUME NEW shelved \in BOOLEAN, NEW filter \in CompressInputs, NEW fails \in BOOLEAN,
               Compress(shelved, filter, fails)
        PROVE  Counted'
    BY <1>7, ShrunkCounts, SameCounted DEF Compress, EditWith
  <1>8. ASSUME NEW fails \in BOOLEAN, ControlChanged(fails) PROVE Counted'
    <2> DEFINE changes     == Head(controlEvents)
               reshelves   == "alarm-shelving" \in DOMAIN changes
               rules       == IF reshelves THEN running.shelves ELSE m_shelvingRules
               moved       == reshelves /\ Moved(rules) # {}
               crossed     == moved /\ Unshelves(rules) \cup Shelves(rules) # {}
               alarms      == IF moved THEN ReshelvedAlarms(rules) ELSE m_alarms
               alarmRows   == IF moved THEN ReshelvedAlarmRows(rules) ELSE m_edit.alarm
               shelvedRows == IF moved THEN ReshelvedShelvedRows(rules)
                                       ELSE m_edit.shelvedAlarm
               max         == m_maxAlarmStatusChanges'
               overlong    == IF LimitShrinks(changes)
                                THEN Overlong(alarms, DOMAIN alarms, max) ELSE {}
               newA == UnlinkedRows(alarmRows, alarms, overlong \cap Unshelved(alarms), max)
               newS == UnlinkedRows(shelvedRows, alarms, overlong \cap Shelved(alarms), max)
               stampA == IF crossed THEN Now ELSE m_alarmListLastChanged
    <2>1. /\ moved => updateStatistics(alarms, newA, newS, stampA, Now)
          /\ ~moved => /\ m_edit' = EditWith(newA, newS)
                       /\ UNCHANGED <<m_alarmListLastChanged, m_shelfListLastChanged>>
          /\ m_alarms' = ShrunkAlarms(alarms, overlong, max)
      BY <1>8 DEF ControlChanged
    <2> HIDE DEF newA, newS, overlong, max
    <2>2. SameCounts(m_alarms', alarms)
      BY <2>1, ShrunkCounts
    <2>3. CASE ~moved
      BY <2>1, <2>2, <2>3, SameCounted DEF EditWith
    <2>4. CASE moved
      <3>1. /\ DOMAIN alarms = DOMAIN m_alarms
            /\ \A k \in DOMAIN m_alarms : alarms[k] =
                  IF k \in Moved(rules)
                    THEN [m_alarms[k] EXCEPT !.shelf = findMatchingShelf(k, rules)]
                    ELSE m_alarms[k]
        BY <2>4 DEF ReshelvedAlarms
      <3> HIDE DEF alarms
      <3>2. ASSUME NEW k \in DOMAIN m_alarms PROVE alarms[k].lastChanged = m_alarms[k].lastChanged
        <4>1. m_alarms[k] \in AlarmEntryType
          BY DEF IInv, TypeOK, CacheType, AlarmsType
        <4> QED
          BY <3>1, <4>1 DEF AlarmEntryType
      <3>3. \A k \in DOMAIN alarms : alarms[k].lastChanged \in 0..bound
        BY <1>1, <3>1, <3>2
      <3>4. stampA \in Nat
        BY <1>0
      <3> HIDE DEF stampA
      <3> QED
        BY <1>0, <1>1, <2>1, <2>2, <2>4, <3>3, <3>4, UpdateCounts
    <2> QED
      BY <2>3, <2>4
  <1>9. CASE submitAlarm
    BY <1>3, <1>4, <1>5, <1>9 DEF submitAlarm, RefuseClient, SubmitBadKey, SubmitReadFails,
                                  SubmitNotInInventory, SubmitRedundantClear
  <1>10. CASE purgeAlarms
    BY <1>3, <1>6, <1>10 DEF purgeAlarms, PurgeNothing
  <1>11. CASE compressAlarms
    BY <1>3, <1>7, <1>11 DEF compressAlarms, CompressNothing
  <1>12. CASE controlCallback
    BY <1>8, <1>12 DEF controlCallback
  <1>13. CASE InventoryChanged \/ Environment
    BY <1>3, <1>13 DEF InventoryChanged, Environment, EditControl, EditInventory
  <1>14. CASE UNCHANGED vars
    BY <1>3, <1>14 DEF vars
  <1> QED
    BY <1>9, <1>10, <1>11, <1>12, <1>13, <1>14 DEF Next

(* What was published last counts its own rows, and so does the edit.      *)
Right == Counted /\ StatisticsShow(oper)

LEMMA EditRight == IInv /\ Counted => StatisticsShow(m_edit)
  BY StatisticsShown DEF IInv, Coherent, Counted

LEMMA InitRight == Init => Right
  <1> SUFFICES ASSUME Init PROVE Right
    OBVIOUS
  <1>1. Unshelved(NoRows) = {} /\ Shelved(NoRows) = {}
    BY DEF Unshelved, Shelved, NoRows
  <1>2. Counted
    BY <1>1 DEF Init, Counted, Covers
  <1> QED
    BY <1>2, EditRight, InitIInv DEF Init, Right

LEMMA RightStep == ASSUME IInv, IInv', Right, [Next]_vars PROVE Right'
  <1>1. Counted'
    BY CountedStep DEF Right
  <1>2. StatisticsShow(m_edit')
    BY <1>1, StatisticsShown DEF IInv, Coherent, Counted
  <1>3. oper' = oper \/ oper' = m_edit'
    BY KeptOrReplaced
  <1>4. StatisticsShow(oper')
    BY <1>2, <1>3 DEF Right
  <1>5. StatisticsShow(oper)'
    BY <1>4 DEF StatisticsShow, Severe, SevereCleared, SevereNotCleared
  <1> QED
    BY <1>1, <1>5 DEF Right

LEMMA RightMatches == Right => StatisticsMatchRows
  BY DEF Right, StatisticsShow, Severe, SevereCleared, SevereNotCleared, StatisticsMatchRows

(* The published counters equal the published rows, and the stamps are no  *)
(* older than any of their changes, even while publications fail: no       *)
(* handler forgets updateStatistics().                                     *)
THEOREM StatisticsAreRight == Spec => []StatisticsMatchRows
  <1>1. IInv /\ IInv' /\ Right /\ [Next]_vars => Right'
    BY RightStep
  <1> QED
    BY <1>1, InitRight, RightMatches, Invariance, PTL DEF Spec
=============================================================================
