----------------------------- MODULE ListProofs -----------------------------
(***************************************************************************)
(* Daemon implements AlarmList, for every value of the constants, as long  *)
(* as publications do not fail.  The edit is what is published, and by the *)
(* invariant of DaemonProofs the edit mirrors the cache: the list that a   *)
(* client sees is a function of m_alarms, and the proof follows m_alarms.  *)
(***************************************************************************)
EXTENDS DaemonProofs

(* A tree that EditWith() with no unlinked rows leaves as it is.           *)
WholeEdit(edit) ==
    /\ edit = [alarm |-> edit.alarm, shelvedAlarm |-> edit.shelvedAlarm, stats |-> edit.stats]
    /\ IsFunction(edit.alarm) /\ IsFunction(edit.shelvedAlarm)

LEMMA BuiltByFunctions ==
    /\ \A f, k, v : IsFunction(Put(f, k, v))
    /\ \A f, K : IsFunction(Without(f, K))
    /\ \A rows, alarms, keys, max : IsFunction(UnlinkedRows(rows, alarms, keys, max))
    /\ \A rules : IsFunction(ReshelvedAlarmRows(rules)) /\ IsFunction(ReshelvedShelvedRows(rules))
  BY DEF IsFunction, Put, Without, UnlinkedRows, ReshelvedAlarmRows, ReshelvedShelvedRows

LEMMA NothingUnlinked ==
    \A rows, alarms, max : IsFunction(rows) => UnlinkedRows(rows, alarms, {}, max) = rows
  BY DEF IsFunction, UnlinkedRows

(* A handler that publishes what it made of the edit.                      *)
LEMMA PublishedWhole ==
    ASSUME ~ApplyMayFail, NEW fails \in BOOLEAN, Publish(fails) PROVE oper' = m_edit' /\ ~fails
  BY DEF Publish

LEMMA StatisticsWhole ==
    ASSUME NEW alarms, NEW rowsA, NEW rowsS, NEW stampA, NEW stampS,
           IsFunction(rowsA), IsFunction(rowsS),
           updateStatistics(alarms, rowsA, rowsS, stampA, stampS)
    PROVE  WholeEdit(m_edit')
  <1> DEFINE stats == Statistics(alarms, m_alarmListLastChanged', m_shelfListLastChanged')
  <1>1. m_edit' = [alarm |-> rowsA, shelvedAlarm |-> rowsS, stats |-> stats]
    BY DEF updateStatistics
  <1> HIDE DEF stats
  <1> QED
    BY <1>1 DEF WholeEdit

LEMMA EditWithWhole ==
    ASSUME NEW rowsA, NEW rowsS, IsFunction(rowsA), IsFunction(rowsS)
    PROVE  WholeEdit(EditWith(rowsA, rowsS))
  BY DEF WholeEdit, EditWith

InStep == EditPublished /\ WholeEdit(m_edit)

LEMMA InitInStep == Init => InStep
  BY DEF Init, InStep, EditPublished, WholeEdit, IsFunction, NoRows

LEMMA InStepStep ==
    ASSUME ~ApplyMayFail, InStep, [Next]_vars PROVE InStep'
  <1> USE DEF InStep, EditPublished
  <1>1. ASSUME UNCHANGED <<m_edit, oper>> PROVE InStep'
    BY <1>1
  <1>2. ASSUME NEW input \in Submissions, NEW fails \in BOOLEAN, SubmitChanged(input, fails)
        PROVE  InStep'
    <2> DEFINE res  == WhatChanged(input)
               newA == UpdatedAlarmRows(input, res)
               newS == UpdatedShelvedRows(input, res)
    <2>1. IsFunction(newA) /\ IsFunction(newS)
      BY BuiltByFunctions DEF WholeEdit, UpdatedAlarmRows, UpdatedShelvedRows
    <2>2. updateStatistics(Put(m_alarms, input.key, res.entry), newA, newS,
                           m_alarmListLastChanged, m_shelfListLastChanged)
          /\ Publish(fails)
      BY <1>2 DEF SubmitChanged
    <2> HIDE DEF res, newA, newS
    <2> QED
      BY <2>1, <2>2, StatisticsWhole, PublishedWhole
  <1>3. ASSUME NEW shelved \in BOOLEAN, NEW filter \in PurgeInputs, NEW fails \in BOOLEAN,
               Purge(shelved, filter, fails)
        PROVE  InStep'
    <2> DEFINE purged == Purged(shelved, filter)
               newA == IF shelved THEN m_edit.alarm ELSE Without(m_edit.alarm, purged)
               newS == IF shelved THEN Without(m_edit.shelvedAlarm, purged)
                                  ELSE m_edit.shelvedAlarm
               stampA == IF shelved THEN m_alarmListLastChanged ELSE Now
               stampS == IF shelved THEN Now ELSE m_shelfListLastChanged
    <2>1. IsFunction(newA) /\ IsFunction(newS)
      BY BuiltByFunctions DEF WholeEdit
    <2>2. updateStatistics(Without(m_alarms, purged), newA, newS, stampA, stampS)
          /\ Publish(fails)
      BY <1>3 DEF Purge
    <2> HIDE DEF newA, newS, stampA, stampS
    <2> QED
      BY <2>1, <2>2, StatisticsWhole, PublishedWhole
  <1>4. ASSUME NEW shelved \in BOOLEAN, NEW filter \in CompressInputs, NEW fails \in BOOLEAN,
               Compress(shelved, filter, fails)
        PROVE  InStep'
    BY <1>4, BuiltByFunctions, EditWithWhole, PublishedWhole DEF Compress
  <1>5. ASSUME NEW fails \in BOOLEAN, ControlChanged(fails) PROVE InStep'
    <2> DEFINE changes     == Head(controlEvents)
               reshelves   == "alarm-shelving" \in DOMAIN changes
               rules       == IF reshelves THEN running.shelves ELSE m_shelvingRules
               moved       == reshelves /\ Moved(rules) # {}
               crossed     == moved /\ Unshelves(rules) \cup Shelves(rules) # {}
               alarms      == IF moved THEN ReshelvedAlarms(rules) ELSE m_alarms
               alarmRows   == IF moved THEN ReshelvedAlarmRows(rules) ELSE m_edit.alarm
               shelvedRows == IF moved THEN ReshelvedShelvedRows(rules)
                                       ELSE m_edit.shelvedAlarm
               max         == m_maxAlarmStatusChanges'
               overlong    == IF LimitShrinks(changes)
                                THEN Overlong(alarms, DOMAIN alarms, max) ELSE {}
               newA == UnlinkedRows(alarmRows, alarms, overlong \cap Unshelved(alarms), max)
               newS == UnlinkedRows(shelvedRows, alarms, overlong \cap Shelved(alarms), max)
               stampA == IF crossed THEN Now ELSE m_alarmListLastChanged
    <2>1. /\ moved => updateStatistics(alarms, newA, newS, stampA, Now)
          /\ ~moved => m_edit' = EditWith(newA, newS)
          /\ IF moved \/ overlong # {} THEN Publish(fails) ELSE ~fails /\ UNCHANGED oper
      BY <1>5 DEF ControlChanged
    <2>2. IsFunction(newA) /\ IsFunction(newS)
      BY BuiltByFunctions
    <2>3. ~moved => alarmRows = m_edit.alarm /\ shelvedRows = m_edit.shelvedAlarm
      OBVIOUS
    <2>4. ~moved /\ overlong = {} => newA = m_edit.alarm /\ newS = m_edit.shelvedAlarm
      <3> SUFFICES ASSUME ~moved, overlong = {}
                   PROVE  newA = m_edit.alarm /\ newS = m_edit.shelvedAlarm
        OBVIOUS
      <3>1. overlong \cap Unshelved(alarms) = {} /\ overlong \cap Shelved(alarms) = {}
        OBVIOUS
      <3> QED
        BY <2>3, <3>1, NothingUnlinked DEF WholeEdit
    <2> HIDE DEF newA, newS, stampA, moved, overlong
    <2>5. WholeEdit(m_edit')
      BY <2>1, <2>2, StatisticsWhole, EditWithWhole
    <2>6. CASE moved \/ overlong # {}
      BY <2>1, <2>5, <2>6, PublishedWhole
    <2>7. CASE ~moved /\ overlong = {}
      <3>1. m_edit' = m_edit
        BY <2>1, <2>4, <2>7 DEF WholeEdit, EditWith
      <3> QED
        BY <2>1, <2>5, <2>7, <3>1
    <2> QED
      BY <2>6, <2>7
  <1>6. CASE submitAlarm
    BY <1>1, <1>2, <1>6 DEF submitAlarm, RefuseClient, SubmitBadKey, SubmitReadFails, SubmitNotInInventory,
                            SubmitRedundantClear, SubmitUnchanged, cache
  <1>7. CASE purgeAlarms
    BY <1>1, <1>3, <1>7 DEF purgeAlarms, PurgeNothing, cache
  <1>8. CASE compressAlarms
    BY <1>1, <1>4, <1>8 DEF compressAlarms, CompressNothing, cache
  <1>9. CASE controlCallback
    BY <1>5, <1>9 DEF controlCallback
  <1>10. CASE InventoryChanged \/ Environment
    BY <1>1, <1>10 DEF InventoryChanged, Environment, EditControl, EditInventory, cache
  <1>11. CASE UNCHANGED vars
    BY <1>1, <1>11 DEF vars, cache
  <1> QED
    BY <1>6, <1>7, <1>8, <1>9, <1>10, <1>11 DEF Next

(* As long as applyChanges() does not fail, no handler changes the edit    *)
(* without publishing it before it answers.                                *)
THEOREM EditIsPublished == ~ApplyMayFail => (Spec => []EditPublished)
  <1> SUFFICES ASSUME ~ApplyMayFail PROVE Spec => []EditPublished
    OBVIOUS
  <1>1. InStep => EditPublished
    BY DEF InStep
  <1> QED
    BY <1>1, InitInStep, InStepStep, PTL DEF Spec
-----------------------------------------------------------------------------
(* The refinement *)

StateOf(entry) ==
    [severity |-> entry.lastSeverity, cleared |-> entry.isCleared, text |-> entry.text,
     raised   |-> entry.lastRaised,   changed |-> entry.lastChanged]

ListOf(alarms) ==
    [k \in DOMAIN alarms |-> [shelf |-> alarms[k].shelf, state |-> StateOf(alarms[k])]]

LEMMA MirroredIsSeen ==
    ASSUME NEW o, NEW alarms, MirrorsAlarms(o.alarm, o.shelvedAlarm, alarms)
    PROVE  Seen(o) = ListOf(alarms)
  <1>1. /\ DOMAIN o.alarm = Unshelved(alarms) /\ DOMAIN o.shelvedAlarm = Shelved(alarms)
        /\ \A k \in Unshelved(alarms) : MirrorsEntry(o.alarm[k].leaves, alarms[k])
        /\ \A k \in Shelved(alarms) : /\ MirrorsEntry(o.shelvedAlarm[k].leaves, alarms[k])
                                      /\ o.shelvedAlarm[k].shelfName = alarms[k].shelf
    BY DEF MirrorsAlarms
  <1>2. Listed(o) = DOMAIN alarms
    BY <1>1 DEF Listed, Unshelved, Shelved
  <1>3. ASSUME NEW k \in DOMAIN alarms
        PROVE  (IF k \in DOMAIN o.alarm
                  THEN [shelf |-> None, state |-> Shown(o.alarm[k].leaves)]
                  ELSE [shelf |-> o.shelvedAlarm[k].shelfName,
                        state |-> Shown(o.shelvedAlarm[k].leaves)])
               = [shelf |-> alarms[k].shelf, state |-> StateOf(alarms[k])]
    <2>1. CASE k \in Unshelved(alarms)
      BY <1>1, <2>1 DEF Unshelved, MirrorsEntry, Shown, StateOf
    <2>2. CASE k \in Shelved(alarms)
      BY <1>1, <2>2 DEF Unshelved, Shelved, MirrorsEntry, Shown, StateOf
    <2> QED
      BY <2>1, <2>2 DEF Unshelved, Shelved
  <1> QED
    BY <1>2, <1>3 DEF Seen, ListOf

(* What a client sees in a state and in the next.                          *)
Related ==
    /\ Seen(oper) = ListOf(m_alarms) /\ Seen(oper)' = ListOf(m_alarms)'
    /\ IsFiniteSet(DOMAIN m_alarms)
    /\ AlarmsType(m_alarms) /\ HistoriesOrdered(m_alarms, clock) /\ clock \in Nat

LEMMA BothSeen ==
    ASSUME IInv, Ordered, InStep, IInv', InStep' PROVE Related
  <1>1. /\ MirrorsAlarms(oper.alarm, oper.shelvedAlarm, m_alarms)
        /\ MirrorsAlarms(oper'.alarm, oper'.shelvedAlarm, m_alarms')
    BY DEF IInv, Coherent, InStep, EditPublished
  <1>2. Seen(oper) = ListOf(m_alarms) /\ Seen(oper') = ListOf(m_alarms')
    BY <1>1, MirroredIsSeen
  <1>3. Seen(oper)' = Seen(oper') /\ ListOf(m_alarms)' = ListOf(m_alarms')
    BY DEF Seen, ListOf, Shown, Listed, StateOf
  <1> QED
    BY <1>2, <1>3 DEF Related, Ordered, IInv, TypeOK, CacheType, Time

(* One update of one alarm, as its entry shows it.                         *)
LEMMA UpdateShown ==
    ASSUME Related, IInv, NEW input \in Submissions, NEW fails \in BOOLEAN,
           SubmitChanged(input, fails),
           NEW entry, entry = WhatChanged(input).entry
    PROVE  /\ entry \in AlarmEntryType /\ entry.lastChanged = Now
           /\ input.key \notin DOMAIN m_alarms =>
                 ~entry.isCleared /\ entry.lastRaised = Now
           /\ input.key \in DOMAIN m_alarms =>
                 LET old == m_alarms[input.key] IN
                 /\ entry.shelf = old.shelf
                 /\ entry.isCleared => ~old.isCleared /\ entry.lastSeverity = old.lastSeverity
                 /\ \/ entry.isCleared # old.isCleared
                    \/ entry.lastSeverity # old.lastSeverity
                    \/ entry.text # old.text
                 /\ entry.lastRaised = IF old.isCleared THEN Now ELSE old.lastRaised
  <1> DEFINE key == input.key
             wasPresent == key \in DOMAIN m_alarms
             old == IF wasPresent THEN m_alarms[key] ELSE DefaultEntry
             res == updateByRpc(old, wasPresent, Now, input, ShelfFor(key),
                                m_notifyStatusChanges, m_notifySeverityThreshold,
                                m_maxAlarmStatusChanges)
  <1>1. /\ ~IsRedundantClear(input) /\ WhatChanged(input).changed
        /\ HasXPathIndex(input.key)
    BY DEF SubmitChanged
  <1>2. entry \in AlarmEntryType
    BY <1>1, WhatChangedFacts
  <1>3. WhatChanged(input) = res
    BY DEF WhatChanged
  <1>4. /\ res.changed <=> \/ wasPresent /\ old.isCleared # (input.severity = ClearedSeverity)
                          \/ input.text # old.text
                          \/ input.severity # IF wasPresent THEN old.lastSeverity ELSE -1
        /\ res.changed =>
             /\ res.entry.lastChanged = Now
             /\ res.entry.isCleared = (input.severity = ClearedSeverity)
             /\ res.entry.text = input.text
             /\ wasPresent => res.entry.shelf = old.shelf
             /\ res.entry.lastSeverity =
                   StoredSeverity(input.severity, IF wasPresent THEN old.lastSeverity ELSE -1)
             /\ res.entry.lastRaised =
                   IF IsRaise(old, wasPresent, input.severity = ClearedSeverity)
                     THEN Now ELSE old.lastRaised
    BY DEF updateByRpc
  <1>5. input.severity \in Severities \cup {ClearedSeverity}
    BY InputAssumption
  <1>6. wasPresent => old = m_alarms[key] /\ old.isCleared \in BOOLEAN
    BY DEF Related, AlarmsType, AlarmEntryType
  <1> HIDE DEF res, old, wasPresent
  <1>7. /\ entry = res.entry /\ res.changed
        /\ input.severity = ClearedSeverity => wasPresent /\ ~old.isCleared
    BY <1>1, <1>3, <1>6 DEF IsRedundantClear, wasPresent
  <1>8. CASE ~wasPresent
    BY <1>2, <1>4, <1>7, <1>8 DEF IsRaise, wasPresent
  <1>9. CASE wasPresent
    <2>1. CASE input.severity = ClearedSeverity
      BY <1>2, <1>4, <1>6, <1>7, <1>9, <2>1
         DEF IsRaise, StoredSeverity, wasPresent, ClearedSeverity
    <2>2. CASE input.severity # ClearedSeverity
      <3>1. entry.lastSeverity = input.severity
        BY <1>4, <1>5, <1>7, <2>2 DEF StoredSeverity, ClearedSeverity, Severities
      <3> QED
        BY <1>2, <1>4, <1>6, <1>7, <1>9, <2>2, <3>1 DEF IsRaise, wasPresent
    <2> QED
      BY <2>1, <2>2
  <1> QED
    BY <1>8, <1>9

LEMMA SubmitImplements ==
    ASSUME Related, IInv, NEW input \in Submissions, SubmitChanged(input, FALSE)
    PROVE  Published!Next
  <1> DEFINE key == input.key
             entry == WhatChanged(input).entry
             row == [shelf |-> entry.shelf, state |-> StateOf(entry)]
             old == m_alarms[key]
  <1>1. /\ m_alarms' = Put(m_alarms, key, entry)
        /\ Seen(oper) = ListOf(m_alarms) /\ Seen(oper)' = ListOf(m_alarms)'
    BY DEF SubmitChanged, Related
  <1>2. /\ entry \in AlarmEntryType /\ entry.lastChanged = Now
        /\ key \notin DOMAIN m_alarms => ~entry.isCleared /\ entry.lastRaised = Now
        /\ key \in DOMAIN m_alarms =>
              /\ entry.shelf = old.shelf
              /\ entry.isCleared => ~old.isCleared /\ entry.lastSeverity = old.lastSeverity
              /\ \/ entry.isCleared # old.isCleared
                 \/ entry.lastSeverity # old.lastSeverity
                 \/ entry.text # old.text
              /\ entry.lastRaised = IF old.isCleared THEN Now ELSE old.lastRaised
    BY UpdateShown
  <1> HIDE DEF entry
  <1>3. Seen(oper)' = [x \in DOMAIN m_alarms \cup {key} |->
                         IF x = key THEN row ELSE ListOf(m_alarms)[x]]
    BY <1>1 DEF ListOf, Put
  <1>4. row \in Published!Row
    BY <1>2 DEF Published!Row, Published!State, AlarmEntryType, StateOf, Time
  <1>5. \A x \in DOMAIN m_alarms : m_alarms[x].lastChanged < Now /\ m_alarms[x].lastChanged \in Nat
    BY DEF Related, HistoriesOrdered, HistoryOrdered, AlarmsType, AlarmEntryType, Time, Now
  <1>6. AnswerSeen' = 0
    <2>1. \E code : reply' = [code |-> code, count |-> 0]
      BY DEF SubmitChanged, Reply
    <2> QED
      BY <2>1 DEF AnswerSeen
  <1>7. DOMAIN ListOf(m_alarms) = DOMAIN m_alarms
        /\ \A x \in DOMAIN m_alarms :
              ListOf(m_alarms)[x] = [shelf |-> m_alarms[x].shelf, state |-> StateOf(m_alarms[x])]
    BY DEF ListOf
  <1> HIDE DEF row
  <1>8. Seen(oper)'[key] = row /\ key \in DOMAIN Seen(oper)' /\ DOMAIN Seen(oper) = DOMAIN m_alarms
    BY <1>1, <1>3, <1>7
  <1>9. Published!OnlyRowOf(key)
    <2>1. \A x \in DOMAIN m_alarms : row.state.changed > ListOf(m_alarms)[x].state.changed
      BY <1>2, <1>5, <1>7 DEF row, StateOf
    <2>2. Seen(oper)' = [x \in DOMAIN Seen(oper) \cup {key} |->
                           IF x = key THEN Seen(oper)'[key] ELSE Seen(oper)[x]]
      BY <1>1, <1>3, <1>8
    <2> QED
      BY <1>1, <1>4, <1>6, <1>8, <2>1, <2>2 DEF Published!OnlyRowOf
  <1>10. CASE key \notin DOMAIN m_alarms
    <2>1. ~row.state.cleared /\ row.state.raised = row.state.changed
      BY <1>2, <1>10 DEF row, StateOf
    <2>2. Published!Appear(key)
      BY <1>8, <1>9, <1>10, <2>1 DEF Published!Appear
    <2> QED
      BY <1>8, <2>2 DEF Published!Next
  <1>11. CASE key \in DOMAIN m_alarms
    <2>1. Seen(oper)[key] = [shelf |-> old.shelf, state |-> StateOf(old)]
      BY <1>1, <1>7, <1>11
    <2>2. /\ row.shelf = old.shelf
          /\ row.state.cleared => ~old.isCleared /\ row.state.severity = old.lastSeverity
          /\ \/ row.state.cleared # old.isCleared
             \/ row.state.severity # old.lastSeverity
             \/ row.state.text # old.text
          /\ row.state.raised = IF old.isCleared THEN row.state.changed ELSE old.lastRaised
      BY <1>2, <1>11 DEF row, StateOf
    <2>3. Published!Change(key)
      BY <1>8, <1>9, <1>11, <2>1, <2>2 DEF Published!Change, StateOf
    <2> QED
      BY <1>8, <2>3 DEF Published!Next
  <1> QED
    BY <1>10, <1>11

(* The abstract module counts as the detailed one does.                    *)
LEMMA SameCount == \A S : Published!Cardinality(S) = Cardinality(S)
  BY DEF Cardinality, Published!Cardinality

LEMMA AnswerGiven ==
    ASSUME NEW n \in Nat, reply' = [code |-> "Ok", count |-> n] PROVE AnswerSeen' = n
  <1>1. reply' \in [code : CodeType, count : Nat] /\ reply'.count = n
    BY DEF CodeType
  <1> QED
    BY <1>1, ReplyAssumption DEF AnswerSeen

LEMMA PurgeImplements ==
    ASSUME Related, NEW shelved \in BOOLEAN, NEW filter, Purge(shelved, filter, FALSE)
    PROVE  Published!Next
  <1> DEFINE purged == Purged(shelved, filter)
             gone == DOMAIN Seen(oper) \ DOMAIN Seen(oper)'
  <1>1. /\ purged # {} /\ m_alarms' = Without(m_alarms, purged)
        /\ reply' = [code |-> "Ok", count |-> Cardinality(purged)]
        /\ Seen(oper) = ListOf(m_alarms) /\ Seen(oper)' = ListOf(m_alarms)'
        /\ IsFiniteSet(DOMAIN m_alarms)
    BY DEF Purge, Reply, Related
  <1>2. purged \subseteq DOMAIN m_alarms
        /\ ((\A k \in purged : m_alarms[k].shelf = None) \/ (\A k \in purged : m_alarms[k].shelf # None))
    BY DEF Purged, OnList, Shelved, Unshelved
  <1> HIDE DEF purged
  <1>3. Seen(oper)' = [k \in DOMAIN m_alarms \ purged |-> ListOf(m_alarms)[k]]
    BY <1>1 DEF ListOf, Without
  <1>4. Cardinality(purged) \in Nat
    BY <1>1, <1>2, FS_Subset, FS_CardinalityType
  <1>5. AnswerSeen' = Cardinality(purged)
    BY <1>1, <1>4, AnswerGiven
  <1>6. DOMAIN Seen(oper) = DOMAIN m_alarms
        /\ \A k \in DOMAIN m_alarms : Seen(oper)[k].shelf = m_alarms[k].shelf
    BY <1>1 DEF ListOf
  <1>7. gone = purged
    BY <1>2, <1>3, <1>6
  <1>8. Seen(oper)' = [k \in DOMAIN Seen(oper) \ gone |-> Seen(oper)[k]]
    BY <1>1, <1>3, <1>6, <1>7
  <1>9. /\ gone # {} /\ AnswerSeen' = Cardinality(gone)
        /\ \/ \A k \in gone : Seen(oper)[k].shelf = None
           \/ \A k \in gone : Seen(oper)[k].shelf # None
    BY <1>1, <1>2, <1>5, <1>6, <1>7
  <1>10. Published!Purge
    BY <1>8, <1>9, SameCount DEF Published!Purge
  <1> QED
    BY <1>10 DEF Published!Next

(* The histories are not seen.                                             *)
LEMMA ShrunkUnseen ==
    \A alarms, keys, max : ListOf(ShrunkAlarms(alarms, keys, max)) = ListOf(alarms)
  <1> SUFFICES ASSUME NEW alarms, NEW keys, NEW max
               PROVE  ListOf(ShrunkAlarms(alarms, keys, max)) = ListOf(alarms)
    OBVIOUS
  <1> DEFINE shrunk == ShrunkAlarms(alarms, keys, max)
  <1>1. DOMAIN shrunk = DOMAIN alarms
    BY DEF ShrunkAlarms
  <1>2. ASSUME NEW k \in DOMAIN alarms
        PROVE  shrunk[k].shelf = alarms[k].shelf /\ StateOf(shrunk[k]) = StateOf(alarms[k])
    <2>1. shrunk[k] = IF k \in keys
                        THEN [alarms[k] EXCEPT !.statusChanges = Shrunk(alarms[k].statusChanges, max)]
                        ELSE alarms[k]
      BY DEF ShrunkAlarms
    <2> QED
      BY <2>1 DEF StateOf
  <1> HIDE DEF shrunk
  <1> QED
    BY <1>1, <1>2 DEF ListOf, shrunk

(* Steps that move no alarm and change none are answers.                   *)
LEMMA AnswerImplements ==
    ASSUME Related, ListOf(m_alarms)' = ListOf(m_alarms),
           \/ reply' = None
           \/ \E n \in 0..Cardinality(DOMAIN m_alarms) : \E code : reply' = [code |-> code, count |-> n]
    PROVE  Published!Next
  <1>1. DOMAIN Seen(oper) = DOMAIN m_alarms /\ Seen(oper)' = Seen(oper)
    BY DEF Related, ListOf
  <1>2. Cardinality(DOMAIN m_alarms) \in Nat
    BY FS_CardinalityType DEF Related
  <1>3. AnswerSeen' \in 0..Cardinality(DOMAIN m_alarms)
    BY <1>2 DEF AnswerSeen
  <1> QED
    BY <1>1, <1>3, SameCount DEF Published!Next, Published!Answer

LEMMA CompressImplements ==
    ASSUME Related, NEW shelved \in BOOLEAN, NEW filter, Compress(shelved, filter, FALSE)
    PROVE  Published!Next
  <1> DEFINE compressed == Compressed(shelved, filter)
  <1>1. /\ m_alarms' = ShrunkAlarms(m_alarms, compressed, 1)
        /\ reply' = [code |-> "Ok", count |-> Cardinality(compressed)]
    BY DEF Compress, Reply
  <1>2. compressed \subseteq DOMAIN m_alarms
    BY DEF Compressed, Overlong, OnList, Shelved, Unshelved
  <1> HIDE DEF compressed
  <1>3. Cardinality(compressed) \in 0..Cardinality(DOMAIN m_alarms)
    <2>1. IsFiniteSet(DOMAIN m_alarms)
      BY DEF Related
    <2>2. IsFiniteSet(compressed) /\ Cardinality(compressed) <= Cardinality(DOMAIN m_alarms)
      BY <1>2, <2>1, FS_Subset
    <2> QED
      BY <2>1, <2>2, FS_CardinalityType
  <1>4. ListOf(m_alarms') = ListOf(m_alarms)
    BY <1>1, ShrunkUnseen
  <1>5. ListOf(m_alarms)' = ListOf(m_alarms')
    BY DEF ListOf, StateOf
  <1> QED
    BY <1>1, <1>3, <1>4, <1>5, AnswerImplements

LEMMA ControlImplements ==
    ASSUME Related, IInv, NEW fails \in BOOLEAN, ControlChanged(fails)
    PROVE  Published!Next
  <1> DEFINE changes   == Head(controlEvents)
             reshelves == "alarm-shelving" \in DOMAIN changes
             rules     == IF reshelves THEN running.shelves ELSE m_shelvingRules
             moved     == reshelves /\ Moved(rules) # {}
             alarms    == IF moved THEN ReshelvedAlarms(rules) ELSE m_alarms
             max       == m_maxAlarmStatusChanges'
             overlong  == IF LimitShrinks(changes) THEN Overlong(alarms, DOMAIN alarms, max)
                                                   ELSE {}
  <1>1. m_alarms' = ShrunkAlarms(alarms, overlong, max) /\ reply' = None
    BY DEF ControlChanged
  <1> HIDE DEF max, overlong
  <1>2. ListOf(m_alarms)' = ListOf(alarms)
    <2>1. ListOf(m_alarms') = ListOf(alarms)
      BY <1>1, ShrunkUnseen
    <2>2. ListOf(m_alarms)' = ListOf(m_alarms')
      BY DEF ListOf, StateOf
    <2> QED
      BY <2>1, <2>2
  <1>3. CASE ~moved
    BY <1>1, <1>2, <1>3, AnswerImplements
  <1>4. CASE moved
    <2>1. rules \in Seq(Shelf)
      BY <1>4, RulesTyped DEF IInv, TypeOK, DatastoreType
    <2> HIDE DEF rules
    <2>2. /\ DOMAIN ListOf(alarms) = DOMAIN m_alarms
          /\ \A k \in DOMAIN m_alarms :
                \E shelf \in ShelfName \cup {None} :
                   ListOf(alarms)[k] = [shelf |-> shelf, state |-> StateOf(m_alarms[k])]
      <3>1. DOMAIN alarms = DOMAIN m_alarms
        BY <1>4 DEF ReshelvedAlarms
      <3>2. ASSUME NEW k \in DOMAIN m_alarms
            PROVE  /\ alarms[k].shelf \in ShelfName \cup {None}
                   /\ StateOf(alarms[k]) = StateOf(m_alarms[k])
        <4>1. alarms[k] = IF k \in Moved(rules)
                            THEN [m_alarms[k] EXCEPT !.shelf = findMatchingShelf(k, rules)]
                            ELSE m_alarms[k]
          BY <1>4 DEF ReshelvedAlarms
        <4>2. findMatchingShelf(k, rules) \in ShelfName \cup {None}
          BY <2>1, ShelfTyped
        <4>3. m_alarms[k] \in AlarmEntryType
          BY DEF Related, AlarmsType
        <4> QED
          BY <4>1, <4>2, <4>3 DEF StateOf, AlarmEntryType
      <3> HIDE DEF alarms
      <3>3. \A k \in DOMAIN m_alarms :
               ListOf(alarms)[k] = [shelf |-> alarms[k].shelf, state |-> StateOf(m_alarms[k])]
        BY <3>1, <3>2 DEF ListOf
      <3> QED
        BY <3>1, <3>2, <3>3 DEF ListOf
    <2> HIDE DEF alarms
    <2>3. /\ Seen(oper) = ListOf(m_alarms) /\ Seen(oper)' = ListOf(alarms)
          /\ DOMAIN Seen(oper) = DOMAIN m_alarms
          /\ \A k \in DOMAIN m_alarms :
                Seen(oper)[k] = [shelf |-> m_alarms[k].shelf, state |-> StateOf(m_alarms[k])]
      BY <1>2 DEF Related, ListOf
    <2>4. \A k \in DOMAIN Seen(oper) : \E shelf \in ShelfName \cup {None} :
             Seen(oper)'[k] = [Seen(oper)[k] EXCEPT !.shelf = shelf]
      BY <2>2, <2>3
    <2>5. AnswerSeen' = 0
      BY <1>1 DEF AnswerSeen
    <2>6. Published!Reshelve
      BY <2>2, <2>3, <2>4, <2>5 DEF Published!Reshelve
    <2> QED
      BY <2>6 DEF Published!Next
  <1> QED
    BY <1>3, <1>4

LEMMA StepImplements ==
    ASSUME ~ApplyMayFail, Related, IInv, [Next]_vars
    PROVE  [Published!Next]_<<Seen(oper), AnswerSeen>>
  <1>1. 0 \in 0..Cardinality(DOMAIN m_alarms)
    BY FS_CardinalityType DEF Related
  <1>2. ASSUME UNCHANGED m_alarms,
               reply' = None \/ \E code : reply' = [code |-> code, count |-> 0]
        PROVE  Published!Next
    <2>1. ListOf(m_alarms)' = ListOf(m_alarms)
      BY <1>2 DEF ListOf, StateOf
    <2> QED
      BY <1>1, <1>2, <2>1, AnswerImplements
  <1>3. ASSUME NEW fails \in BOOLEAN, Publish(fails) PROVE fails = FALSE
    BY <1>3 DEF Publish
  <1>4. ASSUME NEW input \in Submissions, SubmitUnchanged(input) PROVE Published!Next
    <2>1. ListOf(m_alarms)' = ListOf(m_alarms)
      <3>1. /\ input.key \in DOMAIN m_alarms
            /\ WhatChanged(input).entry = m_alarms[input.key]
        BY <1>4, WhatChangedFacts DEF SubmitUnchanged
      <3>2. /\ DOMAIN m_alarms' = DOMAIN m_alarms
            /\ \A k \in DOMAIN m_alarms : m_alarms'[k] = m_alarms[k]
        BY <1>4, <3>1 DEF SubmitUnchanged, Put
      <3> QED
        BY <3>2 DEF ListOf, StateOf
    <2>2. reply' = [code |-> "Ok", count |-> 0]
      BY <1>4 DEF SubmitUnchanged, Reply
    <2> QED
      BY <1>1, <2>1, <2>2, AnswerImplements
  <1>5. CASE submitAlarm
    <2>1. ASSUME NEW input \in Submissions, NEW fails \in BOOLEAN, SubmitChanged(input, fails)
          PROVE  Published!Next
      <3>1. fails = FALSE
        BY <1>3, <2>1 DEF SubmitChanged
      <3> QED
        BY <2>1, <3>1, SubmitImplements
    <2> QED
      BY <1>2, <1>4, <1>5, <2>1
         DEF submitAlarm, RefuseClient, SubmitBadKey, SubmitReadFails, SubmitNotInInventory,
             SubmitRedundantClear, Reply, cache
  <1>6. CASE purgeAlarms
    <2>1. ASSUME NEW shelved \in BOOLEAN, NEW filter \in PurgeInputs, NEW fails \in BOOLEAN,
                 Purge(shelved, filter, fails)
          PROVE  Published!Next
      <3>1. fails = FALSE
        BY <1>3, <2>1 DEF Purge
      <3> QED
        BY <2>1, <3>1, PurgeImplements
    <2> QED
      BY <1>2, <1>6, <2>1 DEF purgeAlarms, PurgeNothing, Reply, cache
  <1>7. CASE compressAlarms
    <2>1. ASSUME NEW shelved \in BOOLEAN, NEW filter \in CompressInputs, NEW fails \in BOOLEAN,
                 Compress(shelved, filter, fails)
          PROVE  Published!Next
      <3>1. fails = FALSE
        BY <1>3, <2>1 DEF Compress
      <3> QED
        BY <2>1, <3>1, CompressImplements
    <2> QED
      BY <1>2, <1>7, <2>1 DEF compressAlarms, CompressNothing, Reply, cache
  <1>8. CASE controlCallback
    BY <1>8, ControlImplements DEF controlCallback
  <1>9. CASE InventoryChanged \/ Environment
    BY <1>2, <1>9 DEF InventoryChanged, Environment, EditControl, EditInventory, cache
  <1>10. CASE UNCHANGED vars
    BY <1>10 DEF vars, Seen, Listed, Shown, AnswerSeen
  <1> QED
    BY <1>5, <1>6, <1>7, <1>8, <1>9, <1>10 DEF Next

(* As long as applyChanges() does not fail, what a client sees of the two  *)
(* lists, and what the purges tell it, is what AlarmList promises.         *)
THEOREM ListImplemented == ~ApplyMayFail => (Spec => PublishedListSpec)
  <1> SUFFICES ASSUME ~ApplyMayFail PROVE Spec => PublishedListSpec
    OBVIOUS
  <1>1. Init => Published!Init
    <2> SUFFICES ASSUME Init PROVE Published!Init
      OBVIOUS
    <2>1. oper.alarm = NoRows /\ oper.shelvedAlarm = NoRows /\ reply = None
      BY DEF Init
    <2>2. Listed(oper) = {}
      BY <2>1 DEF Listed, NoRows
    <2>3. Seen(oper) = [k \in {} |-> None]
      BY <2>2 DEF Seen
    <2> QED
      BY <2>1, <2>3 DEF Published!Init, AnswerSeen
  <1>2. IInv /\ Ordered /\ IInv' /\ InStep /\ InStep' /\ [Next]_vars
        => [Published!Next]_<<Seen(oper), AnswerSeen>>
    BY BothSeen, StepImplements
  <1> QED
    BY <1>1, <1>2, InitInStep, InStepStep, Invariance, PTL DEF Spec, PublishedListSpec, Published!Spec
-----------------------------------------------------------------------------
(* What AlarmList implies about the rows, and therefore the daemon's lists *)

TellsTimes(rows) ==
    /\ \A k \in DOMAIN rows : rows[k] \in Published!Row
    /\ \A j, k \in DOMAIN rows : j # k => rows[j].state.changed # rows[k].state.changed
    /\ \A k \in DOMAIN rows :
          LET state == rows[k].state IN
          IF state.cleared THEN state.raised < state.changed ELSE state.raised <= state.changed

(* One row appears or changes, later than all others.                      *)
LEMMA LaterRowTells ==
    ASSUME NEW rows, TellsTimes(rows), NEW k, NEW row \in Published!Row, NEW new,
           new = [x \in DOMAIN rows \cup {k} |-> IF x = k THEN row ELSE rows[x]],
           \A x \in DOMAIN rows : row.state.changed > rows[x].state.changed,
           IF row.state.cleared THEN row.state.raised < row.state.changed
                                ELSE row.state.raised <= row.state.changed
    PROVE  TellsTimes(new)
  <1>1. \A x \in DOMAIN rows : rows[x].state.changed \in Nat
    BY DEF TellsTimes, Published!Row, Published!State
  <1>2. row.state.changed \in Nat
    BY DEF Published!Row, Published!State
  <1>3. /\ DOMAIN new = DOMAIN rows \cup {k} /\ new[k] = row
        /\ \A x \in DOMAIN rows : x # k => new[x] = rows[x]
    OBVIOUS
  <1>4. \A x \in DOMAIN new : new[x] \in Published!Row
    BY <1>3 DEF TellsTimes
  <1>5. \A j, x \in DOMAIN new : j # x => new[j].state.changed # new[x].state.changed
    BY <1>1, <1>2, <1>3 DEF TellsTimes
  <1>6. ASSUME NEW x \in DOMAIN new
        PROVE  IF new[x].state.cleared THEN new[x].state.raised < new[x].state.changed
                                       ELSE new[x].state.raised <= new[x].state.changed
    <2>1. CASE x = k
      BY <1>3, <2>1
    <2>2. CASE x # k
      BY <1>3, <2>2 DEF TellsTimes
    <2> QED
      BY <2>1, <2>2
  <1> QED
    BY <1>4, <1>5, <1>6 DEF TellsTimes

(* The same states on fewer rows, or on other shelves.                     *)
LEMMA SameStatesTell ==
    ASSUME NEW rows, TellsTimes(rows), NEW new, DOMAIN new \subseteq DOMAIN rows,
           \A k \in DOMAIN new : new[k] \in Published!Row /\ new[k].state = rows[k].state
    PROVE  TellsTimes(new)
  BY DEF TellsTimes

LEMMA ListStepTells ==
    ASSUME TellsTimes(Seen(oper)), Published!Next PROVE TellsTimes(Seen(oper)')
  <1> DEFINE old == Seen(oper)
             new == Seen(oper)'
  <1>1. \A k \in DOMAIN old : /\ old[k] \in Published!Row
                              /\ old[k].state.raised \in Nat /\ old[k].state.changed \in Nat
                              /\ old[k].state.cleared \in BOOLEAN
    BY DEF TellsTimes, Published!Row, Published!State
  <1>2. ASSUME NEW k \in DOMAIN new, Published!Appear(k) PROVE TellsTimes(new)
    <2>1. /\ new[k] \in Published!Row
          /\ new = [x \in DOMAIN old \cup {k} |-> IF x = k THEN new[k] ELSE old[x]]
          /\ \A x \in DOMAIN old : new[k].state.changed > old[x].state.changed
          /\ ~new[k].state.cleared /\ new[k].state.raised = new[k].state.changed
      BY <1>2 DEF Published!Appear, Published!OnlyRowOf
    <2>2. new[k].state.changed \in Nat
      BY <2>1 DEF Published!Row, Published!State
    <2> HIDE DEF old, new
    <2>3. new[k].state.raised <= new[k].state.changed
      BY <2>1, <2>2
    <2> QED
      BY <2>1, <2>3, LaterRowTells DEF old
  <1>3. ASSUME NEW k \in DOMAIN new, Published!Change(k) PROVE TellsTimes(new)
    <2>1. /\ k \in DOMAIN old
          /\ new[k] \in Published!Row
          /\ new = [x \in DOMAIN old \cup {k} |-> IF x = k THEN new[k] ELSE old[x]]
          /\ \A x \in DOMAIN old : new[k].state.changed > old[x].state.changed
          /\ new[k].state.cleared => ~old[k].state.cleared
          /\ new[k].state.raised = IF old[k].state.cleared THEN new[k].state.changed
                                                           ELSE old[k].state.raised
      BY <1>3 DEF Published!Change, Published!OnlyRowOf
    <2>2. new[k].state.changed \in Nat /\ new[k].state.raised \in Nat
      BY <2>1 DEF Published!Row, Published!State
    <2>3. ~old[k].state.cleared => old[k].state.raised <= old[k].state.changed
      BY <2>1 DEF TellsTimes
    <2>4. old[k].state.raised \in Nat /\ old[k].state.changed \in Nat
      BY <1>1, <2>1
    <2> HIDE DEF old, new
    <2>5. IF new[k].state.cleared THEN new[k].state.raised < new[k].state.changed
                                  ELSE new[k].state.raised <= new[k].state.changed
      BY <2>1, <2>2, <2>3, <2>4
    <2> QED
      BY <2>1, <2>5, LaterRowTells DEF old
  <1>4. CASE Published!Purge
    <2>1. new = [k \in DOMAIN new |-> old[k]] /\ DOMAIN new \subseteq DOMAIN old
      <3>1. new = [k \in DOMAIN old \ (DOMAIN old \ DOMAIN new) |-> old[k]]
        BY <1>4 DEF Published!Purge
      <3> HIDE DEF new, old
      <3> QED
        BY <3>1
    <2>2. TellsTimes(old)
      OBVIOUS
    <2> HIDE DEF new, old
    <2>3. TellsTimes(new)
      BY <1>1, <2>1, <2>2, SameStatesTell
    <2> QED
      BY <2>3 DEF new
  <1>5. CASE Published!Reshelve
    <2>1. /\ DOMAIN new = DOMAIN old
          /\ \A k \in DOMAIN old : \E shelf \in ShelfName \cup {None} :
                new[k] = [old[k] EXCEPT !.shelf = shelf]
      BY <1>5 DEF Published!Reshelve
    <2>2. ASSUME NEW k \in DOMAIN old
          PROVE  new[k] \in Published!Row /\ new[k].state = old[k].state
      BY <1>1, <2>1 DEF Published!Row
    <2> HIDE DEF new, old
    <2> QED
      BY <2>1, <2>2, SameStatesTell DEF old, new
  <1>6. CASE Published!Answer
    BY <1>6 DEF Published!Answer
  <1> QED
    BY <1>2, <1>3, <1>4, <1>5, <1>6 DEF Published!Next

(* The instants of all rows of both lists are those of one story: the      *)
(* daemon inherits this from the abstract list that it implements.         *)
THEOREM TimesAreTold == ~ApplyMayFail => (Spec => []PublishedTimesTell)
  <1>1. Published!Init => TellsTimes(Seen(oper))
    BY DEF Published!Init, TellsTimes
  <1>2. TellsTimes(Seen(oper)) /\ [Published!Next]_<<Seen(oper), AnswerSeen>>
          => TellsTimes(Seen(oper)')
    BY ListStepTells
  <1>3. TellsTimes(Seen(oper)) => PublishedTimesTell
    BY DEF TellsTimes, PublishedTimesTell, Published!TimesTell
  <1> DEFINE Inv == TellsTimes(Seen(oper))
  <1>4. Published!Init => Inv
    BY <1>1
  <1>5. Inv /\ [Published!Next]_<<Seen(oper), AnswerSeen>> => Inv'
    BY <1>2 DEF TellsTimes
  <1>6. Inv => PublishedTimesTell
    BY <1>3
  <1> HIDE DEF Inv
  <1> QED
    BY <1>4, <1>5, <1>6, ListImplemented, PTL DEF PublishedListSpec, Published!Spec
=============================================================================
