---------------------------- MODULE HistoryProofs ----------------------------
(***************************************************************************)
(* What the published histories say: their order, their first item, and    *)
(* last-raised.  Rows of the edit tree tell the truth, and publications    *)
(* only ever copy them.                                                    *)
(***************************************************************************)
EXTENDS SettingsProofs

Sorted(list) == \A i, j \in DOMAIN list : i < j => list[i].time > list[j].time

(* The clears of a history but for the newest change; the last of them.    *)
ClearAt(list, i) == i \in 2..Len(list) /\ list[i].severity = ClearedSeverity
LastClearAt(list, i) == ClearAt(list, i) /\ \A j \in 2..(i - 1) : ~ClearAt(list, j)

HeadTold(leaves) == leaves.statusChange # <<>> => leaves.statusChange[1] = Newest(leaves)

(* What needs a clock that only advances is told if ordered.               *)
RaiseTold(leaves, ordered) ==
    LET list == leaves.statusChange IN
    /\ \A i \in 2..Len(list) : LastClearAt(list, i) => leaves.lastRaised = list[i - 1].time
    /\ ordered =>
          /\ leaves.lastRaised <= leaves.lastChanged
          /\ \A i \in 1..Len(list) :
                (\A j \in 2..i : ~ClearAt(list, j)) => leaves.lastRaised <= list[i].time

Told(leaves, ordered) == HeadTold(leaves) /\ RaiseTold(leaves, ordered)
-----------------------------------------------------------------------------
(* Rows *)

LEMMA RaiseTimeTold ==
    ASSUME NEW leaves, leaves.statusChange \in Seq(ListedChange), NEW ordered,
           RaiseTold(leaves, ordered), Clears(leaves.statusChange) # {}
    PROVE  leaves.lastRaised = RaiseTime(leaves.statusChange)
  <1> DEFINE list == leaves.statusChange
             last == CHOOSE i \in Clears(list) : \A j \in Clears(list) : i <= j
  <1>1. Len(list) \in Nat /\ Clears(list) \subseteq Nat
    BY DEF Clears
  <1>2. last \in Clears(list) /\ \A j \in Clears(list) : last <= j
    <2>1. \E i \in Clears(list) : \A j \in Clears(list) : i <= j
      BY <1>1, SmallestOf
    <2> QED
      BY <2>1
  <1>3. RaiseTime(list) = list[last - 1].time
    BY DEF RaiseTime
  <1> HIDE DEF last
  <1>4. LastClearAt(list, last) /\ last \in 2..Len(list)
    BY <1>1, <1>2 DEF LastClearAt, ClearAt, Clears
  <1> QED
    BY <1>3, <1>4 DEF RaiseTold

(* A history without its oldest changes tells no less.                     *)
LEMMA CutTold ==
    ASSUME NEW ordered \in BOOLEAN, NEW leaves \in Leaves, Told(leaves, ordered),
           NEW short \in Seq(ListedChange), IsCutOf(short, leaves.statusChange)
    PROVE  Told([leaves EXCEPT !.statusChange = short], ordered)
  <1> DEFINE list == leaves.statusChange
             cut  == [leaves EXCEPT !.statusChange = short]
  <1>1. /\ cut.statusChange = short /\ cut.lastRaised = leaves.lastRaised
        /\ cut.lastChanged = leaves.lastChanged /\ Newest(cut) = Newest(leaves)
    BY DEF Leaves, Newest
  <1>2. /\ list \in Seq(ListedChange) /\ Len(list) \in Nat /\ Len(short) \in Nat
        /\ Len(short) <= Len(list) /\ \A i \in 1..Len(short) : short[i] = list[i]
    BY DEF Leaves, IsCutOf
  <1> HIDE DEF cut
  <1>5. HeadTold(cut)
    <2> SUFFICES ASSUME short # <<>> PROVE short[1] = Newest(cut)
      BY <1>1 DEF HeadTold
    <2>1. 1 \in 1..Len(short) /\ list # <<>>
      BY <1>2
    <2>2. list[1] = Newest(leaves)
      BY <2>1 DEF Told, HeadTold
    <2> QED
      BY <1>1, <1>2, <2>1, <2>2
  <1>6. \A i \in 2..Len(short) : ClearAt(short, i) <=> ClearAt(list, i)
    BY <1>2 DEF ClearAt
  <1>7. ASSUME NEW i \in 2..Len(short), LastClearAt(short, i)
        PROVE  cut.lastRaised = short[i - 1].time
    <2>1. LastClearAt(list, i) /\ i \in 2..Len(list) /\ i - 1 \in 1..Len(short)
      BY <1>2, <1>6, <1>7 DEF LastClearAt
    <2> QED
      BY <1>1, <1>2, <2>1 DEF Told, RaiseTold
  <1>8. ASSUME ordered, NEW i \in 1..Len(short), \A j \in 2..i : ~ClearAt(short, j)
        PROVE  cut.lastRaised <= short[i].time
    <2>1. i \in 1..Len(list) /\ \A j \in 2..i : ~ClearAt(list, j)
      BY <1>2, <1>6, <1>8
    <2> QED
      BY <1>1, <1>2, <1>8, <2>1 DEF Told, RaiseTold
  <1>9. RaiseTold(cut, ordered)
    BY <1>1, <1>7, <1>8 DEF RaiseTold, Told
  <1> QED
    BY <1>5, <1>9 DEF Told, cut

LEMMA LeavesCut ==
    ASSUME NEW ordered \in BOOLEAN,
           NEW leaves \in Leaves, NEW longer, IsCutOf(leaves.statusChange, longer),
           [leaves EXCEPT !.statusChange = longer] \in Leaves,
           Told([leaves EXCEPT !.statusChange = longer], ordered)
    PROVE  Told(leaves, ordered)
  <1> DEFINE whole == [leaves EXCEPT !.statusChange = longer]
  <1>1. /\ whole.statusChange = longer /\ leaves.statusChange \in Seq(ListedChange)
        /\ [whole EXCEPT !.statusChange = leaves.statusChange] = leaves
    BY DEF Leaves
  <1> HIDE DEF whole
  <1>2. whole \in Leaves /\ Told(whole, ordered)
    BY DEF whole
  <1>3. Told([whole EXCEPT !.statusChange = leaves.statusChange], ordered)
    BY <1>1, <1>2, CutTold
  <1> QED
    BY <1>1, <1>3

(* A newer change in front of a history that told the truth.               *)
LEMMA PrependTold ==
    ASSUME NEW ordered \in BOOLEAN, NEW old \in Leaves, Told(old, ordered),
           NEW now \in Nat, ordered => old.lastChanged < now,
           NEW new \in Leaves, new.lastChanged = now,
           new.statusChange = <<Newest(new)>> \o old.statusChange,
           new.isCleared => ~old.isCleared,
           new.lastRaised = IF old.isCleared /\ ~new.isCleared THEN now ELSE old.lastRaised
    PROVE  Told(new, ordered)
  <1> DEFINE list   == old.statusChange
             longer == new.statusChange
             first  == Newest(new)
  <1>1. /\ list \in Seq(ListedChange) /\ Len(list) \in Nat
        /\ old.lastRaised \in Nat /\ old.lastChanged \in Nat /\ new.lastRaised \in Nat
        /\ old.perceivedSeverity # ClearedSeverity
        /\ old.isCleared \in BOOLEAN /\ new.isCleared \in BOOLEAN
    BY DEF Leaves, Time, Severities, ClearedSeverity
  <1>2. \A i \in 1..Len(list) : list[i].time \in Nat
    <2> TAKE i \in 1..Len(list)
    <2>1. list[i] \in ListedChange
      BY <1>1
    <2> QED
      BY <2>1 DEF ListedChange, Time
  <1>3. first.time = now
    BY DEF Newest
  <1> HIDE DEF first
  <1>4. /\ Len(longer) = Len(list) + 1 /\ longer[1] = first /\ longer # <<>>
        /\ DOMAIN longer = 1..(Len(list) + 1) /\ DOMAIN list = 1..Len(list)
        /\ \A i \in 2..(Len(list) + 1) : longer[i] = list[i - 1]
    BY <1>1 DEF first
  <1> HIDE DEF longer
  <1>5. HeadTold(new)
    BY <1>4 DEF HeadTold, longer, first
  <1>7. \A i \in 3..Len(longer) : ClearAt(longer, i) <=> ClearAt(list, i - 1)
    <2> TAKE i \in 3..Len(longer)
    <2>1. i - 1 \in 2..Len(list) /\ i \in 2..Len(longer) /\ longer[i] = list[i - 1]
      BY <1>1, <1>4
    <2> QED
      BY <2>1 DEF ClearAt
  <1>8. list # <<>> => /\ 2 \in 2..Len(longer) /\ longer[2] = list[1]
                       /\ list[1] = Newest(old)
    BY <1>1, <1>4 DEF Told, HeadTold
  <1>9. list # <<>> => (ClearAt(longer, 2) <=> old.isCleared)
    BY <1>1, <1>8 DEF ClearAt, Newest
  <1>10. ordered => new.lastRaised <= now
    BY <1>1 DEF Told, RaiseTold
  <1>11. ASSUME NEW i \in 2..Len(longer), LastClearAt(longer, i)
         PROVE  new.lastRaised = longer[i - 1].time
    <2>1. list # <<>>
      BY <1>1, <1>4
    <2>2. CASE old.isCleared
      <3>1. ClearAt(longer, 2)
        BY <1>9, <2>1, <2>2
      <3>2. i = 2
        BY <1>1, <1>4, <1>11, <3>1 DEF LastClearAt
      <3> QED
        BY <1>3, <1>4, <2>2, <3>2
    <2>3. CASE ~old.isCleared
      <3>1. i # 2
        BY <1>9, <1>11, <2>1, <2>3 DEF LastClearAt
      <3>2. i \in 3..Len(longer) /\ i - 1 \in 2..Len(list)
        BY <1>1, <1>4, <3>1
      <3>3. LastClearAt(list, i - 1)
        <4>1. ClearAt(list, i - 1)
          BY <1>7, <1>11, <3>2 DEF LastClearAt
        <4>2. ASSUME NEW j \in 2..(i - 1 - 1) PROVE ~ClearAt(list, j)
          <5>1. j + 1 \in 3..Len(longer) /\ j + 1 \in 2..(i - 1) /\ (j + 1) - 1 = j
            BY <1>1, <1>4, <3>2
          <5> QED
            BY <1>7, <1>11, <5>1 DEF LastClearAt
        <4> QED
          BY <4>1, <4>2 DEF LastClearAt
      <3>4. old.lastRaised = list[i - 1 - 1].time
        BY <3>2, <3>3 DEF Told, RaiseTold
      <3>5. longer[i - 1] = list[i - 1 - 1]
        <4>1. i - 1 \in 2..(Len(list) + 1)
          BY <1>1, <3>2
        <4> QED
          BY <1>4, <4>1
      <3> QED
        BY <2>3, <3>4, <3>5
    <2> QED
      BY <2>2, <2>3, <1>1
  <1>12. ASSUME ordered, NEW i \in 1..Len(longer), \A j \in 2..i : ~ClearAt(longer, j)
         PROVE  new.lastRaised <= longer[i].time
    <2>1. CASE i = 1
      BY <1>3, <1>4, <1>10, <1>12, <2>1
    <2>2. CASE i # 1
      <3>1. i \in 2..Len(longer) /\ i - 1 \in 1..Len(list) /\ longer[i] = list[i - 1]
            /\ list # <<>>
        BY <1>1, <1>4, <2>2
      <3>2. ~old.isCleared
        <4>1. 2 \in 2..i
          BY <3>1
        <4> QED
          BY <1>9, <1>12, <3>1, <4>1
      <3>3. \A j \in 2..(i - 1) : ~ClearAt(list, j)
        <4> TAKE j \in 2..(i - 1)
        <4>1. j + 1 \in 3..Len(longer) /\ j + 1 \in 2..i /\ (j + 1) - 1 = j
          BY <1>1, <1>4, <3>1
        <4> QED
          BY <1>7, <1>12, <4>1
      <3>4. old.lastRaised <= list[i - 1].time
        BY <1>12, <3>1, <3>3 DEF Told, RaiseTold
      <3> QED
        BY <3>1, <3>2, <3>4
    <2> QED
      BY <2>1, <2>2
  <1>13. RaiseTold(new, ordered)
    BY <1>10, <1>11, <1>12 DEF RaiseTold, longer
  <1> QED
    BY <1>5, <1>13 DEF Told
-----------------------------------------------------------------------------
(* The edit tree *)

RowsTold(alarmRows, shelvedRows, ordered) ==
    /\ \A k \in DOMAIN alarmRows : Told(alarmRows[k].leaves, ordered)
    /\ \A k \in DOMAIN shelvedRows : Told(shelvedRows[k].leaves, ordered)

(* A row that mirrors an ordered entry is sorted.                          *)
LEMMA MirrorSorted ==
    ASSUME NEW entry \in AlarmEntryType, NEW now \in Nat, HistoryOrdered(entry, now),
           NEW leaves \in Leaves, MirrorsEntry(leaves, entry)
    PROVE  /\ Sorted(leaves.statusChange)
           /\ leaves.lastChanged <= now
           /\ \A i \in 1..Len(leaves.statusChange) : leaves.statusChange[i].time <= now
  <1> DEFINE list == leaves.statusChange
             h    == entry.statusChanges
             n    == Len(h)
  <1>1. /\ list \in Seq(ListedChange) /\ Len(list) = n /\ DOMAIN list = 1..n
        /\ h \in Seq(StatusChange) /\ n \in Nat /\ DOMAIN h = 1..n
        /\ entry.lastChanged \in Nat /\ leaves.lastChanged = entry.lastChanged
        /\ \A i \in 1..n : list[i].time = h[n + 1 - i].time
    BY DEF Leaves, AlarmEntryType, Time, MirrorsEntry, MirrorsHistory
  <1>2. \A i \in 1..n : h[i].time \in Nat
    <2> TAKE i \in 1..n
    <2>1. h[i] \in StatusChange
      BY <1>1
    <2> QED
      BY <2>1 DEF StatusChange, Time
  <1>3. /\ \A i, j \in 1..n : i < j => h[i].time < h[j].time
        /\ \A i \in 1..n : h[i].time <= entry.lastChanged
        /\ entry.lastChanged <= now
    BY <1>1 DEF HistoryOrdered
  <1> HIDE DEF list, h, n
  <1>4. ASSUME NEW i \in 1..n PROVE n + 1 - i \in 1..n
    BY <1>1
  <1>5. \A i \in 1..n : list[i].time <= now
    BY <1>1, <1>2, <1>3, <1>4
  <1>6. Sorted(list)
    <2> SUFFICES ASSUME NEW i \in 1..n, NEW j \in 1..n, i < j
                 PROVE  list[i].time > list[j].time
      BY <1>1 DEF Sorted
    <2>1. n + 1 - j < n + 1 - i
      BY <1>1
    <2> QED
      BY <1>1, <1>2, <1>3, <1>4, <2>1
  <1> QED
    BY <1>1, <1>3, <1>5, <1>6 DEF list

(* Shrinking: the rows keep their leaves and their newest changes.         *)
LEMMA ShrinkTold ==
    ASSUME NEW ordered \in BOOLEAN, NEW alarms, NEW alarmRows, NEW shelvedRows,
           Coherent(alarms, alarmRows, shelvedRows), RowsTold(alarmRows, shelvedRows, ordered),
           NEW keys, NEW max \in Limit
    PROVE  RowsTold(UnlinkedRows(alarmRows, alarms, keys \cap Unshelved(alarms), max),
                    UnlinkedRows(shelvedRows, alarms, keys \cap Shelved(alarms), max), ordered)
  <1> DEFINE Cut(leaves, k) == [leaves EXCEPT !.statusChange =
                                  Unlink(leaves.statusChange, Discarded(alarms[k].statusChanges, max))]
  <1>1. ASSUME NEW k \in DOMAIN alarms, NEW leaves \in Leaves, MirrorsEntry(leaves, alarms[k]),
               Told(leaves, ordered)
        PROVE  Told(Cut(leaves, k), ordered)
    <2>1. /\ alarms[k] \in AlarmEntryType /\ Distinct(alarms[k].statusChanges)
          /\ leaves.statusChange \in Seq(ListedChange)
          /\ MirrorsHistory(leaves.statusChange, alarms[k].statusChanges)
      BY <1>1 DEF Coherent, AlarmsType, Leaves, MirrorsEntry
    <2> DEFINE short == Unlink(leaves.statusChange, Discarded(alarms[k].statusChanges, max))
    <2>2. short \in Seq(ListedChange) /\ IsCutOf(short, leaves.statusChange)
      BY <2>1, ShrinkMirrored
    <2> HIDE DEF short
    <2>3. Told([leaves EXCEPT !.statusChange = short], ordered)
      BY <1>1, <2>2, CutTold
    <2> QED
      BY <2>3 DEF short
  <1> HIDE DEF Cut
  <1>2. ASSUME NEW k \in DOMAIN alarmRows
        PROVE  Told(UnlinkedRows(alarmRows, alarms, keys \cap Unshelved(alarms), max)[k].leaves,
                    ordered)
    <2>1. /\ k \in DOMAIN alarms /\ alarmRows[k] \in AlarmRow /\ alarmRows[k].leaves \in Leaves
          /\ MirrorsEntry(alarmRows[k].leaves, alarms[k]) /\ Told(alarmRows[k].leaves, ordered)
      BY DEF Coherent, RowsType, AlarmRow, MirrorsAlarms, Unshelved, RowsTold
    <2>2. Told(Cut(alarmRows[k].leaves, k), ordered)
      BY <1>1, <2>1
    <2>3. UnlinkedRows(alarmRows, alarms, keys \cap Unshelved(alarms), max)[k].leaves
            \in {alarmRows[k].leaves, Cut(alarmRows[k].leaves, k)}
      BY <2>1 DEF UnlinkedRows, Cut, AlarmRow
    <2> QED
      BY <2>1, <2>2, <2>3
  <1>3. ASSUME NEW k \in DOMAIN shelvedRows
        PROVE  Told(UnlinkedRows(shelvedRows, alarms, keys \cap Shelved(alarms), max)[k].leaves,
                    ordered)
    <2>1. /\ k \in DOMAIN alarms /\ shelvedRows[k] \in ShelvedRow
          /\ shelvedRows[k].leaves \in Leaves
          /\ MirrorsEntry(shelvedRows[k].leaves, alarms[k]) /\ Told(shelvedRows[k].leaves, ordered)
      BY DEF Coherent, RowsType, ShelvedRow, MirrorsAlarms, Shelved, RowsTold
    <2>2. Told(Cut(shelvedRows[k].leaves, k), ordered)
      BY <1>1, <2>1
    <2>3. UnlinkedRows(shelvedRows, alarms, keys \cap Shelved(alarms), max)[k].leaves
            \in {shelvedRows[k].leaves, Cut(shelvedRows[k].leaves, k)}
      BY <2>1 DEF UnlinkedRows, Cut, ShelvedRow
    <2> QED
      BY <2>1, <2>2, <2>3
  <1>4. /\ DOMAIN UnlinkedRows(alarmRows, alarms, keys \cap Unshelved(alarms), max)
              = DOMAIN alarmRows
        /\ DOMAIN UnlinkedRows(shelvedRows, alarms, keys \cap Shelved(alarms), max)
              = DOMAIN shelvedRows
    BY DEF UnlinkedRows
  <1> QED
    BY <1>2, <1>3, <1>4 DEF RowsTold

(* Reshelving: rows take their leaves along.                               *)
LEMMA ReshelveTold ==
    ASSUME Coherent(m_alarms, m_edit.alarm, m_edit.shelvedAlarm),
           NEW ordered \in BOOLEAN, RowsTold(m_edit.alarm, m_edit.shelvedAlarm, ordered),
           NEW rules
    PROVE  RowsTold(ReshelvedAlarmRows(rules), ReshelvedShelvedRows(rules), ordered)
  <1>1. /\ Unshelves(rules) \subseteq DOMAIN m_alarms
        /\ Shelves(rules) \subseteq Unshelved(m_alarms)
        /\ Unshelves(rules) \subseteq Shelved(m_alarms)
    BY DEF Unshelves, Shelves, Moved, Unshelved, Shelved
  <1>2. DOMAIN m_edit.alarm = Unshelved(m_alarms) /\ DOMAIN m_edit.shelvedAlarm = Shelved(m_alarms)
    BY DEF Coherent, MirrorsAlarms
  <1>3. /\ DOMAIN ReshelvedAlarmRows(rules)
              = (DOMAIN m_edit.alarm \ Shelves(rules)) \cup Unshelves(rules)
        /\ DOMAIN ReshelvedShelvedRows(rules)
              = (DOMAIN m_edit.shelvedAlarm \ Unshelves(rules)) \cup Shelves(rules)
    BY DEF ReshelvedAlarmRows, ReshelvedShelvedRows
  <1>4. ASSUME NEW k \in DOMAIN ReshelvedAlarmRows(rules)
        PROVE  Told(ReshelvedAlarmRows(rules)[k].leaves, ordered)
    BY <1>1, <1>2, <1>3 DEF ReshelvedAlarmRows, RowsTold
  <1>5. ASSUME NEW k \in DOMAIN ReshelvedShelvedRows(rules)
        PROVE  Told(ReshelvedShelvedRows(rules)[k].leaves, ordered)
    <2>1. ReshelvedShelvedRows(rules)[k].leaves =
            IF k \in Shelves(rules) THEN m_edit.alarm[k].leaves ELSE m_edit.shelvedAlarm[k].leaves
      BY <1>3 DEF ReshelvedShelvedRows, Shelves
    <2> QED
      BY <1>1, <1>2, <1>3, <2>1 DEF RowsTold
  <1> QED
    BY <1>4, <1>5 DEF RowsTold

(* submitAlarm(): the row of the alarm.                                    *)
LEMMA UpdateTold ==
    ASSUME IInv, NEW ordered \in BOOLEAN, ordered => Ordered,
           RowsTold(m_edit.alarm, m_edit.shelvedAlarm, ordered),
           NEW input \in Submissions, ~IsRedundantClear(input), WhatChanged(input).changed,
           NowIsNew(input.key)
    PROVE  LET res    == WhatChanged(input)
               listed == IF ShelfFor(input.key) = None
                           THEN ListedHistory(m_edit.alarm, input.key)
                           ELSE ListedHistory(m_edit.shelvedAlarm, input.key)
           IN  Told(UpdatedLeaves(listed, res.entry, res.removed), ordered)
  <1> DEFINE key    == input.key
             res    == WhatChanged(input)
             listed == IF ShelfFor(key) = None THEN ListedHistory(m_edit.alarm, key)
                                               ELSE ListedHistory(m_edit.shelvedAlarm, key)
             leaves == UpdatedLeaves(listed, res.entry, res.removed)
             first  == NewStatusChange(res.entry)
             longer == <<first>> \o listed
             whole  == [leaves EXCEPT !.statusChange = longer]
  <1>1. /\ res.entry \in AlarmEntryType
        /\ leaves \in Leaves
        /\ IsCutOf(leaves.statusChange, longer)
    BY WhatChangedFacts
  <1>2. /\ clock \in Nat /\ Now \in Nat /\ clock < Now
    BY DEF IInv, TypeOK, CacheType, Time, Now
  <1>3. /\ res.entry.lastChanged = Now
        /\ res.entry.isCleared = (input.severity = ClearedSeverity)
    BY DEF WhatChanged, updateByRpc
  <1>4. key \notin DOMAIN m_alarms => /\ res.entry.lastRaised = Now
                                      /\ listed = <<>>
    <2> SUFFICES ASSUME key \notin DOMAIN m_alarms
                 PROVE  res.entry.lastRaised = Now /\ listed = <<>>
      OBVIOUS
    <2>1. input.severity # ClearedSeverity
      BY DEF IsRedundantClear
    <2>2. key \notin DOMAIN m_edit.alarm /\ key \notin DOMAIN m_edit.shelvedAlarm
      BY DEF IInv, Coherent, MirrorsAlarms, Unshelved, Shelved
    <2> QED
      BY <2>1, <2>2 DEF WhatChanged, updateByRpc, IsRaise, ListedHistory
  <1>5. key \in DOMAIN m_alarms =>
            /\ res.entry.lastRaised = IF m_alarms[key].isCleared /\ ~res.entry.isCleared
                                        THEN Now ELSE m_alarms[key].lastRaised
            /\ res.entry.isCleared => ~m_alarms[key].isCleared
    BY DEF WhatChanged, updateByRpc, IsRaise, IsRedundantClear
  <1>6. /\ leaves.lastRaised = res.entry.lastRaised /\ leaves.lastChanged = res.entry.lastChanged
        /\ leaves.isCleared = res.entry.isCleared /\ Newest(leaves) = first
    BY DEF UpdatedLeaves, Newest, NewStatusChange
  <1> HIDE DEF res, leaves
  <1>7. first \in ListedChange
    BY <1>1 DEF NewStatusChange, ListedChange, AlarmEntryType, Time, Severities, ClearedSeverity
  <1>8. CASE key \notin DOMAIN m_alarms
    <2>1. longer = <<first>>
      <3>1. listed = <<>>
        BY <1>4, <1>8
      <3> HIDE DEF listed, first
      <3> QED
        BY <3>1
    <2>2. whole \in Leaves /\ whole.statusChange = <<first>> /\ Newest(whole) = first
          /\ whole.lastRaised = Now /\ whole.lastChanged = Now
      BY <1>1, <1>3, <1>4, <1>6, <1>7, <1>8, <2>1 DEF Leaves, Newest
    <2>3. first.time = Now
      BY <1>3 DEF NewStatusChange
    <2> HIDE DEF whole, first
    <2>4. Told(whole, ordered)
      BY <1>2, <2>2, <2>3 DEF Told, HeadTold, RaiseTold
    <2> QED
      BY <1>1, <1>6, <2>2, <2>4, LeavesCut DEF whole, leaves, res
  <1>9. CASE key \in DOMAIN m_alarms
    <2>1. PICK old \in Leaves : /\ old.statusChange = listed /\ Told(old, ordered)
                                /\ MirrorsEntry(old, m_alarms[key])
      <3>1. m_alarms[key].shelf = ShelfFor(key)
        BY <1>9 DEF IInv, ShelfMatchesRules
      <3>2. CASE ShelfFor(key) = None
        <4>1. key \in Unshelved(m_alarms)
          BY <1>9, <3>1, <3>2 DEF Unshelved
        <4>2. /\ key \in DOMAIN m_edit.alarm /\ m_edit.alarm[key] \in AlarmRow
              /\ MirrorsEntry(m_edit.alarm[key].leaves, m_alarms[key])
          BY <4>1 DEF IInv, Coherent, MirrorsAlarms, RowsType
        <4> QED
          BY <3>2, <4>2 DEF ListedHistory, RowsTold, AlarmRow
      <3>3. CASE ShelfFor(key) # None
        <4>1. key \in Shelved(m_alarms)
          BY <1>9, <3>1, <3>3 DEF Shelved
        <4>2. /\ key \in DOMAIN m_edit.shelvedAlarm /\ m_edit.shelvedAlarm[key] \in ShelvedRow
              /\ MirrorsEntry(m_edit.shelvedAlarm[key].leaves, m_alarms[key])
          BY <4>1 DEF IInv, Coherent, MirrorsAlarms, RowsType
        <4> QED
          BY <3>3, <4>2 DEF ListedHistory, RowsTold, ShelvedRow
      <3> QED
        BY <3>2, <3>3
    <2> HIDE DEF listed
    <2>2. ordered => old.lastChanged < Now
      <3> SUFFICES ASSUME ordered PROVE old.lastChanged < Now
        OBVIOUS
      <3>1. m_alarms[key].lastChanged <= clock
        BY <1>9 DEF Ordered, HistoriesOrdered, HistoryOrdered
      <3>2. old.lastChanged = m_alarms[key].lastChanged /\ old.lastChanged \in Nat
        BY <2>1 DEF MirrorsEntry, Leaves, Time
      <3> QED
        BY <1>2, <3>1, <3>2
    <2>4. old.isCleared = m_alarms[key].isCleared /\ old.lastRaised = m_alarms[key].lastRaised
      BY <2>1 DEF MirrorsEntry
    <2>5. longer \in Seq(ListedChange)
      BY <1>7, <2>1 DEF Leaves
    <2> HIDE DEF first
    <2>6. whole \in Leaves /\ whole.statusChange = longer /\ Newest(whole) = first
          /\ whole.lastRaised = leaves.lastRaised /\ whole.lastChanged = Now
          /\ whole.isCleared = leaves.isCleared
      BY <1>1, <1>3, <1>6, <2>5 DEF Leaves, Newest
    <2> HIDE DEF whole
    <2>7. Told(whole, ordered)
      <3>1. whole.statusChange = <<Newest(whole)>> \o old.statusChange
        BY <2>1, <2>6
      <3>2. whole.isCleared => ~old.isCleared
        BY <1>5, <1>6, <1>9, <2>4, <2>6
      <3>3. whole.lastRaised = IF old.isCleared /\ ~whole.isCleared THEN Now ELSE old.lastRaised
        BY <1>5, <1>6, <1>9, <2>4, <2>6
      <3> QED
        BY <1>2, <2>1, <2>2, <2>6, <3>1, <3>2, <3>3, PrependTold
    <2> QED
      BY <1>1, <1>6, <2>6, <2>7, LeavesCut DEF whole, leaves, res, listed
  <1> QED
    BY <1>8, <1>9

EditTold(ordered) == RowsTold(m_edit.alarm, m_edit.shelvedAlarm, ordered)

LEMMA EditToldStep ==
    ASSUME IInv, NewInstant, NEW ordered \in BOOLEAN, ordered => Ordered,
           EditTold(ordered), [Next]_vars
    PROVE  EditTold(ordered)'
  <1>1. ASSUME NEW A, NEW S, m_edit'.alarm = A, m_edit'.shelvedAlarm = S, RowsTold(A, S, ordered)
        PROVE  EditTold(ordered)'
    <2>1. RowsTold(m_edit'.alarm, m_edit'.shelvedAlarm, ordered)
      BY <1>1
    <2> QED
      BY <2>1 DEF EditTold, RowsTold, Told, HeadTold, RaiseTold, Newest, ClearAt, LastClearAt
  <1>2. ASSUME UNCHANGED m_edit PROVE EditTold(ordered)'
    BY <1>1, <1>2 DEF EditTold
  <1>3. ASSUME NEW alarms, NEW A, NEW S, NEW stampA, NEW stampS,
               updateStatistics(alarms, A, S, stampA, stampS), RowsTold(A, S, ordered)
        PROVE  EditTold(ordered)'
    <2>1. m_edit'.alarm = A /\ m_edit'.shelvedAlarm = S
      BY <1>3 DEF updateStatistics
    <2> QED
      BY <1>1, <1>3, <2>1
  <1>4. ASSUME NEW input \in Submissions, NEW fails \in BOOLEAN, SubmitChanged(input, fails)
        PROVE  EditTold(ordered)'
    <2> DEFINE key  == input.key
               res  == WhatChanged(input)
               newA == UpdatedAlarmRows(input, res)
               newS == UpdatedShelvedRows(input, res)
    <2>1. /\ updateStatistics(Put(m_alarms, key, res.entry), newA, newS,
                              m_alarmListLastChanged, m_shelfListLastChanged)
          /\ ~IsRedundantClear(input) /\ res.changed /\ NowIsNew(key)
      BY <1>4 DEF SubmitChanged, NewInstant
    <2>2. LET listed == IF ShelfFor(key) = None THEN ListedHistory(m_edit.alarm, key)
                                                ELSE ListedHistory(m_edit.shelvedAlarm, key)
          IN  Told(UpdatedLeaves(listed, res.entry, res.removed), ordered)
      BY <2>1, UpdateTold DEF EditTold
    <2> HIDE DEF res
    <2>3. \A k \in DOMAIN newA : Told(newA[k].leaves, ordered)
      BY <2>2 DEF UpdatedAlarmRows, Put, EditTold, RowsTold
    <2>4. \A k \in DOMAIN newS : Told(newS[k].leaves, ordered)
      BY <2>2 DEF UpdatedShelvedRows, Put, EditTold, RowsTold
    <2>5. RowsTold(newA, newS, ordered)
      BY <2>3, <2>4 DEF RowsTold
    <2> HIDE DEF newA, newS
    <2> QED
      BY <1>3, <2>1, <2>5
  <1>5. ASSUME NEW shelved \in BOOLEAN, NEW filter \in PurgeInputs, NEW fails \in BOOLEAN,
               Purge(shelved, filter, fails)
        PROVE  EditTold(ordered)'
    <2> DEFINE purged == Purged(shelved, filter)
               newA == IF shelved THEN m_edit.alarm ELSE Without(m_edit.alarm, purged)
               newS == IF shelved THEN Without(m_edit.shelvedAlarm, purged)
                                  ELSE m_edit.shelvedAlarm
               stampA == IF shelved THEN m_alarmListLastChanged ELSE Now
               stampS == IF shelved THEN Now ELSE m_shelfListLastChanged
    <2>1. updateStatistics(Without(m_alarms, purged), newA, newS, stampA, stampS)
      BY <1>5 DEF Purge
    <2>2. RowsTold(newA, newS, ordered)
      BY DEF EditTold, RowsTold, Without
    <2> HIDE DEF newA, newS, stampA, stampS
    <2> QED
      BY <1>3, <2>1, <2>2
  <1>6. ASSUME NEW shelved \in BOOLEAN, NEW filter \in CompressInputs, NEW fails \in BOOLEAN,
               Compress(shelved, filter, fails)
        PROVE  EditTold(ordered)'
    <2> DEFINE keys == Compressed(shelved, filter)
               newA == UnlinkedRows(m_edit.alarm, m_alarms, keys \cap Unshelved(m_alarms), 1)
               newS == UnlinkedRows(m_edit.shelvedAlarm, m_alarms, keys \cap Shelved(m_alarms), 1)
    <2>1. m_edit' = EditWith(newA, newS)
      BY <1>6 DEF Compress
    <2>2. 1 \in Limit /\ clock \in Nat
      BY DEF Limit, IInv, TypeOK, CacheType, Time
    <2>3. RowsTold(newA, newS, ordered)
      BY <2>2, ShrinkTold DEF IInv, EditTold
    <2> HIDE DEF newA, newS
    <2> QED
      BY <1>1, <2>1, <2>3 DEF EditWith
  <1>7. ASSUME NEW fails \in BOOLEAN, ControlChanged(fails) PROVE EditTold(ordered)'
    <2> DEFINE changes     == Head(controlEvents)
               reshelves   == "alarm-shelving" \in DOMAIN changes
               rules       == IF reshelves THEN running.shelves ELSE m_shelvingRules
               moved       == reshelves /\ Moved(rules) # {}
               crossed     == moved /\ Unshelves(rules) \cup Shelves(rules) # {}
               alarms      == IF moved THEN ReshelvedAlarms(rules) ELSE m_alarms
               alarmRows   == IF moved THEN ReshelvedAlarmRows(rules) ELSE m_edit.alarm
               shelvedRows == IF moved THEN ReshelvedShelvedRows(rules)
                                       ELSE m_edit.shelvedAlarm
               max         == m_maxAlarmStatusChanges'
               overlong    == IF LimitShrinks(changes)
                                THEN Overlong(alarms, DOMAIN alarms, max) ELSE {}
               newA == UnlinkedRows(alarmRows, alarms, overlong \cap Unshelved(alarms), max)
               newS == UnlinkedRows(shelvedRows, alarms, overlong \cap Shelved(alarms), max)
               stampA == IF crossed THEN Now ELSE m_alarmListLastChanged
    <2>1. /\ moved => updateStatistics(alarms, newA, newS, stampA, Now)
          /\ ~moved => m_edit' = EditWith(newA, newS)
      BY <1>7 DEF ControlChanged
    <2>2. rules \in Seq(Shelf) /\ clock \in Nat
      BY RulesTyped DEF IInv, TypeOK, ControlType, DatastoreType, CacheType, Time
    <2>3. max \in Limit
      <3>1. IInv'
        BY <1>7, ControlChangedStep
      <3> QED
        BY <3>1 DEF IInv, TypeOK, ControlType, Limit
    <2>4. Coherent(alarms, alarmRows, shelvedRows) /\ RowsTold(alarmRows, shelvedRows, ordered)
      BY <2>2, ReshelveCoherent, ReshelveTold DEF IInv, EditTold
    <2> HIDE DEF alarms, alarmRows, shelvedRows, overlong, max, moved, stampA
    <2>5. RowsTold(newA, newS, ordered)
      BY <2>2, <2>3, <2>4, ShrinkTold
    <2> HIDE DEF newA, newS
    <2>6. CASE moved
      BY <1>3, <2>1, <2>5, <2>6
    <2>7. CASE ~moved
      BY <1>1, <2>1, <2>5, <2>7 DEF EditWith
    <2> QED
      BY <2>6, <2>7
  <1>8. CASE submitAlarm
    BY <1>2, <1>4, <1>8 DEF submitAlarm, RefuseClient, SubmitBadKey, SubmitReadFails, SubmitNotInInventory,
                            SubmitRedundantClear, SubmitUnchanged, cache
  <1>9. CASE purgeAlarms
    BY <1>2, <1>5, <1>9 DEF purgeAlarms, PurgeNothing, cache
  <1>10. CASE compressAlarms
    BY <1>2, <1>6, <1>10 DEF compressAlarms, CompressNothing, cache
  <1>11. CASE controlCallback
    BY <1>7, <1>11 DEF controlCallback
  <1>12. CASE InventoryChanged \/ Environment
    BY <1>2, <1>12 DEF InventoryChanged, Environment, EditControl, EditInventory, cache
  <1>13. CASE UNCHANGED vars
    BY <1>2, <1>13 DEF vars, cache
  <1> QED
    BY <1>8, <1>9, <1>10, <1>11, <1>12, <1>13 DEF Next
-----------------------------------------------------------------------------
(* What is published *)

AllTold(o) ==
    /\ \A k \in DOMAIN o.alarm :
          Told(o.alarm[k].leaves, TRUE) /\ Sorted(o.alarm[k].leaves.statusChange)
    /\ \A k \in DOMAIN o.shelvedAlarm :
          Told(o.shelvedAlarm[k].leaves, TRUE) /\ Sorted(o.shelvedAlarm[k].leaves.statusChange)

LEMMA EditSorted ==
    ASSUME NEW edit, NEW alarms, NEW now \in Nat,
           Coherent(alarms, edit.alarm, edit.shelvedAlarm), HistoriesOrdered(alarms, now),
           RowsTold(edit.alarm, edit.shelvedAlarm, TRUE)
    PROVE  AllTold(edit)
  <1>1. ASSUME NEW k \in DOMAIN edit.alarm PROVE Sorted(edit.alarm[k].leaves.statusChange)
    <2>1. /\ k \in DOMAIN alarms /\ alarms[k] \in AlarmEntryType
          /\ HistoryOrdered(alarms[k], now) /\ edit.alarm[k].leaves \in Leaves
          /\ MirrorsEntry(edit.alarm[k].leaves, alarms[k])
      BY DEF Coherent, AlarmsType, HistoriesOrdered, RowsType, AlarmRow, MirrorsAlarms, Unshelved
    <2> QED
      BY <2>1, MirrorSorted
  <1>2. ASSUME NEW k \in DOMAIN edit.shelvedAlarm
        PROVE  Sorted(edit.shelvedAlarm[k].leaves.statusChange)
    <2>1. /\ k \in DOMAIN alarms /\ alarms[k] \in AlarmEntryType
          /\ HistoryOrdered(alarms[k], now) /\ edit.shelvedAlarm[k].leaves \in Leaves
          /\ MirrorsEntry(edit.shelvedAlarm[k].leaves, alarms[k])
      BY DEF Coherent, AlarmsType, HistoriesOrdered, RowsType, ShelvedRow, MirrorsAlarms, Shelved
    <2> QED
      BY <2>1, MirrorSorted
  <1> QED
    BY <1>1, <1>2 DEF AllTold, RowsTold

PublishedTold == EditTold(TRUE) /\ AllTold(oper)

LEMMA PublishedToldStep ==
    IInv /\ Ordered /\ IInv' /\ Ordered' /\ PublishedTold /\ [Next]_vars => PublishedTold'
  <1> USE DEF PublishedTold
  <1> SUFFICES ASSUME IInv, Ordered, IInv', Ordered', PublishedTold, [Next]_vars
               PROVE  PublishedTold'
    OBVIOUS
  <1> USE DEF Told, HeadTold, RaiseTold, Newest, ClearAt, LastClearAt, Sorted
  <1>1. EditTold(TRUE)'
    BY OrderedIsNew, EditToldStep DEF NewInstant
  <1>2. AllTold(m_edit')
    <2>1. /\ Coherent(m_alarms', m_edit'.alarm, m_edit'.shelvedAlarm)
          /\ HistoriesOrdered(m_alarms', clock') /\ clock' \in Nat
      BY DEF IInv, TypeOK, CacheType, Time, Ordered, HistoriesOrdered, HistoryOrdered
    <2>2. RowsTold(m_edit'.alarm, m_edit'.shelvedAlarm, TRUE)
      BY <1>1 DEF EditTold, RowsTold
    <2> QED
      BY <2>1, <2>2, EditSorted
  <1>3. AllTold(oper')
    <2>1. oper' = oper \/ oper' = m_edit'
      BY KeptOrReplaced
    <2> QED
      BY <1>2, <2>1
  <1> QED
    BY <1>1, <1>3 DEF AllTold

LEMMA InitTold == Init => PublishedTold
  BY DEF Init, NoRows, AllTold, EditTold, RowsTold, PublishedTold

LEMMA AlwaysTold == Spec => []PublishedTold
  BY InitTold, PublishedToldStep, Invariance, PTL DEF Spec

LEMMA PublishedLeavesTold ==
    ASSUME PublishedTold, NEW leaves \in PublishedLeaves
    PROVE  Told(leaves, TRUE) /\ Sorted(leaves.statusChange)
  BY DEF PublishedTold, AllTold, PublishedLeaves

LEMMA ToldIsFirst == PublishedTold => LatestChangeFirst
  BY PublishedLeavesTold DEF LatestChangeFirst, Told, HeadTold, Newest, Sorted

LEMMA ToldFollows == TypeOK /\ PublishedTold => LastRaisedFollowsHistory
  <1>1. ASSUME TypeOK, PublishedTold, NEW leaves \in PublishedLeaves
        PROVE  LET list == leaves.statusChange IN
               IF Clears(list) # {} THEN leaves.lastRaised = RaiseTime(list)
                 ELSE \A i \in DOMAIN list : leaves.lastRaised <= list[i].time
    <2> DEFINE list == leaves.statusChange
    <2>1. list \in Seq(ListedChange) /\ Len(list) \in Nat /\ DOMAIN list = 1..Len(list)
      BY <1>1 DEF TypeOK, DatastoreType, RowsType, PublishedLeaves, AlarmRow, ShelvedRow, Leaves
    <2>2. Told(leaves, TRUE)
      BY <1>1, PublishedLeavesTold
    <2>3. CASE Clears(list) # {}
      BY <2>1, <2>2, <2>3, RaiseTimeTold DEF Told
    <2>4. CASE Clears(list) = {}
      BY <2>1, <2>2, <2>4 DEF Told, RaiseTold, ClearAt, Clears
    <2> QED
      BY <2>3, <2>4
  <1> QED
    BY <1>1 DEF LastRaisedFollowsHistory

(* Every published history is ordered newest first, and its first item is  *)
(* the state that the leaves of the row show (updateStatusChangeList(),    *)
(* Daemon.cpp:334), also when publications fail.                           *)
THEOREM LatestChangeIsFirst == Spec => []LatestChangeFirst
  BY ToldIsFirst, AlwaysTold, PTL

(* last-raised is the instant of the raise that the published history      *)
(* shows, if it still does, and otherwise no later than what it shows      *)
(* (Daemon.cpp:287-290), also when publications fail.                      *)
THEOREM LastRaisedIsRight == Spec => []LastRaisedFollowsHistory
  BY ToldFollows, AlwaysTold, TypeCorrect, PTL
-----------------------------------------------------------------------------
(* No history is empty *)

LimitsPositive == \A c \in Configs : c.maxAlarmStatusChanges # 0

AlarmsFilled(alarms) == \A k \in DOMAIN alarms : alarms[k].statusChanges # <<>>
RowsFilled(o) ==
    /\ \A k \in DOMAIN o.alarm : o.alarm[k].leaves.statusChange # <<>>
    /\ \A k \in DOMAIN o.shelvedAlarm : o.shelvedAlarm[k].leaves.statusChange # <<>>
Filled == AlarmsFilled(m_alarms) /\ RowsFilled(oper)

LEMMA LimitFromConfig ==
    ASSUME LimitsPositive, TypeOK, Followed PROVE m_maxAlarmStatusChanges # 0
  <1>1. PICK path : IsPath(path)
    BY DEF Followed
  <1>2. 0 \in 0..Len(controlEvents)
    BY DEF TypeOK, DatastoreType
  <1>3. path[0] \in Configs /\ Holds(path[0])
    BY <1>1, <1>2 DEF IsPath
  <1> QED
    BY <1>3 DEF LimitsPositive, Holds, Cached, ConfigValue, Settings

LEMMA ShrunkFilled ==
    ASSUME NEW S, NEW h \in Seq(S), h # <<>>, NEW max \in Limit, max # 0
    PROVE  Shrunk(h, max) # <<>>
  <1>1. toErase(h, max) \in 0..(Len(h) - 1)
    BY NoneAssumption DEF toErase, Limit
  <1> QED
    BY <1>1, ShrunkSuffix

LEMMA ShrunkAlarmsFilled ==
    ASSUME NEW alarms, AlarmsType(alarms), AlarmsFilled(alarms), NEW keys,
           NEW max \in Limit, max # 0
    PROVE  AlarmsFilled(ShrunkAlarms(alarms, keys, max))
  <1> SUFFICES ASSUME NEW k \in DOMAIN alarms
               PROVE  ShrunkAlarms(alarms, keys, max)[k].statusChanges # <<>>
    BY DEF AlarmsFilled, ShrunkAlarms
  <1>1. alarms[k] \in AlarmEntryType /\ alarms[k].statusChanges # <<>>
    BY DEF AlarmsType, AlarmsFilled
  <1>2. alarms[k].statusChanges \in Seq(StatusChange)
    BY <1>1 DEF AlarmEntryType
  <1>3. Shrunk(alarms[k].statusChanges, max) # <<>>
    BY <1>1, <1>2, ShrunkFilled
  <1>4. ShrunkAlarms(alarms, keys, max)[k] =
           IF k \in keys
             THEN [alarms[k] EXCEPT !.statusChanges = Shrunk(alarms[k].statusChanges, max)]
             ELSE alarms[k]
    BY DEF ShrunkAlarms
  <1> QED
    BY <1>1, <1>3, <1>4 DEF AlarmEntryType

(* An update that changes something appends to the history before it cuts. *)
LEMMA UpdateFilled ==
    ASSUME IInv, m_maxAlarmStatusChanges # 0, NEW input \in Submissions,
           WhatChanged(input).changed
    PROVE  WhatChanged(input).entry.statusChanges # <<>>
  <1> DEFINE wasPresent == input.key \in DOMAIN m_alarms
             entry      == IF wasPresent THEN m_alarms[input.key] ELSE DefaultEntry
             max        == m_maxAlarmStatusChanges
             history    == WhatChanged(input).entry.statusChanges
  <1>1. entry.statusChanges \in Seq(StatusChange)
    BY DEF IInv, TypeOK, CacheType, AlarmsType, AlarmEntryType, DefaultEntry
  <1>2. max \in Limit
    BY DEF IInv, TypeOK, ControlType, Limit
  <1>3. PICK change : history = Shrunk(Append(entry.statusChanges, change), max)
    BY DEF WhatChanged, updateByRpc
  <1> HIDE DEF entry, max, history
  <1> DEFINE all   == StatusChange \cup {change}
             whole == Append(entry.statusChanges, change)
  <1>4. entry.statusChanges \in Seq(all)
    BY <1>1
  <1>5. whole \in Seq(all) /\ whole # <<>>
    BY <1>4
  <1> HIDE DEF all, whole
  <1>6. Shrunk(whole, max) # <<>>
    BY <1>2, <1>5, ShrunkFilled DEF max
  <1> QED
    BY <1>3, <1>6 DEF whole, history

LEMMA AlarmsFilledStep ==
    ASSUME IInv, AlarmsFilled(m_alarms), m_maxAlarmStatusChanges # 0,
           m_maxAlarmStatusChanges' # 0, [Next]_vars
    PROVE  AlarmsFilled(m_alarms')
  <1>1. AlarmsType(m_alarms)
    BY DEF IInv, TypeOK, CacheType
  <1>2. ASSUME UNCHANGED m_alarms PROVE AlarmsFilled(m_alarms')
    BY <1>2
  <1>3. ASSUME NEW input \in Submissions, SubmitUnchanged(input) PROVE AlarmsFilled(m_alarms')
    <2>1. /\ input.key \in DOMAIN m_alarms
          /\ WhatChanged(input).entry = m_alarms[input.key]
          /\ m_alarms' = Put(m_alarms, input.key, WhatChanged(input).entry)
      BY <1>3, WhatChangedFacts DEF SubmitUnchanged
    <2> QED
      BY <2>1 DEF Put, AlarmsFilled
  <1>4. ASSUME NEW input \in Submissions, NEW fails \in BOOLEAN, SubmitChanged(input, fails)
        PROVE  AlarmsFilled(m_alarms')
    <2>1. /\ m_alarms' = Put(m_alarms, input.key, WhatChanged(input).entry)
          /\ WhatChanged(input).changed
      BY <1>4 DEF SubmitChanged
    <2>2. WhatChanged(input).entry.statusChanges # <<>>
      BY <2>1, UpdateFilled
    <2> QED
      BY <2>1, <2>2 DEF Put, AlarmsFilled
  <1>5. ASSUME NEW shelved \in BOOLEAN, NEW filter \in PurgeInputs, NEW fails \in BOOLEAN,
               Purge(shelved, filter, fails)
        PROVE  AlarmsFilled(m_alarms')
    <2>1. m_alarms' = Without(m_alarms, Purged(shelved, filter))
      BY <1>5 DEF Purge
    <2> QED
      BY <2>1 DEF Without, AlarmsFilled
  <1>6. ASSUME NEW shelved \in BOOLEAN, NEW filter \in CompressInputs, NEW fails \in BOOLEAN,
               Compress(shelved, filter, fails)
        PROVE  AlarmsFilled(m_alarms')
    <2>1. m_alarms' = ShrunkAlarms(m_alarms, Compressed(shelved, filter), 1) /\ 1 \in Limit
      BY <1>6 DEF Compress, Limit
    <2> QED
      BY <1>1, <2>1, ShrunkAlarmsFilled
  <1>7. ASSUME NEW fails \in BOOLEAN, ControlChanged(fails) PROVE AlarmsFilled(m_alarms')
    <2> DEFINE changes   == Head(controlEvents)
               reshelves == "alarm-shelving" \in DOMAIN changes
               rules     == IF reshelves THEN running.shelves ELSE m_shelvingRules
               moved     == reshelves /\ Moved(rules) # {}
               alarms    == IF moved THEN ReshelvedAlarms(rules) ELSE m_alarms
               max       == m_maxAlarmStatusChanges'
               overlong  == IF LimitShrinks(changes)
                              THEN Overlong(alarms, DOMAIN alarms, max) ELSE {}
    <2>1. m_alarms' = ShrunkAlarms(alarms, overlong, max)
      BY <1>7 DEF ControlChanged
    <2>2. max \in Limit
      <3>1. IInv'
        BY <1>7, ControlChangedStep
      <3> QED
        BY <3>1 DEF IInv, TypeOK, ControlType, Limit
    <2>3. rules \in Seq(Shelf)
      BY RulesTyped DEF IInv
    <2>4. AlarmsType(ReshelvedAlarms(rules)) /\ AlarmsFilled(ReshelvedAlarms(rules))
      BY <1>1, <2>3, ReshelveCoherent, ReshelvedKeep DEF IInv, Coherent, AlarmsFilled, TypeOK,
         CacheType, Time
    <2> HIDE DEF rules, overlong
    <2>5. AlarmsType(alarms) /\ AlarmsFilled(alarms)
      BY <1>1, <2>4
    <2> HIDE DEF alarms, max
    <2> QED
      BY <2>1, <2>2, <2>5, ShrunkAlarmsFilled DEF max
  <1>8. CASE submitAlarm
    BY <1>2, <1>3, <1>4, <1>8 DEF submitAlarm, RefuseClient, SubmitBadKey, SubmitReadFails,
                                  SubmitNotInInventory, SubmitRedundantClear, cache
  <1>9. CASE purgeAlarms
    BY <1>2, <1>5, <1>9 DEF purgeAlarms, PurgeNothing, cache
  <1>10. CASE compressAlarms
    BY <1>2, <1>6, <1>10 DEF compressAlarms, CompressNothing, cache
  <1>11. CASE controlCallback
    BY <1>7, <1>11 DEF controlCallback
  <1>12. CASE InventoryChanged \/ Environment
    BY <1>2, <1>12 DEF InventoryChanged, Environment, EditControl, EditInventory, cache
  <1>13. CASE UNCHANGED vars
    BY <1>2, <1>13 DEF vars, cache
  <1> QED
    BY <1>8, <1>9, <1>10, <1>11, <1>12, <1>13 DEF Next

(* The rows that mirror filled histories are filled.                       *)
LEMMA EditFilled == IInv /\ AlarmsFilled(m_alarms) => RowsFilled(m_edit)
  <1> SUFFICES ASSUME IInv, AlarmsFilled(m_alarms) PROVE RowsFilled(m_edit)
    OBVIOUS
  <1>1. ASSUME NEW leaves \in Leaves, NEW k \in DOMAIN m_alarms, MirrorsEntry(leaves, m_alarms[k])
        PROVE  leaves.statusChange # <<>>
    <2>1. /\ leaves.statusChange \in Seq(ListedChange)
          /\ m_alarms[k].statusChanges \in Seq(StatusChange)
          /\ m_alarms[k].statusChanges # <<>>
          /\ Len(leaves.statusChange) = Len(m_alarms[k].statusChanges)
      BY <1>1 DEF Leaves, MirrorsEntry, MirrorsHistory, AlarmsFilled, IInv, TypeOK, CacheType,
                  AlarmsType, AlarmEntryType
    <2> QED
      BY <2>1
  <1>2. /\ \A k \in DOMAIN m_edit.alarm :
              /\ k \in DOMAIN m_alarms /\ m_edit.alarm[k].leaves \in Leaves
              /\ MirrorsEntry(m_edit.alarm[k].leaves, m_alarms[k])
        /\ \A k \in DOMAIN m_edit.shelvedAlarm :
              /\ k \in DOMAIN m_alarms /\ m_edit.shelvedAlarm[k].leaves \in Leaves
              /\ MirrorsEntry(m_edit.shelvedAlarm[k].leaves, m_alarms[k])
    BY DEF IInv, Coherent, RowsType, AlarmRow, ShelvedRow, MirrorsAlarms, Unshelved, Shelved
  <1> QED
    BY <1>1, <1>2 DEF RowsFilled

(* "min-elements 1" of status-change holds if no configuration has the     *)
(* limit 0, whatever shrinks, is compressed, moves or fails to be          *)
(* published: the zero limit is the only way to an empty history.          *)
THEOREM HistoryNeverEmptied == LimitsPositive => (Spec => []HistoryNeverEmpty)
  <1> SUFFICES ASSUME LimitsPositive PROVE Spec => []HistoryNeverEmpty
    OBVIOUS
  <1>1. Init => Filled
    BY DEF Init, NoRows, Filled, AlarmsFilled, RowsFilled
  <1>2. IInv /\ IInv' /\ Followed /\ Followed' /\ Filled /\ [Next]_vars => Filled'
    <2> SUFFICES ASSUME IInv, IInv', Followed, Followed', Filled, [Next]_vars PROVE Filled'
      OBVIOUS
    <2>1. m_maxAlarmStatusChanges # 0 /\ m_maxAlarmStatusChanges' # 0
      <3>1. (m_maxAlarmStatusChanges # 0)'
        BY LimitFromConfig, PTL DEF IInv
      <3> QED
        BY <3>1, LimitFromConfig DEF IInv
    <2>2. AlarmsFilled(m_alarms')
      BY <2>1, AlarmsFilledStep DEF Filled
    <2>3. RowsFilled(m_edit')
      <3>1. AlarmsFilled(m_alarms)'
        BY <2>2 DEF AlarmsFilled
      <3>2. RowsFilled(m_edit)'
        BY <3>1, EditFilled, PTL
      <3> QED
        BY <3>2 DEF RowsFilled
    <2>4. RowsFilled(oper')
      BY <2>3, KeptOrReplaced DEF Filled
    <2> QED
      BY <2>2, <2>4 DEF Filled, AlarmsFilled, RowsFilled
  <1>3. Filled => HistoryNeverEmpty
    BY DEF Filled, RowsFilled, HistoryNeverEmpty, PublishedLeaves
  <1> QED
    BY <1>1, <1>2, <1>3, Invariance, AlwaysFollowed, PTL DEF Spec
=============================================================================
