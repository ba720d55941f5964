---------------------------- MODULE DaemonProofs ----------------------------
(***************************************************************************)
(* Theorems about Daemon for every value of its constants.  The inductive  *)
(* invariant says that the edit tree mirrors the cache and that no history *)
(* has an instant twice: otherwise the instants that shrinking discards    *)
(* need not be the tail of the listed history.  It holds wherever the      *)
(* clock goes, as long as a submission records a new instant (IInvStep);   *)
(* that the clock only advances gives the order of the histories           *)
(* (OrderedStep), and the order gives the new instant.                     *)
(***************************************************************************)
EXTENDS Daemon, FiniteSetTheorems, SequenceTheorems, WellFoundedInduction, TLAPS

(* No instant is twice in a history.                                       *)
Distinct(history) ==
    \A i, j \in DOMAIN history : history[i].time = history[j].time => i = j

(* Cached histories are ordered, and nothing in them is later than the     *)
(* entry's last change, nor that later than now.                           *)
HistoryOrdered(entry, now) ==
    LET history == entry.statusChanges IN
    /\ \A i, j \in DOMAIN history : i < j => history[i].time < history[j].time
    /\ \A i \in DOMAIN history : history[i].time <= entry.lastChanged
    /\ entry.lastChanged <= now

HistoriesOrdered(alarms, now) == \A k \in DOMAIN alarms : HistoryOrdered(alarms[k], now)

(* The part of the invariant that is about the cache and the edit tree.    *)
Coherent(alarms, alarmRows, shelvedRows) ==
    /\ AlarmsType(alarms)
    /\ RowsType(alarmRows, shelvedRows)
    /\ MirrorsAlarms(alarmRows, shelvedRows, alarms)
    /\ \A k \in DOMAIN alarms : Distinct(alarms[k].statusChanges)

(* The instant that a submission of the alarm would record is new to it.   *)
IsNewTo(instant, history) == \A i \in DOMAIN history : history[i].time # instant

NowIsNew(key) == key \in DOMAIN m_alarms => IsNewTo(Now, m_alarms[key].statusChanges)

Limit == Nat \cup {None}
Submission == [key : InstanceKey, text : Text, severity : Severities \cup {ClearedSeverity}]
-----------------------------------------------------------------------------
(* Operators of the model *)

LEMMA SmallestOf ==
    ASSUME NEW S, S \subseteq Nat, S # {}
    PROVE  \E n \in S : \A m \in S : n <= m
  <1> DEFINE Less == {pair \in Nat \X Nat : pair[1] < pair[2]}
  <1>1. IsWellFoundedOn(Less, Nat)
    BY NatLessThanWellFounded DEF OpToRel
  <1>2. PICK n \in S : \A m \in S : <<m, n>> \notin Less
    <2> HIDE DEF Less
    <2> QED
      BY <1>1, WFMin
  <1>3. \A m \in S : ~(m < n)
    BY <1>2
  <1> QED
    BY <1>3

(* The shelf of an alarm is one of the configured names, or none.          *)
LEMMA ShelfTyped ==
    ASSUME NEW key, NEW shelves \in Seq(Shelf)
    PROVE  findMatchingShelf(key, shelves) \in ShelfName \cup {None}
  <1>1. CASE \E i \in DOMAIN shelves : IsFirstMatch(key, shelves, i)
    <2> DEFINE i == CHOOSE j \in DOMAIN shelves : IsFirstMatch(key, shelves, j)
    <2>1. i \in DOMAIN shelves
      BY <1>1
    <2>2. findMatchingShelf(key, shelves) = shelves[i].name
      BY <1>1 DEF findMatchingShelf
    <2> HIDE DEF i
    <2>3. shelves[i] \in Shelf
      BY <2>1
    <2> QED
      BY <2>2, <2>3 DEF Shelf
  <1>2. CASE ~ \E i \in DOMAIN shelves : IsFirstMatch(key, shelves, i)
    BY <1>2 DEF findMatchingShelf
  <1> QED
    BY <1>1, <1>2

(* Shrinking keeps a suffix of at most max changes, nothing if max is 0.   *)
LEMMA EraseBounds ==
    ASSUME NEW S, NEW h \in Seq(S), NEW max \in Limit
    PROVE  /\ toErase(h, max) \in 0..Len(h)
           /\ max # None => Len(h) - toErase(h, max) <= max
  BY NoneAssumption DEF toErase, Limit

LEMMA ShrunkSuffix ==
    ASSUME NEW S, NEW h \in Seq(S), NEW max \in Limit
    PROVE  /\ Shrunk(h, max) \in Seq(S)
           /\ Len(Shrunk(h, max)) = Len(h) - toErase(h, max)
           /\ \A i \in 1..Len(Shrunk(h, max)) : Shrunk(h, max)[i] = h[i + toErase(h, max)]
           /\ max # None => Len(Shrunk(h, max)) <= max
  <1> DEFINE e == toErase(h, max)
  <1>1. e \in 0..Len(h) /\ (max # None => Len(h) - e <= max)
    BY EraseBounds
  <1>2. Shrunk(h, max) = SubSeq(h, e + 1, Len(h))
    BY DEF Shrunk
  <1> HIDE DEF e
  <1>3. SubSeq(h, e + 1, Len(h)) \in Seq(S)
    BY <1>1
  <1>4. /\ Len(SubSeq(h, e + 1, Len(h))) = Len(h) - e
        /\ \A i \in 1..(Len(h) - e) : SubSeq(h, e + 1, Len(h))[i] = h[i + e]
    BY <1>1
  <1> QED
    BY <1>1, <1>2, <1>3, <1>4 DEF e

(* Unlinking exactly the entries behind position m leaves the first m.     *)
LEMMA UnlinkTail ==
    ASSUME NEW S, NEW list \in Seq(S), NEW times, NEW m \in 0..Len(list),
           \A i \in 1..Len(list) : list[i].time \in times <=> i > m
    PROVE  /\ Unlink(list, times) \in Seq(S)
           /\ Len(Unlink(list, times)) = m
           /\ \A i \in 1..m : Unlink(list, times)[i] = list[i]
  <1> DEFINE kept   == {i \in DOMAIN list : list[i].time \notin times}
             nth(n) == CHOOSE i \in kept : Cardinality(kept \cap 1..i) = n
  <1>1. kept = 1..m
    OBVIOUS
  <1>2. Cardinality(kept) = m
    <2>1. Cardinality(1..m) = m
      BY FS_Interval
    <2> QED
      BY <1>1, <2>1
  <1>3. \A i \in 1..m : kept \cap 1..i = 1..i
    BY <1>1
  <1>4. \A i \in 1..m : Cardinality(kept \cap 1..i) = i
    <2> TAKE i \in 1..m
    <2>1. Cardinality(1..i) = i
      BY FS_Interval
    <2> QED
      BY <2>1, <1>3
  <1>5. \A n \in 1..m : nth(n) = n
    BY <1>1, <1>4
  <1>6. Unlink(list, times) = [n \in 1..m |-> list[nth(n)]]
    BY <1>2 DEF Unlink
  <1> HIDE DEF kept, nth
  <1>7. Unlink(list, times) = [n \in 1..m |-> list[n]]
    BY <1>5, <1>6
  <1> QED
    BY <1>7

(* One listed history is another one without some of its oldest changes.   *)
IsCutOf(short, list) ==
    Len(short) <= Len(list) /\ \A i \in 1..Len(short) : short[i] = list[i]

(* The history that shrinking leaves in the edit tree is the mirror image  *)
(* of the one it leaves in the cache.                                      *)
LEMMA ShrinkMirrored ==
    ASSUME NEW entry \in AlarmEntryType, Distinct(entry.statusChanges),
           NEW listed \in Seq(ListedChange), MirrorsHistory(listed, entry.statusChanges),
           NEW max \in Limit
    PROVE  LET kept   == Shrunk(entry.statusChanges, max)
               remain == Unlink(listed, Discarded(entry.statusChanges, max))
           IN  /\ remain \in Seq(ListedChange)
               /\ IsCutOf(remain, listed)
               /\ MirrorsHistory(remain, kept)
               /\ Distinct(kept)
               /\ [entry EXCEPT !.statusChanges = kept] \in AlarmEntryType
  <1> DEFINE h      == entry.statusChanges
             n      == Len(h)
             e      == toErase(h, max)
             kept   == Shrunk(h, max)
             gone   == Discarded(h, max)
             remain == Unlink(listed, gone)
  <1>1. h \in Seq(StatusChange) /\ n \in Nat /\ e \in 0..n
    BY EraseBounds DEF AlarmEntryType
  <1>2. \A i, j \in 1..n : h[i].time = h[j].time => i = j
    BY <1>1 DEF Distinct
  <1>4. Len(listed) = n /\ \A i \in 1..n : /\ listed[i].time = h[n + 1 - i].time
                                         /\ listed[i].text = h[n + 1 - i].text
                                         /\ listed[i].severity \in
                                              {h[n + 1 - i].perceivedSeverity, ClearedSeverity}
    BY <1>1 DEF MirrorsHistory
  <1>5. gone = {h[i].time : i \in 1..e}
    BY DEF Discarded
  <1>6. kept \in Seq(StatusChange) /\ Len(kept) = n - e
        /\ \A i \in 1..(n - e) : kept[i] = h[i + e]
    BY <1>1, ShrunkSuffix
  <1> HIDE DEF h, n, e, kept, gone
  <1>7. \A i \in 1..Len(listed) : listed[i].time \in gone <=> i > n - e
    <2> SUFFICES ASSUME NEW i \in 1..n
                 PROVE  listed[i].time \in gone <=> i > n - e
      BY <1>4
    <2>1. listed[i].time = h[n + 1 - i].time /\ n + 1 - i \in 1..n
      BY <1>1, <1>4
    <2>2. ASSUME i > n - e PROVE listed[i].time \in gone
      <3>1. n + 1 - i \in 1..e
        BY <1>1, <2>2
      <3> QED
        BY <2>1, <3>1, <1>5
    <2>3. ASSUME listed[i].time \in gone PROVE i > n - e
      <3>1. PICK j \in 1..e : h[j].time = h[n + 1 - i].time
        BY <2>1, <2>3, <1>5
      <3>2. j \in 1..n
        BY <1>1
      <3>3. j = n + 1 - i
        BY <1>2, <2>1, <3>1, <3>2
      <3> QED
        BY <3>3, <1>1
    <2> QED
      BY <2>2, <2>3
  <1>8. n - e \in 0..Len(listed)
    BY <1>1, <1>4
  <1>9. /\ remain \in Seq(ListedChange)
        /\ Len(remain) = n - e
        /\ \A i \in 1..(n - e) : remain[i] = listed[i]
    BY <1>7, <1>8, UnlinkTail
  <1> HIDE DEF remain
  <1>10. MirrorsHistory(remain, kept)
    <2> SUFFICES ASSUME NEW i \in 1..(n - e)
                 PROVE  LET c == kept[n - e + 1 - i] IN
                        /\ remain[i].time = c.time
                        /\ remain[i].text = c.text
                        /\ remain[i].severity \in {c.perceivedSeverity, ClearedSeverity}
      BY <1>6, <1>9 DEF MirrorsHistory
    <2>1. n - e + 1 - i \in 1..(n - e) /\ (n - e + 1 - i) + e = n + 1 - i /\ i \in 1..n
      BY <1>1
    <2>2. kept[n - e + 1 - i] = h[n + 1 - i]
      BY <2>1, <1>6
    <2> QED
      BY <2>1, <2>2, <1>4, <1>9
  <1>11. Distinct(kept)
    <2> SUFFICES ASSUME NEW i \in 1..(n - e), NEW j \in 1..(n - e), kept[i].time = kept[j].time
                 PROVE  i = j
      BY <1>6 DEF Distinct
    <2>1. i + e \in 1..n /\ j + e \in 1..n
      BY <1>1
    <2>2. i + e = j + e
      BY <2>1, <1>2, <1>6
    <2> QED
      BY <1>1, <2>2
  <1>12. [entry EXCEPT !.statusChanges = kept] \in AlarmEntryType
    BY <1>6 DEF AlarmEntryType
  <1>13. IsCutOf(remain, listed)
    BY <1>8, <1>9 DEF IsCutOf
  <1> QED
    BY <1>9, <1>10, <1>11, <1>12, <1>13 DEF h, kept, gone, remain

(* What updateByRpc() is called with: an entry that is present and the     *)
(* history listed for it, or neither.  What it then makes of them.         *)
UpdateInput(now, input, wasPresent, entry, shelf, max, listed) ==
    /\ now \in Nat
    /\ input \in Submission
    /\ wasPresent \in BOOLEAN
    /\ shelf \in ShelfName \cup {None}
    /\ max \in Limit
    /\ listed \in Seq(ListedChange)
    /\ wasPresent => /\ entry \in AlarmEntryType
                     /\ Distinct(entry.statusChanges)
                     /\ MirrorsHistory(listed, entry.statusChanges)
    /\ ~wasPresent => /\ entry = DefaultEntry
                      /\ listed = <<>>
                      /\ input.severity # ClearedSeverity

UpdateOutcome(now, wasPresent, entry, shelf, max, listed, res) ==
    LET leaves == UpdatedLeaves(listed, res.entry, res.removed)
    IN  /\ res.entry.shelf = IF wasPresent THEN entry.shelf ELSE shelf
        /\ ~res.changed => wasPresent /\ res.entry = entry
        /\ res.changed => /\ res.entry \in AlarmEntryType
                          /\ max # None => Len(res.entry.statusChanges) <= max
        /\ res.changed /\ IsNewTo(now, entry.statusChanges) =>
              /\ Distinct(res.entry.statusChanges)
              /\ leaves \in Leaves
              /\ MirrorsEntry(leaves, res.entry)
              /\ IsCutOf(leaves.statusChange, <<NewStatusChange(res.entry)>> \o listed)

(* updateByRpc() on an entry that is present, or on a default-constructed  *)
(* one when the update is a raise: an update that changes something keeps  *)
(* the entry typed and the history bounded and, if its instant is a new    *)
(* one, all instants distinct and the row a mirror; any other leaves the   *)
(* entry as it was.                                                        *)
LEMMA UpdateMirrored ==
    ASSUME NEW now, NEW input, NEW wasPresent, NEW entry, NEW shelf, NEW notify,
           NEW threshold, NEW max, NEW listed, NEW res,
           UpdateInput(now, input, wasPresent, entry, shelf, max, listed),
           res = updateByRpc(entry, wasPresent, now, input, shelf, notify, threshold, max)
    PROVE  UpdateOutcome(now, wasPresent, entry, shelf, max, listed, res)
  <1> USE DEF UpdateInput
  <1> DEFINE severity == IF input.severity > ClearedSeverity THEN input.severity
                                                            ELSE entry.lastSeverity
             change  == [time |-> now, perceivedSeverity |-> severity, text |-> input.text]
             history == Append(entry.statusChanges, change)
             full    == [created       |-> IF wasPresent THEN entry.created ELSE now,
                         lastRaised    |-> IF IsRaise(entry, wasPresent,
                                                      input.severity = ClearedSeverity)
                                             THEN now ELSE entry.lastRaised,
                         lastChanged   |-> now,
                         text          |-> input.text,
                         shelf         |-> IF wasPresent THEN entry.shelf ELSE shelf,
                         lastSeverity  |-> severity,
                         isCleared     |-> input.severity = ClearedSeverity,
                         statusChanges |-> history]
             first   == NewStatusChange(res.entry)
  <1>1. /\ input.text \in Text /\ input.severity \in 1..6 /\ input.key \in InstanceKey
    BY DEF Submission, Severities, ClearedSeverity
  <1>2. severity \in Severities
    BY <1>1 DEF AlarmEntryType, Severities, ClearedSeverity
  <1>3. res.entry.shelf = IF wasPresent THEN entry.shelf ELSE shelf
    BY DEF updateByRpc
  <1>4. ASSUME ~res.changed PROVE wasPresent /\ res.entry = entry
    <2>1. wasPresent /\ entry \in AlarmEntryType
      BY <1>1, <1>4 DEF updateByRpc
    <2>2. /\ entry.isCleared = (input.severity = ClearedSeverity)
          /\ input.text = entry.text
          /\ input.severity = entry.lastSeverity
      BY <1>4, <2>1 DEF updateByRpc
    <2>3. input.severity # ClearedSeverity /\ input.severity > ClearedSeverity
      BY <2>1, <2>2 DEF AlarmEntryType, Severities, ClearedSeverity
    <2> QED
      BY <1>4, <2>1, <2>2, <2>3 DEF updateByRpc, AlarmEntryType, IsRaise, StoredSeverity
  <1>5. ASSUME res.changed
        PROVE  /\ res.entry = [full EXCEPT !.statusChanges = Shrunk(history, max)]
               /\ res.removed = Discarded(history, max)
    <2>1. StoredSeverity(input.severity, IF wasPresent THEN entry.lastSeverity ELSE -1) = severity
      BY <1>1 DEF StoredSeverity, ClearedSeverity
    <2> QED
      BY <1>5, <2>1 DEF updateByRpc
  <1>6. ASSUME res.changed
        PROVE  /\ res.entry \in AlarmEntryType
               /\ max # None => Len(res.entry.statusChanges) <= max
               /\ IsNewTo(now, entry.statusChanges) =>
                     /\ Distinct(res.entry.statusChanges)
                     /\ UpdatedLeaves(listed, res.entry, res.removed) \in Leaves
                     /\ MirrorsEntry(UpdatedLeaves(listed, res.entry, res.removed), res.entry)
                     /\ IsCutOf(UpdatedLeaves(listed, res.entry, res.removed).statusChange,
                                <<NewStatusChange(res.entry)>> \o listed)
    <2>1. /\ entry.statusChanges \in Seq(StatusChange)
          /\ entry.lastRaised \in Time /\ entry.created \in Time
          /\ Len(listed) = Len(entry.statusChanges)
          /\ wasPresent => entry.shelf \in ShelfName \cup {None}
      BY DEF AlarmEntryType, MirrorsHistory, DefaultEntry, Time
    <2>2. change \in StatusChange
      BY <1>1, <1>2 DEF StatusChange, Time
    <2>3. /\ history \in Seq(StatusChange)
          /\ Len(history) = Len(entry.statusChanges) + 1
          /\ history[Len(history)] = change
          /\ \A i \in 1..Len(entry.statusChanges) : history[i] = entry.statusChanges[i]
      BY <2>1, <2>2
    <2>4. full \in AlarmEntryType
      <3> HIDE DEF history, severity
      <3> QED
        BY <1>1, <1>2, <2>1, <2>3 DEF AlarmEntryType, Time
    <2>5. /\ IsNewTo(now, entry.statusChanges) =>
                \A i \in 1..Len(entry.statusChanges) : entry.statusChanges[i].time # now
          /\ \A i, j \in 1..Len(entry.statusChanges) :
                entry.statusChanges[i].time = entry.statusChanges[j].time => i = j
      BY <2>1 DEF Distinct, DefaultEntry, IsNewTo
    <2>6. ASSUME IsNewTo(now, entry.statusChanges) PROVE Distinct(history)
      <3>1. change.time = now
        OBVIOUS
      <3> HIDE DEF history, change
      <3>3. DOMAIN history = 1..Len(history)
        BY <2>3
      <3> SUFFICES ASSUME NEW i \in 1..Len(history), NEW j \in 1..Len(history),
                          history[i].time = history[j].time
                   PROVE  i = j
        BY <3>3 DEF Distinct
      <3>2. /\ i = Len(history) \/ i \in 1..Len(entry.statusChanges)
            /\ j = Len(history) \/ j \in 1..Len(entry.statusChanges)
        BY <2>1, <2>3
      <3> QED
        BY <2>3, <2>5, <2>6, <3>1, <3>2
    <2>7. /\ res.entry.lastChanged = now /\ res.entry.lastSeverity = severity
          /\ res.entry.isCleared = (input.severity = ClearedSeverity)
          /\ res.entry.text = input.text
          /\ res.entry.statusChanges = Shrunk(history, max)
          /\ res.entry.lastRaised = full.lastRaised
      BY <1>5, <1>6
    <2> HIDE DEF full, history
    <2>8. first \in ListedChange /\ first.time = now /\ first.text = input.text
          /\ first.severity \in {severity, ClearedSeverity}
      BY <1>1, <1>2, <2>7 DEF NewStatusChange, ListedChange, Time
    <2>17. /\ change.time = now /\ change.text = input.text
           /\ change.perceivedSeverity = severity
      OBVIOUS
    <2> DEFINE longer == <<first>> \o listed
    <2> HIDE DEF severity, first, change
    <2>9. /\ longer \in Seq(ListedChange) /\ Len(longer) = Len(history)
          /\ longer[1] = first
          /\ \A i \in 2..Len(longer) : longer[i] = listed[i - 1]
      BY <2>1, <2>3, <2>8
    <2> HIDE DEF longer
    <2>10. MirrorsHistory(longer, history)
      <3> SUFFICES ASSUME NEW i \in 1..Len(history)
                   PROVE  LET c == history[Len(history) + 1 - i] IN
                          /\ longer[i].time = c.time
                          /\ longer[i].text = c.text
                          /\ longer[i].severity \in {c.perceivedSeverity, ClearedSeverity}
        <4>1. DOMAIN longer = 1..Len(history) /\ Len(longer) = Len(history)
          BY <2>9
        <4> QED
          BY <4>1 DEF MirrorsHistory
      <3>1. CASE i = 1
        <4>1. history[Len(history) + 1 - i] = change
          <5>1. Len(history) + 1 - i = Len(history)
            BY <2>3, <3>1
          <5> QED
            BY <5>1, <2>3
        <4>2. longer[i] = first
          BY <2>9, <3>1
        <4> QED
          BY <3>1, <4>1, <4>2, <2>8, <2>17
      <3>2. CASE i # 1
        <4>1. /\ i - 1 \in 1..Len(listed) /\ i \in 2..Len(longer)
              /\ Len(history) + 1 - i = Len(listed) + 1 - (i - 1)
              /\ Len(history) + 1 - i \in 1..Len(listed)
          BY <2>1, <2>3, <2>9, <3>2
        <4>2. history[Len(history) + 1 - i] = entry.statusChanges[Len(listed) + 1 - (i - 1)]
          BY <4>1, <2>1, <2>3
        <4>3. wasPresent
          BY <4>1
        <4> DEFINE c == entry.statusChanges[Len(listed) + 1 - (i - 1)]
        <4>4. /\ listed[i - 1].time = c.time
              /\ listed[i - 1].text = c.text
              /\ listed[i - 1].severity \in {c.perceivedSeverity, ClearedSeverity}
          <5>1. DOMAIN listed = 1..Len(listed)
            OBVIOUS
          <5> QED
            BY <5>1, <4>1, <4>3, <2>1 DEF MirrorsHistory
        <4>5. longer[i] = listed[i - 1]
          BY <4>1, <2>9
        <4> QED
          BY <4>2, <4>4, <4>5
      <3> QED
        BY <3>1, <3>2
    <2>11. full.statusChanges = history
      BY DEF full
    <2> DEFINE remain == Unlink(longer, Discarded(history, max))
    <2>12. res.entry = [full EXCEPT !.statusChanges = Shrunk(history, max)]
      BY <1>5, <1>6
    <2>13. res.entry \in AlarmEntryType
      <3>1. Shrunk(history, max) \in Seq(StatusChange)
        BY <2>3, ShrunkSuffix
      <3> QED
        BY <2>4, <2>12, <3>1 DEF AlarmEntryType
    <2>14. max # None => Len(res.entry.statusChanges) <= max
      BY <2>3, <2>7, ShrunkSuffix
    <2>15. UpdatedLeaves(listed, res.entry, res.removed).statusChange = remain
      BY <1>5, <1>6 DEF UpdatedLeaves, updateStatusChangeList, longer, first
    <2>16. ASSUME IsNewTo(now, entry.statusChanges)
           PROVE  /\ Distinct(res.entry.statusChanges)
                  /\ UpdatedLeaves(listed, res.entry, res.removed) \in Leaves
                  /\ MirrorsEntry(UpdatedLeaves(listed, res.entry, res.removed), res.entry)
                  /\ IsCutOf(UpdatedLeaves(listed, res.entry, res.removed).statusChange,
                             <<NewStatusChange(res.entry)>> \o listed)
      <3>1. /\ remain \in Seq(ListedChange)
            /\ IsCutOf(remain, longer)
            /\ MirrorsHistory(remain, Shrunk(history, max))
            /\ Distinct(Shrunk(history, max))
        BY <2>4, <2>6, <2>9, <2>10, <2>11, <2>16, ShrinkMirrored
      <3> HIDE DEF remain
      <3>2. UpdatedLeaves(listed, res.entry, res.removed) \in Leaves
        BY <2>13, <2>15, <3>1 DEF Leaves, UpdatedLeaves, AlarmEntryType, Time
      <3>3. MirrorsEntry(UpdatedLeaves(listed, res.entry, res.removed), res.entry)
        BY <2>7, <2>15, <3>1 DEF MirrorsEntry, UpdatedLeaves
      <3>4. IsCutOf(UpdatedLeaves(listed, res.entry, res.removed).statusChange,
                    <<NewStatusChange(res.entry)>> \o listed)
        BY <2>15, <3>1 DEF longer, first
      <3> QED
        BY <2>7, <3>1, <3>2, <3>3, <3>4
    <2> QED
      BY <2>13, <2>14, <2>16
  <1> QED
    BY <1>3, <1>4, <1>6 DEF UpdateOutcome
-----------------------------------------------------------------------------
(* What the handlers do to cache and edit tree *)

(* submitAlarm(): one entry and its row are created or overwritten.        *)
LEMMA PutCoherent ==
    ASSUME NEW alarms, NEW alarmRows, NEW shelvedRows,
           Coherent(alarms, alarmRows, shelvedRows),
           NEW key \in InstanceKey, NEW entry \in AlarmEntryType, Distinct(entry.statusChanges),
           NEW leaves \in Leaves, MirrorsEntry(leaves, entry),
           key \in DOMAIN alarms => alarms[key].shelf = entry.shelf,
           NEW newAlarmRows, NEW newShelvedRows,
           newAlarmRows = IF entry.shelf # None THEN alarmRows
                          ELSE Put(alarmRows, key,
                                   [leaves |-> leaves, timeCreated |-> entry.created]),
           newShelvedRows = IF entry.shelf = None THEN shelvedRows
                            ELSE Put(shelvedRows, key,
                                     [leaves |-> leaves, shelfName |-> entry.shelf])
    PROVE  Coherent(Put(alarms, key, entry), newAlarmRows, newShelvedRows)
  <1> DEFINE new == Put(alarms, key, entry)
  <1>1. /\ DOMAIN new = DOMAIN alarms \cup {key} /\ new[key] = entry
        /\ \A k \in DOMAIN alarms : k # key => new[k] = alarms[k]
    BY DEF Put
  <1>2. CASE entry.shelf = None
    <2>1. newShelvedRows = shelvedRows
      BY <1>2
    <2>2. /\ DOMAIN newAlarmRows = DOMAIN alarmRows \cup {key}
          /\ newAlarmRows[key] = [leaves |-> leaves, timeCreated |-> entry.created]
          /\ \A k \in DOMAIN alarmRows : k # key => newAlarmRows[k] = alarmRows[k]
      BY <1>2 DEF Put
    <2>3. Unshelved(new) = Unshelved(alarms) \cup {key} /\ Shelved(new) = Shelved(alarms)
          /\ key \notin Shelved(alarms)
      BY <1>1, <1>2 DEF Unshelved, Shelved
    <2> HIDE DEF new
    <2>4. newAlarmRows[key] \in AlarmRow
      BY <2>2 DEF AlarmRow, AlarmEntryType
    <2>5. AlarmsType(new) /\ \A k \in DOMAIN new : Distinct(new[k].statusChanges)
      BY <1>1 DEF Coherent, AlarmsType
    <2>6. RowsType(newAlarmRows, newShelvedRows)
      BY <2>1, <2>2, <2>4 DEF Coherent, RowsType
    <2>7. MirrorsAlarms(newAlarmRows, newShelvedRows, new)
      <3>1. \A k \in Unshelved(alarms) \cup Shelved(alarms) : k \in DOMAIN alarms
        BY DEF Unshelved, Shelved
      <3>2. newAlarmRows[key].leaves = leaves
        BY <2>2
      <3> QED
        BY <1>1, <2>1, <2>2, <2>3, <3>1, <3>2 DEF Coherent, MirrorsAlarms
    <2> QED
      BY <2>5, <2>6, <2>7 DEF Coherent, new
  <1>3. CASE entry.shelf # None
    <2>1. newAlarmRows = alarmRows
      BY <1>3
    <2>2. /\ DOMAIN newShelvedRows = DOMAIN shelvedRows \cup {key}
          /\ newShelvedRows[key] = [leaves |-> leaves, shelfName |-> entry.shelf]
          /\ \A k \in DOMAIN shelvedRows : k # key => newShelvedRows[k] = shelvedRows[k]
      BY <1>3 DEF Put
    <2>3. Shelved(new) = Shelved(alarms) \cup {key} /\ Unshelved(new) = Unshelved(alarms)
          /\ key \notin Unshelved(alarms)
      BY <1>1, <1>3 DEF Unshelved, Shelved
    <2> HIDE DEF new
    <2>4. newShelvedRows[key] \in ShelvedRow
      BY <1>3, <2>2 DEF ShelvedRow, AlarmEntryType
    <2>5. AlarmsType(new) /\ \A k \in DOMAIN new : Distinct(new[k].statusChanges)
      BY <1>1 DEF Coherent, AlarmsType
    <2>6. RowsType(newAlarmRows, newShelvedRows)
      BY <2>1, <2>2, <2>4 DEF Coherent, RowsType
    <2>7. MirrorsAlarms(newAlarmRows, newShelvedRows, new)
      <3>1. \A k \in Unshelved(alarms) \cup Shelved(alarms) : k \in DOMAIN alarms
        BY DEF Unshelved, Shelved
      <3>2. newShelvedRows[key].leaves = leaves /\ newShelvedRows[key].shelfName = entry.shelf
        BY <2>2
      <3> QED
        BY <1>1, <2>1, <2>2, <2>3, <3>1, <3>2 DEF Coherent, MirrorsAlarms
    <2> QED
      BY <2>5, <2>6, <2>7 DEF Coherent, new
  <1> QED
    BY <1>2, <1>3

(* purgeAlarms(): entries of one list go, and so do their rows.            *)
LEMMA WithoutCoherent ==
    ASSUME NEW alarms, NEW alarmRows, NEW shelvedRows,
           Coherent(alarms, alarmRows, shelvedRows), NEW purged,
           NEW newAlarmRows, NEW newShelvedRows,
           \/ /\ purged \subseteq Unshelved(alarms)
              /\ newAlarmRows = Without(alarmRows, purged)
              /\ newShelvedRows = shelvedRows
           \/ /\ purged \subseteq Shelved(alarms)
              /\ newAlarmRows = alarmRows
              /\ newShelvedRows = Without(shelvedRows, purged)
    PROVE  Coherent(Without(alarms, purged), newAlarmRows, newShelvedRows)
  <1> DEFINE new == Without(alarms, purged)
  <1>1. /\ DOMAIN new = DOMAIN alarms \ purged
        /\ \A k \in DOMAIN new : new[k] = alarms[k]
    BY DEF Without
  <1>2. /\ Unshelved(new) = Unshelved(alarms) \ purged
        /\ Shelved(new) = Shelved(alarms) \ purged
    BY <1>1 DEF Unshelved, Shelved
  <1>3. /\ DOMAIN newAlarmRows = DOMAIN alarmRows \ purged
        /\ DOMAIN newShelvedRows = DOMAIN shelvedRows \ purged
        /\ \A k \in DOMAIN newAlarmRows : newAlarmRows[k] = alarmRows[k]
        /\ \A k \in DOMAIN newShelvedRows : newShelvedRows[k] = shelvedRows[k]
    BY DEF Without, Coherent, MirrorsAlarms, Unshelved, Shelved
  <1> HIDE DEF new
  <1>4. AlarmsType(new) /\ \A k \in DOMAIN new : Distinct(new[k].statusChanges)
    BY <1>1 DEF Coherent, AlarmsType
  <1>5. RowsType(newAlarmRows, newShelvedRows)
    BY <1>3 DEF Coherent, RowsType
  <1>6. MirrorsAlarms(newAlarmRows, newShelvedRows, new)
    <2>1. \A k \in Unshelved(new) \cup Shelved(new) : k \in DOMAIN new
      BY DEF Unshelved, Shelved
    <2> QED
      BY <1>1, <1>2, <1>3, <2>1 DEF Coherent, MirrorsAlarms
  <1> QED
    BY <1>4, <1>5, <1>6 DEF Coherent, new

(* compressAlarms() and shrinkStatusChangesLists(): some histories become  *)
(* shorter, in the cache and in the edit tree alike.                       *)
LEMMA ShrinkCoherent ==
    ASSUME NEW alarms, NEW alarmRows, NEW shelvedRows,
           Coherent(alarms, alarmRows, shelvedRows),
           NEW keys \in SUBSET DOMAIN alarms, NEW max \in Limit
    PROVE  Coherent(ShrunkAlarms(alarms, keys, max),
                    UnlinkedRows(alarmRows, alarms, keys \cap Unshelved(alarms), max),
                    UnlinkedRows(shelvedRows, alarms, keys \cap Shelved(alarms), max))
  <1> DEFINE new  == ShrunkAlarms(alarms, keys, max)
             newA == UnlinkedRows(alarmRows, alarms, keys \cap Unshelved(alarms), max)
             newS == UnlinkedRows(shelvedRows, alarms, keys \cap Shelved(alarms), max)
             Kept(k) == [alarms[k] EXCEPT !.statusChanges = Shrunk(alarms[k].statusChanges, max)]
             Cut(leaves, k) == [leaves EXCEPT !.statusChange =
                                  Unlink(leaves.statusChange, Discarded(alarms[k].statusChanges, max))]
  <1>1. /\ DOMAIN new = DOMAIN alarms
        /\ \A k \in DOMAIN alarms : new[k] = IF k \in keys THEN Kept(k) ELSE alarms[k]
    BY DEF ShrunkAlarms
  <1>2. \A k \in DOMAIN alarms :
           alarms[k] \in AlarmEntryType /\ Distinct(alarms[k].statusChanges)
    BY DEF Coherent, AlarmsType
  <1>3. ASSUME NEW k \in DOMAIN alarms, NEW leaves \in Leaves, MirrorsEntry(leaves, alarms[k])
        PROVE  /\ Kept(k) \in AlarmEntryType /\ Distinct(Kept(k).statusChanges)
               /\ Kept(k).shelf = alarms[k].shelf
               /\ Cut(leaves, k) \in Leaves /\ MirrorsEntry(Cut(leaves, k), Kept(k))
    <2> DEFINE remain == Unlink(leaves.statusChange, Discarded(alarms[k].statusChanges, max))
               kept   == Shrunk(alarms[k].statusChanges, max)
    <2>1. alarms[k] \in AlarmEntryType /\ Distinct(alarms[k].statusChanges)
      BY <1>2
    <2>2. /\ leaves.statusChange \in Seq(ListedChange)
          /\ MirrorsHistory(leaves.statusChange, alarms[k].statusChanges)
      BY <1>3 DEF Leaves, MirrorsEntry
    <2>3. /\ remain \in Seq(ListedChange) /\ MirrorsHistory(remain, kept)
          /\ Distinct(kept) /\ Kept(k) \in AlarmEntryType
      BY <2>1, <2>2, ShrinkMirrored
    <2> HIDE DEF remain, kept
    <2>4. [leaves EXCEPT !.statusChange = remain] \in Leaves
      BY <2>3 DEF Leaves
    <2>5. MirrorsEntry([leaves EXCEPT !.statusChange = remain],
                       [alarms[k] EXCEPT !.statusChanges = kept])
      BY <1>3, <2>1, <2>3 DEF MirrorsEntry, Leaves, AlarmEntryType
    <2>6. /\ [alarms[k] EXCEPT !.statusChanges = kept].shelf = alarms[k].shelf
          /\ [alarms[k] EXCEPT !.statusChanges = kept].statusChanges = kept
      BY <2>1 DEF AlarmEntryType
    <2> QED
      BY <2>3, <2>4, <2>5, <2>6 DEF remain, kept
  <1>4. \A k \in Unshelved(alarms) : /\ k \in DOMAIN alarms /\ k \in DOMAIN alarmRows
                                      /\ alarmRows[k] \in AlarmRow
                                      /\ alarmRows[k].leaves \in Leaves
                                      /\ MirrorsEntry(alarmRows[k].leaves, alarms[k])
    BY DEF Coherent, MirrorsAlarms, RowsType, AlarmRow, Unshelved
  <1>5. \A k \in Shelved(alarms) : /\ k \in DOMAIN alarms /\ k \in DOMAIN shelvedRows
                                    /\ shelvedRows[k] \in ShelvedRow
                                    /\ shelvedRows[k].leaves \in Leaves
                                    /\ MirrorsEntry(shelvedRows[k].leaves, alarms[k])
                                    /\ shelvedRows[k].shelfName = alarms[k].shelf
    BY DEF Coherent, MirrorsAlarms, RowsType, ShelvedRow, Shelved
  <1>6. DOMAIN alarms = Unshelved(alarms) \cup Shelved(alarms)
    BY DEF Unshelved, Shelved
  <1>7. \A k \in DOMAIN alarms : /\ new[k] \in AlarmEntryType
                                 /\ Distinct(new[k].statusChanges)
                                 /\ new[k].shelf = alarms[k].shelf
    <2> HIDE DEF Kept, Cut
    <2> QED
      BY <1>1, <1>2, <1>3, <1>4, <1>5, <1>6
  <1>8. Unshelved(new) = Unshelved(alarms) /\ Shelved(new) = Shelved(alarms)
    <2> HIDE DEF new
    <2> QED
      BY <1>1, <1>7 DEF Unshelved, Shelved
  <1>9. /\ DOMAIN newA = Unshelved(alarms) /\ DOMAIN newS = Shelved(alarms)
    BY DEF UnlinkedRows, Coherent, MirrorsAlarms
  <1>10. \A k \in Unshelved(alarms) :
            newA[k] = IF k \in keys THEN [alarmRows[k] EXCEPT !.leaves = Cut(alarmRows[k].leaves, k)]
                                    ELSE alarmRows[k]
    BY <1>4 DEF UnlinkedRows, AlarmRow
  <1>11. \A k \in Shelved(alarms) :
            newS[k] = IF k \in keys THEN [shelvedRows[k] EXCEPT !.leaves = Cut(shelvedRows[k].leaves, k)]
                                    ELSE shelvedRows[k]
    BY <1>5 DEF UnlinkedRows, ShelvedRow
  <1> HIDE DEF new, newA, newS, Cut, Kept
  <1>12. \A k \in Unshelved(alarms) : newA[k] \in AlarmRow /\ MirrorsEntry(newA[k].leaves, new[k])
    <2> TAKE k \in Unshelved(alarms)
    <2>1. /\ k \in DOMAIN alarms /\ alarmRows[k] \in AlarmRow /\ alarmRows[k].leaves \in Leaves
          /\ MirrorsEntry(alarmRows[k].leaves, alarms[k])
      BY <1>4
    <2>2. CASE k \in keys
      <3>1. Cut(alarmRows[k].leaves, k) \in Leaves
            /\ MirrorsEntry(Cut(alarmRows[k].leaves, k), Kept(k))
        BY <1>3, <2>1
      <3>2. newA[k] = [alarmRows[k] EXCEPT !.leaves = Cut(alarmRows[k].leaves, k)]
            /\ new[k] = Kept(k)
        BY <1>1, <1>10, <2>1, <2>2
      <3> QED
        BY <2>1, <3>1, <3>2 DEF AlarmRow
    <2>3. CASE k \notin keys
      BY <1>1, <1>10, <2>1, <2>3
    <2> QED
      BY <2>2, <2>3
  <1>13. \A k \in Shelved(alarms) : /\ newS[k] \in ShelvedRow /\ MirrorsEntry(newS[k].leaves, new[k])
                                     /\ newS[k].shelfName = new[k].shelf
    <2> TAKE k \in Shelved(alarms)
    <2>1. /\ k \in DOMAIN alarms /\ shelvedRows[k] \in ShelvedRow
          /\ shelvedRows[k].leaves \in Leaves
          /\ MirrorsEntry(shelvedRows[k].leaves, alarms[k])
          /\ shelvedRows[k].shelfName = new[k].shelf
      BY <1>5, <1>7
    <2>2. CASE k \in keys
      <3>1. Cut(shelvedRows[k].leaves, k) \in Leaves
            /\ MirrorsEntry(Cut(shelvedRows[k].leaves, k), Kept(k))
        BY <1>3, <1>5, <2>1
      <3>2. newS[k] = [shelvedRows[k] EXCEPT !.leaves = Cut(shelvedRows[k].leaves, k)]
            /\ new[k] = Kept(k)
        BY <1>1, <1>11, <2>1, <2>2
      <3> QED
        BY <2>1, <3>1, <3>2 DEF ShelvedRow
    <2>3. CASE k \notin keys
      BY <1>1, <1>11, <2>1, <2>3
    <2> QED
      BY <2>2, <2>3
  <1>14. DOMAIN alarms \subseteq InstanceKey
    BY DEF Coherent, AlarmsType
  <1> QED
    BY <1>1, <1>6, <1>7, <1>8, <1>9, <1>12, <1>13, <1>14
       DEF Coherent, AlarmsType, RowsType, MirrorsAlarms, new, newA, newS

(* reshelve(): every alarm that moves takes its row along.                 *)
LEMMA ReshelveCoherent ==
    ASSUME Coherent(m_alarms, m_edit.alarm, m_edit.shelvedAlarm),
           clock \in Nat, NEW rules \in Seq(Shelf)
    PROVE  /\ Coherent(ReshelvedAlarms(rules), ReshelvedAlarmRows(rules),
                       ReshelvedShelvedRows(rules))
           /\ \A k \in DOMAIN m_alarms :
                 ReshelvedAlarms(rules)[k].shelf = findMatchingShelf(k, rules)
  <1> DEFINE To(k) == findMatchingShelf(k, rules)
             new   == ReshelvedAlarms(rules)
             newA  == ReshelvedAlarmRows(rules)
             newS  == ReshelvedShelvedRows(rules)
  <1>1. \A k \in DOMAIN m_alarms : /\ To(k) \in ShelfName \cup {None}
                                   /\ m_alarms[k] \in AlarmEntryType
                                   /\ Distinct(m_alarms[k].statusChanges)
                                   /\ k \in InstanceKey
    BY ShelfTyped DEF Coherent, AlarmsType
  <1>2. /\ DOMAIN new = DOMAIN m_alarms
        /\ \A k \in DOMAIN m_alarms : new[k] = IF m_alarms[k].shelf # To(k)
                                                THEN [m_alarms[k] EXCEPT !.shelf = To(k)]
                                                ELSE m_alarms[k]
    BY DEF ReshelvedAlarms, Moved
  <1>3. /\ DOMAIN m_edit.alarm = Unshelved(m_alarms)
        /\ DOMAIN m_edit.shelvedAlarm = Shelved(m_alarms)
        /\ \A k \in Unshelved(m_alarms) : /\ m_edit.alarm[k] \in AlarmRow
                                           /\ MirrorsEntry(m_edit.alarm[k].leaves, m_alarms[k])
        /\ \A k \in Shelved(m_alarms) :
              /\ m_edit.shelvedAlarm[k] \in ShelvedRow
              /\ MirrorsEntry(m_edit.shelvedAlarm[k].leaves, m_alarms[k])
              /\ m_edit.shelvedAlarm[k].shelfName = m_alarms[k].shelf
    BY DEF Coherent, MirrorsAlarms, RowsType
  <1>4. /\ \A k : k \in Unshelves(rules) <=> /\ k \in DOMAIN m_alarms
                                            /\ m_alarms[k].shelf # None /\ To(k) = None
        /\ \A k : k \in Shelves(rules) <=> /\ k \in DOMAIN m_alarms
                                          /\ m_alarms[k].shelf = None /\ To(k) # None
        /\ \A k : k \in Moved(rules) <=> /\ k \in DOMAIN m_alarms
                                        /\ m_alarms[k].shelf # To(k)
    BY DEF Unshelves, Shelves, Moved
  <1> HIDE DEF To
  <1>5. \A k \in DOMAIN m_alarms : /\ new[k] \in AlarmEntryType /\ new[k].shelf = To(k)
                                   /\ Distinct(new[k].statusChanges)
                                   /\ \A leaves : MirrorsEntry(leaves, m_alarms[k])
                                                     => MirrorsEntry(leaves, new[k])
    <2> TAKE k \in DOMAIN m_alarms
    <2> HIDE DEF new
    <2>1. CASE m_alarms[k].shelf # To(k)
      <3>1. new[k] = [m_alarms[k] EXCEPT !.shelf = To(k)]
        BY <1>2, <2>1
      <3>2. /\ new[k] \in AlarmEntryType /\ new[k].shelf = To(k)
            /\ new[k].statusChanges = m_alarms[k].statusChanges
            /\ new[k].lastChanged = m_alarms[k].lastChanged
            /\ new[k].lastRaised = m_alarms[k].lastRaised
            /\ new[k].isCleared = m_alarms[k].isCleared
            /\ new[k].lastSeverity = m_alarms[k].lastSeverity
            /\ new[k].text = m_alarms[k].text
        BY <1>1, <3>1 DEF AlarmEntryType
      <3> QED
        BY <1>1, <3>2 DEF MirrorsEntry
    <2>2. CASE m_alarms[k].shelf = To(k)
      BY <1>1, <1>2, <2>2
    <2> QED
      BY <2>1, <2>2
  <1>6. /\ Unshelved(new) = {k \in DOMAIN m_alarms : To(k) = None}
        /\ Shelved(new) = {k \in DOMAIN m_alarms : To(k) # None}
    <2> HIDE DEF new
    <2> QED
      BY <1>2, <1>5 DEF Unshelved, Shelved
  <1>7. DOMAIN newA = Unshelved(new) /\ DOMAIN newS = Shelved(new)
    <2>1. DOMAIN newA = (Unshelved(m_alarms) \ Shelves(rules)) \cup Unshelves(rules)
      BY <1>3 DEF ReshelvedAlarmRows
    <2>2. DOMAIN newS = (Shelved(m_alarms) \ Unshelves(rules)) \cup Shelves(rules)
      BY <1>3 DEF ReshelvedShelvedRows
    <2> HIDE DEF new, newA, newS
    <2>3. \A k : k \in DOMAIN newA <=> k \in Unshelved(new)
      BY <1>4, <1>6, <2>1 DEF Unshelved
    <2>4. \A k : k \in DOMAIN newS <=> k \in Shelved(new)
      BY <1>4, <1>6, <2>2 DEF Shelved
    <2>5. DOMAIN newA \subseteq Unshelved(new) /\ Unshelved(new) \subseteq DOMAIN newA
          /\ DOMAIN newS \subseteq Shelved(new) /\ Shelved(new) \subseteq DOMAIN newS
      BY <2>3, <2>4
    <2> QED
      BY <2>5
  <1>8. \A k \in DOMAIN newA : newA[k] \in AlarmRow /\ MirrorsEntry(newA[k].leaves, new[k])
    <2> TAKE k \in DOMAIN newA
    <2>1. k \in DOMAIN m_alarms /\ To(k) = None
      BY <1>6, <1>7
    <2>2. newA[k] = IF k \in Unshelves(rules)
                      THEN [leaves |-> m_edit.shelvedAlarm[k].leaves, timeCreated |-> Now]
                      ELSE m_edit.alarm[k]
      BY DEF ReshelvedAlarmRows
    <2> HIDE DEF new, newA
    <2>3. CASE k \in Unshelves(rules)
      <3>1. k \in Shelved(m_alarms)
        BY <1>4, <2>3 DEF Shelved
      <3>2. m_edit.shelvedAlarm[k].leaves \in Leaves
            /\ MirrorsEntry(m_edit.shelvedAlarm[k].leaves, m_alarms[k])
        BY <1>3, <3>1 DEF ShelvedRow
      <3>3. newA[k] = [leaves |-> m_edit.shelvedAlarm[k].leaves, timeCreated |-> Now] /\ Now \in Time
        BY <2>2, <2>3 DEF Now, Time
      <3> QED
        BY <1>5, <2>1, <3>2, <3>3 DEF AlarmRow
    <2>4. CASE k \notin Unshelves(rules)
      <3>1. k \in Unshelved(m_alarms)
        BY <1>4, <2>1, <2>4 DEF Unshelved
      <3> QED
        BY <1>3, <1>5, <2>1, <2>2, <2>4, <3>1
    <2> QED
      BY <2>3, <2>4
  <1>9. \A k \in DOMAIN newS : /\ newS[k] \in ShelvedRow /\ MirrorsEntry(newS[k].leaves, new[k])
                               /\ newS[k].shelfName = new[k].shelf
    <2> TAKE k \in DOMAIN newS
    <2>1. k \in DOMAIN m_alarms /\ To(k) # None
      BY <1>6, <1>7
    <2>2. newS[k] = IF k \in Moved(rules)
                      THEN [leaves    |-> IF k \in Shelves(rules)
                                            THEN m_edit.alarm[k].leaves
                                            ELSE m_edit.shelvedAlarm[k].leaves,
                            shelfName |-> To(k)]
                      ELSE m_edit.shelvedAlarm[k]
      BY DEF ReshelvedShelvedRows, To
    <2> HIDE DEF new, newS
    <2>3. To(k) \in ShelfName
      BY <1>1, <2>1
    <2>4. CASE k \in Shelves(rules)
      <3>1. k \in Unshelved(m_alarms) /\ k \in Moved(rules)
        BY <1>4, <2>4 DEF Unshelved
      <3>2. m_edit.alarm[k].leaves \in Leaves
            /\ MirrorsEntry(m_edit.alarm[k].leaves, m_alarms[k])
        BY <1>3, <3>1 DEF AlarmRow
      <3>3. newS[k] = [leaves |-> m_edit.alarm[k].leaves, shelfName |-> To(k)]
        BY <2>2, <2>4, <3>1
      <3> QED
        BY <1>5, <2>1, <2>3, <3>2, <3>3 DEF ShelvedRow
    <2>5. CASE k \notin Shelves(rules)
      <3>1. k \in Shelved(m_alarms)
        BY <1>4, <2>1, <2>5 DEF Shelved
      <3>2. /\ m_edit.shelvedAlarm[k] \in ShelvedRow /\ m_edit.shelvedAlarm[k].leaves \in Leaves
            /\ MirrorsEntry(m_edit.shelvedAlarm[k].leaves, m_alarms[k])
            /\ m_edit.shelvedAlarm[k].shelfName = m_alarms[k].shelf
        BY <1>3, <3>1 DEF ShelvedRow
      <3>3. CASE k \in Moved(rules)
        <4>1. newS[k] = [leaves |-> m_edit.shelvedAlarm[k].leaves, shelfName |-> To(k)]
          BY <2>2, <2>5, <3>3
        <4> QED
          BY <1>5, <2>1, <2>3, <3>2, <4>1 DEF ShelvedRow
      <3>4. CASE k \notin Moved(rules)
        <4>1. m_alarms[k].shelf = To(k)
          BY <1>4, <2>1, <3>4
        <4> QED
          BY <1>5, <2>1, <2>2, <3>2, <3>4, <4>1
      <3> QED
        BY <3>3, <3>4
    <2> QED
      BY <2>4, <2>5
  <1> HIDE DEF new, newA, newS
  <1>10. /\ AlarmsType(new) /\ DOMAIN new \subseteq InstanceKey
         /\ \A k \in DOMAIN new : Distinct(new[k].statusChanges)
    BY <1>1, <1>2, <1>5 DEF AlarmsType
  <1>11. DOMAIN newA \subseteq DOMAIN new /\ DOMAIN newS \subseteq DOMAIN new
    BY <1>7 DEF Unshelved, Shelved
  <1>12. RowsType(newA, newS)
    BY <1>8, <1>9, <1>10, <1>11 DEF RowsType
  <1>13. MirrorsAlarms(newA, newS, new)
    BY <1>7, <1>8, <1>9 DEF MirrorsAlarms
  <1> QED
    BY <1>2, <1>5, <1>10, <1>12, <1>13 DEF Coherent, new, newA, newS, To
-----------------------------------------------------------------------------
(* The inductive invariant *)

IInv ==
    /\ TypeOK
    /\ IsFiniteSet(DOMAIN m_alarms)
    /\ Coherent(m_alarms, m_edit.alarm, m_edit.shelvedAlarm)
    /\ HistoryBounded
    /\ ShelfMatchesRules

(* The stamps of the lists are instants.                                   *)
LEMMA LatestTyped ==
    ASSUME NEW stamp \in Time, NEW instants \in SUBSET Time
    PROVE  Latest(stamp, instants) \in Time
  BY DEF Latest, Time

LEMMA StatisticsTyped ==
    ASSUME NEW alarms, AlarmsType(alarms), NEW alarmRows, NEW shelvedRows,
           NEW alarmStamp \in Time, NEW shelfStamp \in Time,
           updateStatistics(alarms, alarmRows, shelvedRows, alarmStamp, shelfStamp)
    PROVE  /\ m_alarmListLastChanged' \in Time /\ m_shelfListLastChanged' \in Time
           /\ m_edit'.alarm = alarmRows /\ m_edit'.shelvedAlarm = shelvedRows
  <1>1. \A k \in DOMAIN alarms : alarms[k].lastChanged \in Time
    BY DEF AlarmsType, AlarmEntryType
  <1>2. /\ {alarms[k].lastChanged : k \in Unshelved(alarms)} \in SUBSET Time
        /\ {alarms[k].lastChanged : k \in Shelved(alarms)} \in SUBSET Time
    BY <1>1 DEF Unshelved, Shelved
  <1> QED
    BY <1>2, LatestTyped DEF updateStatistics, LatestChange

(* What the handlers that only answer leave as it was.                     *)
LEMMA QuietStep ==
    ASSUME IInv, UNCHANGED <<control, cache, oper, clock>>,
           m_inventoryDirty' \in BOOLEAN, m_inventory' \in Inventories \cup {NoRows},
           running' \in Configs, inventory' \in Inventories,
           controlEvents' \in Seq(EventType), inventoryEvents' \in Nat, ReplyType'
    PROVE  IInv'
  <1>1. ControlType'
    BY DEF IInv, TypeOK, ControlType, control
  <1>2. CacheType'
    BY DEF IInv, TypeOK, CacheType, cache
  <1>3. DatastoreType'
    BY DEF IInv, TypeOK, DatastoreType
  <1>4. HistoryBounded' /\ ShelfMatchesRules'
    BY DEF IInv, HistoryBounded, ShelfMatchesRules, ShelfFor, control, cache
  <1> QED
    BY <1>1, <1>2, <1>3, <1>4 DEF IInv, TypeOK, cache

(* The daemon as constructed: both lists empty.                            *)
LEMMA InitIInv == Init => IInv
  <1> SUFFICES ASSUME Init PROVE IInv
    OBVIOUS
  <1>1. running \in Configs /\ running \in Config
    BY InputAssumption DEF Init
  <1>2. DOMAIN NoRows = {}
    BY DEF NoRows
  <1>3. ControlType
    BY <1>1 DEF Init, ControlType, Config
  <1>4. AlarmsType(NoRows) /\ RowsType(NoRows, NoRows)
    BY <1>2 DEF AlarmsType, RowsType
  <1>5. m_edit.alarm = NoRows /\ m_edit.shelvedAlarm = NoRows /\ oper = m_edit
        /\ m_alarms = NoRows
    BY DEF Init
  <1>6. CacheType
    BY <1>4, <1>5 DEF Init, CacheType, Time
  <1>7. DatastoreType /\ ReplyType
    BY <1>1, <1>4, <1>5 DEF Init, DatastoreType, ReplyType
  <1>8. Coherent(m_alarms, m_edit.alarm, m_edit.shelvedAlarm)
    BY <1>2, <1>4, <1>5 DEF Coherent, MirrorsAlarms, Unshelved, Shelved
  <1>9. IsFiniteSet(DOMAIN m_alarms)
    BY <1>2, <1>5, FS_EmptySet
  <1> QED
    BY <1>2, <1>3, <1>5, <1>6, <1>7, <1>8, <1>9
       DEF IInv, TypeOK, HistoryBounded, ShelfMatchesRules

LEMMA RulesTyped ==
    ASSUME IInv
    PROVE  m_shelvingRules \in Seq(Shelf) /\ running.shelves \in Seq(Shelf)
  BY InputAssumption DEF IInv, TypeOK, ControlType, DatastoreType, Config

LEMMA InventoryTyped ==
    ASSUME IInv, rebuildInventory
    PROVE  m_inventoryDirty' \in BOOLEAN /\ m_inventory' \in Inventories \cup {NoRows}
  BY DEF IInv, TypeOK, DatastoreType, rebuildInventory, FreshInventory

LEMMA PublishTyped ==
    ASSUME IInv, NEW fails, Publish(fails), RowsType(m_edit'.alarm, m_edit'.shelvedAlarm)
    PROVE  RowsType(oper'.alarm, oper'.shelvedAlarm)
  BY DEF Publish, IInv, TypeOK, DatastoreType

LEMMA ReplyTyped ==
    ASSUME NEW code \in CodeType, NEW count \in Nat, Reply(code, count)
    PROVE  ReplyType'
  BY DEF Reply, ReplyType

(* The handlers and edits that touch neither cache nor edit tree.          *)
LEMMA QuietActions ==
    ASSUME IInv,
           \/ RefuseClient
           \/ \E input \in Submissions : \/ SubmitBadKey(input)
                                         \/ SubmitReadFails(input)
                                         \/ SubmitNotInInventory(input)
                                         \/ SubmitRedundantClear(input)
           \/ \E shelved \in BOOLEAN, filter \in PurgeInputs : PurgeNothing(shelved, filter)
           \/ \E shelved \in BOOLEAN, filter \in CompressInputs : CompressNothing(shelved, filter)
           \/ Environment \/ InventoryChanged
    PROVE  IInv'
  <1> USE DEF IInv, TypeOK, DatastoreType, datastore, validator
  <1>1. {"Ok", "OperationFailed", "InvalidArgument"} \subseteq CodeType /\ 0 \in Nat
    BY DEF CodeType
  <1>2. CASE RefuseClient
    <2>1. ReplyType'
      BY <1>1, <1>2, ReplyTyped DEF RefuseClient
    <2> QED
      BY <1>2, <2>1, QuietStep DEF RefuseClient
  <1>3. ASSUME NEW input \in Submissions, SubmitBadKey(input) PROVE IInv'
    <2>1. ReplyType'
      BY <1>1, <1>3, ReplyTyped DEF SubmitBadKey
    <2> QED
      BY <1>3, <2>1, QuietStep DEF SubmitBadKey
  <1>11. ASSUME NEW input \in Submissions, SubmitReadFails(input) PROVE IInv'
    <2>1. ReplyType'
      BY <1>1, <1>11, ReplyTyped DEF SubmitReadFails
    <2> QED
      BY <1>11, <2>1, QuietStep DEF SubmitReadFails
  <1>4. ASSUME NEW input \in Submissions, SubmitNotInInventory(input) PROVE IInv'
    <2>1. ReplyType'
      BY <1>1, <1>4, ReplyTyped DEF SubmitNotInInventory
    <2> QED
      BY <1>4, <2>1, QuietStep, InventoryTyped DEF SubmitNotInInventory
  <1>5. ASSUME NEW input \in Submissions, SubmitRedundantClear(input) PROVE IInv'
    <2>1. ReplyType'
      BY <1>1, <1>5, ReplyTyped DEF SubmitRedundantClear
    <2> QED
      BY <1>5, <2>1, QuietStep, InventoryTyped DEF SubmitRedundantClear
  <1>6. ASSUME NEW shelved \in BOOLEAN, NEW filter \in PurgeInputs, PurgeNothing(shelved, filter)
        PROVE  IInv'
    <2>1. ReplyType'
      BY <1>1, <1>6, ReplyTyped DEF PurgeNothing
    <2> QED
      BY <1>6, <2>1, QuietStep DEF PurgeNothing
  <1>7. ASSUME NEW shelved \in BOOLEAN, NEW filter \in CompressInputs,
               CompressNothing(shelved, filter)
        PROVE  IInv'
    <2>1. ReplyType'
      BY <1>1, <1>7, ReplyTyped DEF CompressNothing
    <2> QED
      BY <1>7, <2>1, QuietStep DEF CompressNothing
  <1>8. ASSUME NEW c \in Configs, EditControl(c) PROVE IInv'
    <2>1. ReplyType'
      BY <1>8 DEF EditControl, ReplyType
    <2>2. ChangesBetween(running, c) \in EventType
      BY <1>8 DEF EventType
    <2>3. controlEvents' \in Seq(EventType)
      BY <1>8, <2>2 DEF EditControl
    <2> QED
      BY <1>8, <2>1, <2>3, QuietStep DEF EditControl
  <1>9. ASSUME NEW i \in Inventories, EditInventory(i) PROVE IInv'
    <2>1. ReplyType' /\ inventoryEvents' \in Nat
      BY <1>9 DEF EditInventory, ReplyType
    <2> QED
      BY <1>9, <2>1, QuietStep DEF EditInventory
  <1>10. CASE InventoryChanged
    <2>1. ReplyType' /\ inventoryEvents' \in Nat
      BY <1>10 DEF InventoryChanged, ReplyType
    <2> QED
      BY <1>10, <2>1, QuietStep DEF InventoryChanged
  <1> QED
    BY <1>2, <1>3, <1>4, <1>5, <1>6, <1>7, <1>8, <1>9, <1>10, <1>11 DEF Environment

(* What updateByRpc() finds: an entry and the row that mirrors it, or      *)
(* neither.                                                                *)
LEMMA WhatChangedFacts ==
    ASSUME IInv, NEW input \in Submissions, ~IsRedundantClear(input)
    PROVE  LET res    == WhatChanged(input)
               shelf  == ShelfFor(input.key)
               listed == IF shelf = None THEN ListedHistory(m_edit.alarm, input.key)
                                         ELSE ListedHistory(m_edit.shelvedAlarm, input.key)
               leaves == UpdatedLeaves(listed, res.entry, res.removed)
           IN  /\ input.key \in InstanceKey
               /\ res.entry.shelf = shelf
               /\ ~res.changed => /\ input.key \in DOMAIN m_alarms
                                  /\ res.entry = m_alarms[input.key]
               /\ res.changed => /\ res.entry \in AlarmEntryType
                                 /\ m_maxAlarmStatusChanges # None =>
                                      Len(res.entry.statusChanges) <= m_maxAlarmStatusChanges
               /\ res.changed /\ NowIsNew(input.key) =>
                     /\ Distinct(res.entry.statusChanges)
                     /\ leaves \in Leaves
                     /\ MirrorsEntry(leaves, res.entry)
                     /\ IsCutOf(leaves.statusChange, <<NewStatusChange(res.entry)>> \o listed)
  <1> DEFINE key        == input.key
             shelf      == ShelfFor(key)
             wasPresent == key \in DOMAIN m_alarms
             entry      == IF wasPresent THEN m_alarms[key] ELSE DefaultEntry
             listed     == IF shelf = None THEN ListedHistory(m_edit.alarm, key)
                                           ELSE ListedHistory(m_edit.shelvedAlarm, key)
  <1>1. input \in Submission /\ key \in InstanceKey
    BY InputAssumption DEF Submission
  <1>2. shelf \in ShelfName \cup {None}
    BY RulesTyped, ShelfTyped DEF ShelfFor
  <1>3. m_maxAlarmStatusChanges \in Limit /\ Now \in Nat
    BY DEF IInv, TypeOK, ControlType, CacheType, Limit, Time, Now
  <1>4. ASSUME wasPresent
        PROVE  /\ entry = m_alarms[key] /\ entry \in AlarmEntryType /\ entry.shelf = shelf
               /\ Distinct(entry.statusChanges)
               /\ listed \in Seq(ListedChange) /\ MirrorsHistory(listed, entry.statusChanges)
    <2>1. /\ entry = m_alarms[key] /\ entry \in AlarmEntryType /\ entry.shelf = shelf
          /\ Distinct(entry.statusChanges)
      BY <1>4 DEF IInv, ShelfMatchesRules, Coherent, AlarmsType
    <2>2. CASE shelf = None
      <3>1. key \in Unshelved(m_alarms)
        BY <1>4, <2>1, <2>2 DEF Unshelved
      <3>2. /\ key \in DOMAIN m_edit.alarm /\ m_edit.alarm[key] \in AlarmRow
            /\ MirrorsEntry(m_edit.alarm[key].leaves, m_alarms[key])
        BY <3>1 DEF IInv, Coherent, MirrorsAlarms, RowsType
      <3>3. listed = m_edit.alarm[key].leaves.statusChange
        BY <2>2, <3>2 DEF ListedHistory
      <3> QED
        BY <2>1, <3>2, <3>3 DEF AlarmRow, Leaves, MirrorsEntry
    <2>3. CASE shelf # None
      <3>1. key \in Shelved(m_alarms)
        BY <1>4, <2>1, <2>3 DEF Shelved
      <3>2. /\ key \in DOMAIN m_edit.shelvedAlarm /\ m_edit.shelvedAlarm[key] \in ShelvedRow
            /\ MirrorsEntry(m_edit.shelvedAlarm[key].leaves, m_alarms[key])
        BY <3>1 DEF IInv, Coherent, MirrorsAlarms, RowsType
      <3>3. listed = m_edit.shelvedAlarm[key].leaves.statusChange
        BY <2>3, <3>2 DEF ListedHistory
      <3> QED
        BY <2>1, <3>2, <3>3 DEF ShelvedRow, Leaves, MirrorsEntry
    <2> QED
      BY <2>2, <2>3
  <1>5. ASSUME ~wasPresent
        PROVE  entry = DefaultEntry /\ listed = <<>> /\ input.severity # ClearedSeverity
    <2>1. key \notin DOMAIN m_edit.alarm /\ key \notin DOMAIN m_edit.shelvedAlarm
      BY <1>5 DEF IInv, Coherent, MirrorsAlarms, Unshelved, Shelved
    <2> QED
      BY <1>5, <2>1 DEF ListedHistory, IsRedundantClear
  <1>6. WhatChanged(input) =
          updateByRpc(entry, wasPresent, Now, input, shelf, m_notifyStatusChanges,
                      m_notifySeverityThreshold, m_maxAlarmStatusChanges)
    BY DEF WhatChanged
  <1>7. /\ wasPresent \in BOOLEAN
        /\ NowIsNew(key) => IsNewTo(Now, entry.statusChanges)
    BY DEF NowIsNew, IsNewTo, DefaultEntry
  <1> HIDE DEF listed, shelf, entry, wasPresent
  <1>8. listed \in Seq(ListedChange)
    <2>1. <<>> \in Seq(ListedChange)
      OBVIOUS
    <2> QED
      BY <1>4, <1>5, <2>1
  <1> DEFINE res    == WhatChanged(input)
             leaves == UpdatedLeaves(listed, res.entry, res.removed)
  <1>9. /\ res.entry.shelf = IF wasPresent THEN entry.shelf ELSE shelf
        /\ ~res.changed => wasPresent /\ res.entry = entry
        /\ res.changed => /\ res.entry \in AlarmEntryType
                          /\ m_maxAlarmStatusChanges # None =>
                               Len(res.entry.statusChanges) <= m_maxAlarmStatusChanges
        /\ res.changed /\ NowIsNew(key) =>
              /\ Distinct(res.entry.statusChanges)
              /\ leaves \in Leaves
              /\ MirrorsEntry(leaves, res.entry)
              /\ IsCutOf(leaves.statusChange, <<NewStatusChange(res.entry)>> \o listed)
    <2>1. UpdateInput(Now, input, wasPresent, entry, shelf, m_maxAlarmStatusChanges,
                      listed)
      BY <1>1, <1>2, <1>3, <1>4, <1>5, <1>7, <1>8 DEF UpdateInput
    <2> HIDE DEF res
    <2>2. res = updateByRpc(entry, wasPresent, Now, input, shelf, m_notifyStatusChanges,
                            m_notifySeverityThreshold, m_maxAlarmStatusChanges)
      BY <1>6 DEF res
    <2>3. UpdateOutcome(Now, wasPresent, entry, shelf, m_maxAlarmStatusChanges, listed, res)
      BY <2>1, <2>2, UpdateMirrored
    <2> QED
      BY <1>7, <2>3 DEF UpdateOutcome
  <1> HIDE DEF res
  <1>10. /\ res.entry.shelf = shelf
         /\ ~res.changed => wasPresent /\ res.entry = m_alarms[key]
    BY <1>4, <1>5, <1>9
  <1> QED
    BY <1>1, <1>9, <1>10 DEF listed, shelf, wasPresent, res

(* The handlers that change the cache: what is left to show of each.       *)
LEMMA CacheStep ==
    ASSUME IInv, ControlType', DatastoreType', ReplyType',
           m_alarmListLastChanged' \in Time, m_shelfListLastChanged' \in Time, clock' \in Time,
           IsFiniteSet(DOMAIN m_alarms'),
           Coherent(m_alarms', m_edit'.alarm, m_edit'.shelvedAlarm),
           HistoryBounded', ShelfMatchesRules'
    PROVE  IInv'
  <1>1. CacheType'
    BY DEF CacheType, Coherent
  <1> QED
    BY <1>1 DEF IInv, TypeOK

(* Handlers that leave the settings alone.                                 *)
LEMMA ControlKept ==
    ASSUME IInv, UNCHANGED control,
           \A k \in DOMAIN m_alarms' : m_alarms'[k].shelf = ShelfFor(k)
    PROVE  ControlType' /\ ShelfMatchesRules'
  BY DEF IInv, TypeOK, ControlType, control, ShelfMatchesRules, ShelfFor

LEMMA DatastoreKept ==
    ASSUME IInv, UNCHANGED datastore,
           m_inventoryDirty' \in BOOLEAN, m_inventory' \in Inventories \cup {NoRows},
           RowsType(oper'.alarm, oper'.shelvedAlarm)
    PROVE  DatastoreType'
  BY DEF IInv, TypeOK, DatastoreType, datastore

LEMMA SubmitUnchangedStep ==
    ASSUME IInv, NEW input \in Submissions, SubmitUnchanged(input)
    PROVE  IInv'
  <1> DEFINE key == input.key
  <1>1. key \in DOMAIN m_alarms /\ WhatChanged(input).entry = m_alarms[key]
    BY WhatChangedFacts DEF SubmitUnchanged
  <1>2. /\ DOMAIN m_alarms' = DOMAIN m_alarms
        /\ \A k \in DOMAIN m_alarms : m_alarms'[k] = m_alarms[k]
    BY <1>1 DEF SubmitUnchanged, Put
  <1>3. /\ UNCHANGED <<m_edit, m_alarmListLastChanged, m_shelfListLastChanged, clock, oper>>
        /\ UNCHANGED control /\ UNCHANGED datastore
        /\ rebuildInventory /\ Reply("Ok", 0)
    BY DEF SubmitUnchanged
  <1>4. ControlType' /\ ShelfMatchesRules'
    BY <1>2, <1>3, ControlKept DEF IInv, ShelfMatchesRules
  <1>5. DatastoreType'
    BY <1>3, InventoryTyped, DatastoreKept DEF IInv, TypeOK, DatastoreType
  <1>6. ReplyType'
    BY <1>3, ReplyTyped DEF CodeType
  <1>7. Unshelved(m_alarms') = Unshelved(m_alarms) /\ Shelved(m_alarms') = Shelved(m_alarms)
    BY <1>2 DEF Unshelved, Shelved
  <1>8. \A k \in Unshelved(m_alarms) \cup Shelved(m_alarms) : k \in DOMAIN m_alarms
    BY DEF Unshelved, Shelved
  <1>9. Coherent(m_alarms', m_edit'.alarm, m_edit'.shelvedAlarm)
    BY <1>2, <1>3, <1>7, <1>8 DEF IInv, Coherent, AlarmsType, MirrorsAlarms
  <1>10. HistoryBounded'
    BY <1>2, <1>3 DEF IInv, HistoryBounded, control
  <1> QED
    BY <1>2, <1>3, <1>4, <1>5, <1>6, <1>9, <1>10, CacheStep DEF IInv, TypeOK, CacheType

LEMMA SubmitChangedStep ==
    ASSUME IInv, NEW input \in Submissions, NEW fails \in BOOLEAN, SubmitChanged(input, fails),
           NowIsNew(input.key)
    PROVE  IInv'
  <1> DEFINE key    == input.key
             res    == WhatChanged(input)
             listed == IF ShelfFor(key) = None THEN ListedHistory(m_edit.alarm, key)
                                               ELSE ListedHistory(m_edit.shelvedAlarm, key)
             leaves == UpdatedLeaves(listed, res.entry, res.removed)
             newA   == UpdatedAlarmRows(input, res)
             newS   == UpdatedShelvedRows(input, res)
  <1>1. /\ key \in InstanceKey
        /\ res.entry.shelf = ShelfFor(key)
        /\ res.entry \in AlarmEntryType
        /\ Distinct(res.entry.statusChanges)
        /\ leaves \in Leaves
        /\ MirrorsEntry(leaves, res.entry)
        /\ m_maxAlarmStatusChanges # None =>
             Len(res.entry.statusChanges) <= m_maxAlarmStatusChanges
    BY WhatChangedFacts DEF SubmitChanged
  <1>2. /\ m_alarms' = Put(m_alarms, key, res.entry)
        /\ updateStatistics(m_alarms', newA, newS, m_alarmListLastChanged,
                            m_shelfListLastChanged)
        /\ clock' = Now
        /\ UNCHANGED control /\ UNCHANGED datastore
        /\ rebuildInventory /\ Publish(fails)
        /\ \E code \in {"OperationFailed", "Ok"} : Reply(code, 0)
    BY DEF SubmitChanged, Advance, Now
  <1>3. /\ newA = IF res.entry.shelf # None THEN m_edit.alarm
                  ELSE Put(m_edit.alarm, key,
                           [leaves |-> leaves, timeCreated |-> res.entry.created])
        /\ newS = IF res.entry.shelf = None THEN m_edit.shelvedAlarm
                  ELSE Put(m_edit.shelvedAlarm, key,
                           [leaves |-> leaves, shelfName |-> res.entry.shelf])
    BY <1>1 DEF UpdatedAlarmRows, UpdatedShelvedRows
  <1> HIDE DEF res, leaves, newA, newS
  <1>4. clock \in Nat /\ Now \in Nat /\ clock <= Now
    BY DEF IInv, TypeOK, CacheType, Time, Now
  <1>6. key \in DOMAIN m_alarms => m_alarms[key].shelf = res.entry.shelf
    BY <1>1 DEF IInv, ShelfMatchesRules
  <1>7. Coherent(m_alarms', newA, newS)
    BY <1>1, <1>2, <1>3, <1>6, PutCoherent DEF IInv
  <1>8. /\ m_alarmListLastChanged' \in Time /\ m_shelfListLastChanged' \in Time
        /\ m_edit'.alarm = newA /\ m_edit'.shelvedAlarm = newS
    BY <1>2, <1>7, StatisticsTyped DEF Coherent, IInv, TypeOK, CacheType
  <1>9. /\ DOMAIN m_alarms' = DOMAIN m_alarms \cup {key} /\ m_alarms'[key] = res.entry
        /\ \A k \in DOMAIN m_alarms : k # key => m_alarms'[k] = m_alarms[k]
    BY <1>2 DEF Put
  <1>10. IsFiniteSet(DOMAIN m_alarms')
    BY <1>9, FS_AddElement DEF IInv
  <1>11. ControlType' /\ ShelfMatchesRules'
    BY <1>1, <1>2, <1>9, ControlKept DEF IInv, ShelfMatchesRules
  <1>12. HistoryBounded'
    BY <1>1, <1>2, <1>9 DEF IInv, HistoryBounded, control
  <1>13. DatastoreType'
    BY <1>2, <1>7, <1>8, InventoryTyped, PublishTyped, DatastoreKept DEF Coherent
  <1>14. ReplyType'
    BY <1>2, ReplyTyped DEF CodeType
  <1>15. clock' \in Time
    BY <1>2, <1>4 DEF Time
  <1> QED
    BY <1>7, <1>8, <1>10, <1>11, <1>12, <1>13, <1>14, <1>15, CacheStep

LEMMA PurgeStep ==
    ASSUME IInv, NEW shelved \in BOOLEAN, NEW filter \in PurgeInputs, NEW fails \in BOOLEAN,
           Purge(shelved, filter, fails)
    PROVE  IInv'
  <1> DEFINE purged == Purged(shelved, filter)
             newA   == IF shelved THEN m_edit.alarm ELSE Without(m_edit.alarm, purged)
             newS   == IF shelved THEN Without(m_edit.shelvedAlarm, purged)
                                  ELSE m_edit.shelvedAlarm
             stampA == IF shelved THEN m_alarmListLastChanged ELSE Now
             stampS == IF shelved THEN Now ELSE m_shelfListLastChanged
  <1>1. /\ m_alarms' = Without(m_alarms, purged)
        /\ updateStatistics(m_alarms', newA, newS, stampA, stampS)
        /\ clock' = Now
        /\ UNCHANGED control /\ UNCHANGED datastore /\ UNCHANGED validator
        /\ Publish(fails)
        /\ IF fails THEN Reply("OperationFailed", 0) ELSE Reply("Ok", Cardinality(purged))
    BY DEF Purge, Advance, Now
  <1>2. clock \in Nat /\ Now \in Nat /\ clock <= Now
    BY DEF IInv, TypeOK, CacheType, Time, Now
  <1>3. \/ /\ purged \subseteq Unshelved(m_alarms)
           /\ newA = Without(m_edit.alarm, purged)
           /\ newS = m_edit.shelvedAlarm
        \/ /\ purged \subseteq Shelved(m_alarms)
           /\ newA = m_edit.alarm
           /\ newS = Without(m_edit.shelvedAlarm, purged)
    <2>1. CASE shelved
      BY <2>1 DEF Purged, OnList
    <2>2. CASE ~shelved
      BY <2>2 DEF Purged, OnList
    <2> QED
      BY <2>1, <2>2
  <1>4. stampA \in Time /\ stampS \in Time
    BY <1>2 DEF IInv, TypeOK, CacheType, Time
  <1> HIDE DEF purged, newA, newS, stampA, stampS
  <1>6. Coherent(m_alarms', newA, newS)
    BY <1>1, <1>3, WithoutCoherent DEF IInv
  <1>7. /\ m_alarmListLastChanged' \in Time /\ m_shelfListLastChanged' \in Time
        /\ m_edit'.alarm = newA /\ m_edit'.shelvedAlarm = newS
    BY <1>1, <1>4, <1>6, StatisticsTyped DEF Coherent
  <1>8. /\ DOMAIN m_alarms' \subseteq DOMAIN m_alarms
        /\ \A k \in DOMAIN m_alarms' : m_alarms'[k] = m_alarms[k]
    BY <1>1 DEF Without
  <1>9. IsFiniteSet(DOMAIN m_alarms') /\ IsFiniteSet(purged)
    <2>1. purged \subseteq DOMAIN m_alarms
      BY <1>3 DEF Unshelved, Shelved
    <2> QED
      BY <1>8, <2>1, FS_Subset DEF IInv
  <1>10. ControlType' /\ ShelfMatchesRules'
    BY <1>1, <1>8, ControlKept DEF IInv, ShelfMatchesRules
  <1>11. HistoryBounded'
    BY <1>1, <1>8 DEF IInv, HistoryBounded, control
  <1>12. DatastoreType'
    <2>1. m_inventoryDirty' \in BOOLEAN /\ m_inventory' \in Inventories \cup {NoRows}
      BY <1>1 DEF validator, IInv, TypeOK, DatastoreType
    <2> QED
      BY <1>1, <1>6, <1>7, <2>1, PublishTyped, DatastoreKept DEF Coherent
  <1>13. ReplyType'
    BY <1>1, <1>9, FS_CardinalityType, ReplyTyped DEF CodeType
  <1>14. clock' \in Time
    BY <1>1, <1>2 DEF Time
  <1> QED
    BY <1>6, <1>7, <1>9, <1>10, <1>11, <1>12, <1>13, <1>14, CacheStep

(* Shrinking some histories keeps every shelf, bounds those histories and  *)
(* lengthens no other.                                                     *)
LEMMA ShrunkAlarmsFacts ==
    ASSUME NEW alarms, AlarmsType(alarms), NEW keys \in SUBSET DOMAIN alarms, NEW max \in Limit
    PROVE  /\ DOMAIN ShrunkAlarms(alarms, keys, max) = DOMAIN alarms
           /\ \A k \in DOMAIN alarms :
                 /\ ShrunkAlarms(alarms, keys, max)[k].shelf = alarms[k].shelf
                 /\ Len(ShrunkAlarms(alarms, keys, max)[k].statusChanges)
                      <= Len(alarms[k].statusChanges)
                 /\ k \in keys /\ max # None =>
                      Len(ShrunkAlarms(alarms, keys, max)[k].statusChanges) <= max
  <1> DEFINE new == ShrunkAlarms(alarms, keys, max)
  <1>1. /\ DOMAIN new = DOMAIN alarms
        /\ \A k \in DOMAIN alarms :
              new[k] = IF k \in keys
                         THEN [alarms[k] EXCEPT !.statusChanges =
                                  Shrunk(alarms[k].statusChanges, max)]
                         ELSE alarms[k]
    BY DEF ShrunkAlarms
  <1> HIDE DEF new
  <1>2. ASSUME NEW k \in DOMAIN alarms
        PROVE  /\ new[k].shelf = alarms[k].shelf
               /\ Len(new[k].statusChanges) <= Len(alarms[k].statusChanges)
               /\ k \in keys /\ max # None => Len(new[k].statusChanges) <= max
    <2>1. alarms[k] \in AlarmEntryType /\ alarms[k].statusChanges \in Seq(StatusChange)
      BY DEF AlarmsType, AlarmEntryType
    <2>2. CASE k \in keys
      <3>1. /\ new[k].shelf = alarms[k].shelf
            /\ new[k].statusChanges = Shrunk(alarms[k].statusChanges, max)
        BY <1>1, <2>1, <2>2 DEF AlarmEntryType
      <3>2. /\ Len(Shrunk(alarms[k].statusChanges, max))
                 = Len(alarms[k].statusChanges) - toErase(alarms[k].statusChanges, max)
            /\ max # None => Len(Shrunk(alarms[k].statusChanges, max)) <= max
        BY <2>1, ShrunkSuffix
      <3>3. toErase(alarms[k].statusChanges, max) \in 0..Len(alarms[k].statusChanges)
        BY <2>1, EraseBounds
      <3>4. Len(alarms[k].statusChanges) \in Nat
        BY <2>1
      <3> QED
        BY <3>1, <3>2, <3>3, <3>4
    <2>3. CASE k \notin keys
      <3>1. new[k] = alarms[k] /\ Len(alarms[k].statusChanges) \in Nat
        BY <1>1, <2>1, <2>3
      <3> QED
        BY <2>3, <3>1
    <2> QED
      BY <2>2, <2>3
  <1> QED
    BY <1>1, <1>2 DEF new

LEMMA CompressStep ==
    ASSUME IInv, NEW shelved \in BOOLEAN, NEW filter \in CompressInputs, NEW fails \in BOOLEAN,
           Compress(shelved, filter, fails)
    PROVE  IInv'
  <1> DEFINE keys == Compressed(shelved, filter)
             newA == UnlinkedRows(m_edit.alarm, m_alarms, keys \cap Unshelved(m_alarms), 1)
             newS == UnlinkedRows(m_edit.shelvedAlarm, m_alarms, keys \cap Shelved(m_alarms), 1)
  <1>1. /\ m_alarms' = ShrunkAlarms(m_alarms, keys, 1)
        /\ m_edit' = EditWith(newA, newS)
        /\ UNCHANGED <<m_alarmListLastChanged, m_shelfListLastChanged, clock>>
        /\ UNCHANGED control /\ UNCHANGED datastore /\ UNCHANGED validator
        /\ Publish(fails)
        /\ IF fails THEN Reply("OperationFailed", 0) ELSE Reply("Ok", Cardinality(keys))
    BY DEF Compress
  <1>2. keys \in SUBSET DOMAIN m_alarms
    BY DEF Compressed, Overlong, OnList, Shelved, Unshelved
  <1> HIDE DEF keys, newA, newS
  <1>3. 1 \in Limit /\ clock \in Nat /\ AlarmsType(m_alarms)
    BY DEF Limit, IInv, TypeOK, CacheType, Time
  <1>4. /\ DOMAIN m_alarms' = DOMAIN m_alarms
        /\ \A k \in DOMAIN m_alarms : /\ m_alarms'[k].shelf = m_alarms[k].shelf
                                      /\ Len(m_alarms'[k].statusChanges)
                                           <= Len(m_alarms[k].statusChanges)
    BY <1>1, <1>2, <1>3, ShrunkAlarmsFacts
  <1>5. Coherent(m_alarms', newA, newS)
    BY <1>1, <1>2, <1>3, ShrinkCoherent DEF IInv, newA, newS
  <1>6. m_edit'.alarm = newA /\ m_edit'.shelvedAlarm = newS
    BY <1>1 DEF EditWith
  <1>7. IsFiniteSet(DOMAIN m_alarms') /\ IsFiniteSet(keys)
    BY <1>2, <1>4, FS_Subset DEF IInv
  <1>8. ControlType' /\ ShelfMatchesRules'
    BY <1>1, <1>4, ControlKept DEF IInv, ShelfMatchesRules
  <1>9. HistoryBounded'
    <2> SUFFICES ASSUME m_maxAlarmStatusChanges # None, NEW k \in DOMAIN m_alarms
                 PROVE  Len(m_alarms'[k].statusChanges) <= m_maxAlarmStatusChanges
      BY <1>1, <1>4 DEF HistoryBounded, control
    <2>1. /\ Len(m_alarms[k].statusChanges) \in Nat
          /\ Len(m_alarms'[k].statusChanges) \in Nat
      BY <1>3, <1>4, <1>5 DEF Coherent, AlarmsType, AlarmEntryType
    <2>2. m_maxAlarmStatusChanges \in Nat
      BY DEF IInv, TypeOK, ControlType
    <2>3. Len(m_alarms[k].statusChanges) <= m_maxAlarmStatusChanges
      BY DEF IInv, HistoryBounded
    <2> QED
      BY <1>4, <2>1, <2>2, <2>3
  <1>10. DatastoreType'
    <2>1. m_inventoryDirty' \in BOOLEAN /\ m_inventory' \in Inventories \cup {NoRows}
      BY <1>1 DEF validator, IInv, TypeOK, DatastoreType
    <2> QED
      BY <1>1, <1>5, <1>6, <2>1, PublishTyped, DatastoreKept DEF Coherent
  <1>11. ReplyType'
    BY <1>1, <1>7, FS_CardinalityType, ReplyTyped DEF CodeType
  <1>12. /\ m_alarmListLastChanged' \in Time /\ m_shelfListLastChanged' \in Time
         /\ clock' \in Time
    BY <1>1 DEF IInv, TypeOK, CacheType
  <1> QED
    BY <1>5, <1>6, <1>7, <1>8, <1>9, <1>10, <1>11, <1>12, CacheStep

(* The settings that an event carries have the types of the settings, and  *)
(* a limit that is not in the loop's reach stays.                          *)
LEMMA ControlSettingsTyped ==
    ASSUME IInv, NEW changes \in EventType, NEW rules,
           rules \in {c.shelves : c \in Configs},
           ControlSettings(changes, rules)
    PROVE  ControlType'
  <1>1. PICK old \in Configs, new \in Configs : changes = ChangesBetween(old, new)
    BY DEF EventType
  <1>2. new \in Config
    BY InputAssumption
  <1>3. \A n \in DOMAIN changes : changes[n] = ConfigValue(new, n)
    BY <1>1 DEF ChangesBetween
  <1>4. \A n : n \in Visited(changes) => n \in DOMAIN changes
    BY DEF Visited
  <1>5. /\ ConfigValue(new, "max-alarm-status-changes") = new.maxAlarmStatusChanges
        /\ ConfigValue(new, "notify-status-changes") = new.notifyStatusChanges
        /\ ConfigValue(new, "notify-severity-level") = new.notifySeverityLevel
    BY DEF ConfigValue
  <1>6. m_maxAlarmStatusChanges' \in Nat \cup {None}
    BY <1>2, <1>3, <1>4, <1>5
       DEF ControlSettings, NewValue, Config, IInv, TypeOK, ControlType
  <1>7. m_notifyStatusChanges' \in NotifyStatusChanges
    BY <1>2, <1>3, <1>4, <1>5
       DEF ControlSettings, NewValue, Config, IInv, TypeOK, ControlType
  <1>8. m_notifySeverityThreshold' \in Severities \cup {None}
    BY <1>2, <1>3, <1>4, <1>5
       DEF ControlSettings, NewValue, Config, IInv, TypeOK, ControlType
  <1>9. m_shelvingRules' \in {c.shelves : c \in Configs}
    BY DEF ControlSettings
  <1> QED
    BY <1>6, <1>7, <1>8, <1>9 DEF ControlType

(* The callback of the control subscription: reshelve() first, then the    *)
(* histories of all alarms, wherever they now are, if the limit is lower.  *)
LEMMA ControlChangedStep ==
    ASSUME IInv, NEW fails \in BOOLEAN, ControlChanged(fails)
    PROVE  IInv'
  <1> DEFINE changes     == Head(controlEvents)
             reshelves   == "alarm-shelving" \in DOMAIN changes
             rules       == IF reshelves THEN running.shelves ELSE m_shelvingRules
             moved       == reshelves /\ Moved(rules) # {}
             crossed     == moved /\ Unshelves(rules) \cup Shelves(rules) # {}
             alarms      == IF moved THEN ReshelvedAlarms(rules) ELSE m_alarms
             alarmRows   == IF moved THEN ReshelvedAlarmRows(rules) ELSE m_edit.alarm
             shelvedRows == IF moved THEN ReshelvedShelvedRows(rules) ELSE m_edit.shelvedAlarm
             max         == m_maxAlarmStatusChanges'
             overlong    == IF LimitShrinks(changes) THEN Overlong(alarms, DOMAIN alarms, max)
                                                     ELSE {}
             newA == UnlinkedRows(alarmRows, alarms, overlong \cap Unshelved(alarms), max)
             newS == UnlinkedRows(shelvedRows, alarms, overlong \cap Shelved(alarms), max)
             stampA == IF crossed THEN Now ELSE m_alarmListLastChanged
  <1>1. /\ controlEvents # <<>>
        /\ controlEvents' = Tail(controlEvents)
        /\ ControlSettings(changes, rules)
        /\ m_alarms' = ShrunkAlarms(alarms, overlong, max)
        /\ moved => clock' = Now /\ updateStatistics(alarms, newA, newS, stampA, Now)
        /\ ~moved => /\ m_edit' = EditWith(newA, newS)
                     /\ UNCHANGED <<m_alarmListLastChanged, m_shelfListLastChanged, clock>>
        /\ Publish(fails) \/ UNCHANGED oper
        /\ reply' = None
        /\ UNCHANGED <<validator, running, inventory, inventoryEvents>>
    BY DEF ControlChanged, DeliverControl, Advance, Now
  <1>2. clock \in Nat /\ Now \in Nat /\ clock <= Now /\ clock' \in Nat /\ clock <= clock'
    BY <1>1 DEF IInv, TypeOK, CacheType, Time, Now
  <1>3. changes \in EventType /\ controlEvents' \in Seq(EventType)
    BY <1>1 DEF IInv, TypeOK, DatastoreType
  <1>4. rules \in {c.shelves : c \in Configs} /\ rules \in Seq(Shelf)
    BY RulesTyped DEF IInv, TypeOK, ControlType, DatastoreType
  <1>5. ControlType'
    BY <1>1, <1>3, <1>4, ControlSettingsTyped
  <1>6. max \in Limit
    BY <1>5 DEF ControlType, Limit
  <1>7. Coherent(m_alarms, m_edit.alarm, m_edit.shelvedAlarm)
    BY DEF IInv
  <1>8. /\ Coherent(ReshelvedAlarms(rules), ReshelvedAlarmRows(rules),
                    ReshelvedShelvedRows(rules))
        /\ \A k \in DOMAIN m_alarms :
              ReshelvedAlarms(rules)[k].shelf = findMatchingShelf(k, rules)
    BY <1>2, <1>4, <1>7, ReshelveCoherent
  <1> HIDE DEF reshelves, rules, changes
  <1>9. DOMAIN alarms = DOMAIN m_alarms
    BY DEF ReshelvedAlarms
  <1>10. \A k \in DOMAIN alarms : /\ alarms[k].shelf = findMatchingShelf(k, rules)
                                  /\ alarms[k].statusChanges = m_alarms[k].statusChanges
    <2> SUFFICES ASSUME NEW k \in DOMAIN m_alarms
                 PROVE  /\ alarms[k].shelf = findMatchingShelf(k, rules)
                        /\ alarms[k].statusChanges = m_alarms[k].statusChanges
      BY <1>9
    <2>1. m_alarms[k] \in AlarmEntryType
      BY DEF IInv, Coherent, AlarmsType
    <2>2. CASE moved
      <3>1. alarms[k].shelf = findMatchingShelf(k, rules)
        BY <1>8, <2>2
      <3>2. alarms[k].statusChanges = m_alarms[k].statusChanges
        BY <2>1, <2>2 DEF ReshelvedAlarms, AlarmEntryType
      <3> QED
        BY <3>1, <3>2
    <2>3. CASE ~moved
      <3>1. alarms[k] = m_alarms[k]
        BY <2>3
      <3>2. CASE reshelves
        BY <2>3, <3>1, <3>2 DEF Moved
      <3>3. CASE ~reshelves
        BY <3>1, <3>3 DEF IInv, ShelfMatchesRules, ShelfFor, rules
      <3> QED
        BY <3>1, <3>2, <3>3
    <2> QED
      BY <2>2, <2>3
  <1>11. Coherent(alarms, alarmRows, shelvedRows)
    BY <1>7, <1>8
  <1> HIDE DEF alarms, alarmRows, shelvedRows, moved
  <1>12. overlong \in SUBSET DOMAIN alarms
    BY DEF Overlong
  <1> HIDE DEF overlong
  <1>13. Coherent(m_alarms', newA, newS)
    BY <1>1, <1>6, <1>11, <1>12, ShrinkCoherent
  <1> HIDE DEF newA, newS
  <1>14. /\ DOMAIN m_alarms' = DOMAIN alarms
         /\ \A k \in DOMAIN alarms :
               /\ m_alarms'[k].shelf = alarms[k].shelf
               /\ Len(m_alarms'[k].statusChanges) <= Len(alarms[k].statusChanges)
               /\ k \in overlong /\ max # None => Len(m_alarms'[k].statusChanges) <= max
    BY <1>1, <1>6, <1>11, <1>12, ShrunkAlarmsFacts DEF Coherent
  <1>15. IsFiniteSet(DOMAIN m_alarms')
    BY <1>9, <1>14 DEF IInv
  <1>16. ShelfMatchesRules'
    BY <1>1, <1>10, <1>14 DEF ShelfMatchesRules, ShelfFor, ControlSettings
  <1>17. HistoryBounded'
    <2> SUFFICES ASSUME max # None, NEW k \in DOMAIN alarms, k \notin overlong
                 PROVE  Len(m_alarms'[k].statusChanges) <= max
      BY <1>14 DEF HistoryBounded
    <2> DEFINE h == m_alarms[k].statusChanges
    <2>1. h \in Seq(StatusChange) /\ Len(h) \in Nat /\ max \in Nat
      BY <1>6, <1>9 DEF IInv, Coherent, AlarmsType, AlarmEntryType, Limit
    <2>2. Len(m_alarms'[k].statusChanges) \in Nat
      BY <1>13, <1>14 DEF Coherent, AlarmsType, AlarmEntryType
    <2>3. alarms[k].statusChanges = h /\ Len(m_alarms'[k].statusChanges) <= Len(h)
      BY <1>10, <1>14
    <2>4. Len(h) <= max
      <3>1. CASE LimitShrinks(changes)
        <4>1. ~ (toErase(alarms[k].statusChanges, max) > 0)
          BY <3>1 DEF overlong, Overlong
        <4> QED
          BY <2>1, <2>3, <4>1 DEF toErase
      <3>2. CASE ~ LimitShrinks(changes)
        <4>1. max = NewValue(changes, "max-alarm-status-changes", m_maxAlarmStatusChanges)
          BY <1>1 DEF ControlSettings
        <4>2. /\ m_maxAlarmStatusChanges \in Limit
              /\ m_maxAlarmStatusChanges # None => Len(h) <= m_maxAlarmStatusChanges
          BY <1>9 DEF IInv, TypeOK, ControlType, Limit, HistoryBounded
        <4>3. CASE "max-alarm-status-changes" \in Visited(changes)
          <5>1. m_maxAlarmStatusChanges # None /\ ~ (max < m_maxAlarmStatusChanges)
            BY <3>2, <4>1, <4>3 DEF LimitShrinks
          <5> QED
            BY <2>1, <4>2, <5>1 DEF Limit
        <4>4. CASE "max-alarm-status-changes" \notin Visited(changes)
          BY <4>1, <4>2, <4>4 DEF NewValue
        <4> QED
          BY <4>3, <4>4
      <3> QED
        BY <3>1, <3>2
    <2> HIDE DEF h
    <2> QED
      BY <2>1, <2>2, <2>3, <2>4
  <1>18. /\ m_alarmListLastChanged' \in Time /\ m_shelfListLastChanged' \in Time
         /\ m_edit'.alarm = newA /\ m_edit'.shelvedAlarm = newS
    <2>1. /\ m_alarmListLastChanged \in Time /\ m_shelfListLastChanged \in Time
          /\ Now \in Time /\ stampA \in Time /\ AlarmsType(alarms)
      BY <1>2, <1>11 DEF IInv, TypeOK, CacheType, Coherent, Time
    <2> HIDE DEF stampA
    <2>2. CASE moved
      BY <1>1, <2>1, <2>2, StatisticsTyped
    <2>3. CASE ~moved
      BY <1>1, <2>1, <2>3 DEF EditWith
    <2> QED
      BY <2>2, <2>3
  <1>19. DatastoreType'
    <2>1. m_inventoryDirty' \in BOOLEAN /\ m_inventory' \in Inventories \cup {NoRows}
      BY <1>1 DEF validator, IInv, TypeOK, DatastoreType
    <2>2. RowsType(oper'.alarm, oper'.shelvedAlarm)
      <3>1. RowsType(m_edit'.alarm, m_edit'.shelvedAlarm)
        BY <1>13, <1>18 DEF Coherent
      <3> QED
        BY <1>1, <3>1, PublishTyped DEF IInv, TypeOK, DatastoreType
    <2> QED
      BY <1>1, <1>3, <2>1, <2>2 DEF IInv, TypeOK, DatastoreType
  <1>20. ReplyType'
    BY <1>1 DEF ReplyType
  <1>21. clock' \in Time
    BY <1>2 DEF Time
  <1> QED
    BY <1>5, <1>13, <1>15, <1>16, <1>17, <1>18, <1>19, <1>20, <1>21, CacheStep
-----------------------------------------------------------------------------
(* The invariant is inductive: no handler, and no edit of a datastore,     *)
(* breaks it, if submissions record new instants.                          *)
NewInstant ==
    \A input \in Submissions, fails \in BOOLEAN : SubmitChanged(input, fails) => NowIsNew(input.key)

LEMMA IInvStep == IInv /\ NewInstant /\ [Next]_vars => IInv'
  <1> SUFFICES ASSUME IInv, NewInstant, [Next]_vars PROVE IInv'
    OBVIOUS
  <1>1. CASE UNCHANGED vars
    <2>1. /\ UNCHANGED <<control, cache, oper, clock>> /\ UNCHANGED validator
          /\ UNCHANGED datastore /\ UNCHANGED reply
      BY <1>1 DEF vars
    <2>2. ReplyType'
      BY <2>1 DEF IInv, TypeOK, ReplyType
    <2> QED
      BY <2>1, <2>2, QuietStep DEF IInv, TypeOK, DatastoreType, validator, datastore
  <1>2. CASE submitAlarm
    BY <1>2, QuietActions, SubmitUnchangedStep, SubmitChangedStep DEF submitAlarm, NewInstant
  <1>3. CASE purgeAlarms
    BY <1>3, QuietActions, PurgeStep DEF purgeAlarms
  <1>4. CASE compressAlarms
    BY <1>4, QuietActions, CompressStep DEF compressAlarms
  <1>5. CASE controlCallback
    BY <1>5, ControlChangedStep DEF controlCallback
  <1>6. CASE InventoryChanged \/ Environment
    BY <1>6, QuietActions
  <1> QED
    BY <1>1, <1>2, <1>3, <1>4, <1>5, <1>6 DEF Next
-----------------------------------------------------------------------------
(* The order of the histories under a clock that only advances *)

Ordered == HistoriesOrdered(m_alarms, clock)

LEMMA HistoryLater ==
    ASSUME NEW entry \in AlarmEntryType, NEW t \in Nat, NEW now \in Nat, t <= now,
           HistoryOrdered(entry, t)
    PROVE  HistoryOrdered(entry, now)
  BY DEF HistoryOrdered, AlarmEntryType, Time

LEMMA ShrunkOrdered ==
    ASSUME NEW entry \in AlarmEntryType, NEW now \in Nat, HistoryOrdered(entry, now),
           NEW max \in Limit
    PROVE  HistoryOrdered([entry EXCEPT !.statusChanges = Shrunk(entry.statusChanges, max)], now)
  <1> DEFINE h    == entry.statusChanges
             n    == Len(h)
             e    == toErase(h, max)
             kept == Shrunk(h, max)
             new  == [entry EXCEPT !.statusChanges = kept]
  <1>1. h \in Seq(StatusChange) /\ n \in Nat /\ e \in 0..n /\ DOMAIN h = 1..n
    BY EraseBounds DEF AlarmEntryType
  <1>2. kept \in Seq(StatusChange) /\ Len(kept) = n - e /\ DOMAIN kept = 1..(n - e)
        /\ \A i \in 1..(n - e) : kept[i] = h[i + e]
    <2>1. /\ kept \in Seq(StatusChange) /\ Len(kept) = n - e
          /\ \A i \in 1..Len(kept) : kept[i] = h[i + e]
      BY <1>1, ShrunkSuffix
    <2> HIDE DEF h, n, e, kept
    <2> QED
      BY <2>1
  <1>3. new.statusChanges = kept /\ new.lastChanged = entry.lastChanged
    BY DEF AlarmEntryType
  <1>4. /\ \A i, j \in 1..n : i < j => h[i].time < h[j].time
        /\ \A i \in 1..n : h[i].time <= entry.lastChanged
        /\ entry.lastChanged <= now
    BY <1>1 DEF HistoryOrdered
  <1> HIDE DEF h, n, e, kept, new
  <1>5. ASSUME NEW i \in 1..(n - e) PROVE i + e \in 1..n
    BY <1>1
  <1>6. \A i, j \in 1..(n - e) : i < j => kept[i].time < kept[j].time
    <2> SUFFICES ASSUME NEW i \in 1..(n - e), NEW j \in 1..(n - e), i < j
                 PROVE  kept[i].time < kept[j].time
      OBVIOUS
    <2>1. i + e < j + e
      BY <1>1
    <2> QED
      BY <1>2, <1>4, <1>5, <2>1
  <1>7. \A i \in 1..(n - e) : kept[i].time <= entry.lastChanged
    BY <1>2, <1>4, <1>5
  <1> QED
    BY <1>2, <1>3, <1>4, <1>6, <1>7 DEF HistoryOrdered, new, kept, h

LEMMA ShrunkAlarmsOrdered ==
    ASSUME NEW alarms, AlarmsType(alarms), NEW now \in Nat, HistoriesOrdered(alarms, now),
           NEW keys, NEW max \in Limit
    PROVE  HistoriesOrdered(ShrunkAlarms(alarms, keys, max), now)
  <1> DEFINE new == ShrunkAlarms(alarms, keys, max)
  <1>1. /\ DOMAIN new = DOMAIN alarms
        /\ \A k \in DOMAIN alarms :
              new[k] = IF k \in keys
                         THEN [alarms[k] EXCEPT !.statusChanges =
                                  Shrunk(alarms[k].statusChanges, max)]
                         ELSE alarms[k]
    BY DEF ShrunkAlarms
  <1>2. \A k \in DOMAIN alarms : alarms[k] \in AlarmEntryType /\ HistoryOrdered(alarms[k], now)
    BY DEF AlarmsType, HistoriesOrdered
  <1> HIDE DEF new
  <1>3. ASSUME NEW k \in DOMAIN new PROVE HistoryOrdered(new[k], now)
    BY <1>1, <1>2, ShrunkOrdered
  <1> QED
    BY <1>3 DEF HistoriesOrdered, new

(* An update appends a change that is later than the others.               *)
LEMMA UpdateOrdered ==
    ASSUME IInv, Ordered, NEW input \in Submissions, ~IsRedundantClear(input),
           WhatChanged(input).changed
    PROVE  HistoryOrdered(WhatChanged(input).entry, Now)
  <1> DEFINE key     == input.key
             old     == IF key \in DOMAIN m_alarms THEN m_alarms[key] ELSE DefaultEntry
             entry   == WhatChanged(input).entry
             h       == old.statusChanges
             n       == Len(h)
             change  == [time              |-> Now,
                         perceivedSeverity |-> entry.lastSeverity,
                         text              |-> input.text]
             longer  == Append(h, change)
             full    == [entry EXCEPT !.statusChanges = longer]
  <1>1. entry \in AlarmEntryType
    BY WhatChangedFacts
  <1>2. /\ entry.lastChanged = Now
        /\ entry.statusChanges = Shrunk(longer, m_maxAlarmStatusChanges)
    BY DEF WhatChanged, updateByRpc
  <1>3. clock \in Nat /\ Now \in Nat /\ clock < Now /\ m_maxAlarmStatusChanges \in Limit
    BY DEF IInv, TypeOK, CacheType, ControlType, Limit, Time, Now
  <1>4. /\ h \in Seq(StatusChange) /\ n \in Nat /\ DOMAIN h = 1..n
        /\ \A i \in 1..n : h[i].time < Now
        /\ \A i, j \in 1..n : i < j => h[i].time < h[j].time
    <2>1. CASE key \in DOMAIN m_alarms
      <3>1. old \in AlarmEntryType /\ HistoryOrdered(old, clock)
        BY <2>1 DEF IInv, Coherent, AlarmsType, Ordered, HistoriesOrdered
      <3>2. /\ h \in Seq(StatusChange) /\ DOMAIN h = 1..n /\ n \in Nat
            /\ old.lastChanged \in Nat
        BY <3>1 DEF AlarmEntryType, Time
      <3> HIDE DEF old
      <3>3. ASSUME NEW i \in 1..n PROVE h[i].time < Now
        <4>1. h[i] \in StatusChange
          BY <3>2
        <4>2. h[i].time \in Nat /\ h[i].time <= old.lastChanged /\ old.lastChanged <= clock
          BY <3>1, <3>2, <4>1 DEF HistoryOrdered, StatusChange, Time
        <4> QED
          BY <1>3, <3>2, <4>2
      <3> QED
        BY <3>1, <3>2, <3>3 DEF HistoryOrdered
    <2>2. CASE key \notin DOMAIN m_alarms
      BY <2>2 DEF DefaultEntry
    <2> QED
      BY <2>1, <2>2
  <1> HIDE DEF h, n, old
  <1>5. change \in StatusChange
    BY <1>1, <1>3, InputAssumption DEF StatusChange, AlarmEntryType, Time
  <1>6. change.time = Now
    OBVIOUS
  <1> HIDE DEF change
  <1>7. /\ longer \in Seq(StatusChange) /\ DOMAIN longer = 1..(n + 1) /\ Len(longer) = n + 1
        /\ longer[n + 1] = change /\ \A i \in 1..n : longer[i] = h[i]
    BY <1>4, <1>5 DEF n
  <1> HIDE DEF longer
  <1>8. full \in AlarmEntryType /\ full.statusChanges = longer /\ full.lastChanged = Now
    BY <1>1, <1>2, <1>7 DEF AlarmEntryType
  <1>9. HistoryOrdered(full, Now)
    <2> HIDE DEF full
    <2>1. \A i \in 1..(n + 1) : i = n + 1 \/ i \in 1..n
      BY <1>4
    <2>2. \A i \in 1..(n + 1) : longer[i].time <= Now
      <3> TAKE i \in 1..(n + 1)
      <3>1. longer[i] \in StatusChange
        BY <1>7
      <3>2. longer[i].time \in Nat
        BY <3>1 DEF StatusChange, Time
      <3> QED
        BY <1>3, <1>4, <1>6, <1>7, <2>1, <3>2
    <2>3. \A i, j \in 1..(n + 1) : i < j => longer[i].time < longer[j].time
      <3> SUFFICES ASSUME NEW i \in 1..(n + 1), NEW j \in 1..(n + 1), i < j
                   PROVE  longer[i].time < longer[j].time
        OBVIOUS
      <3>1. i \in 1..n
        BY <1>4
      <3> QED
        BY <1>4, <1>6, <1>7, <2>1, <3>1
    <2>4. full.lastChanged <= Now
      BY <1>3, <1>8
    <2> QED
      BY <1>7, <1>8, <2>2, <2>3, <2>4 DEF HistoryOrdered
  <1>10. entry = [full EXCEPT !.statusChanges = Shrunk(full.statusChanges, m_maxAlarmStatusChanges)]
    <2> HIDE DEF entry
    <2> QED
      BY <1>1, <1>2, <1>8 DEF AlarmEntryType
  <1> HIDE DEF full, entry
  <1>11. HistoryOrdered(entry, Now)
    BY <1>3, <1>8, <1>9, <1>10, ShrunkOrdered
  <1> QED
    BY <1>11 DEF entry

(* A move between shelves touches nothing else of an entry.                *)
LEMMA ReshelvedKeep ==
    ASSUME AlarmsType(m_alarms), NEW rules
    PROVE  /\ DOMAIN ReshelvedAlarms(rules) = DOMAIN m_alarms
           /\ \A k \in DOMAIN m_alarms :
                 /\ ReshelvedAlarms(rules)[k].statusChanges = m_alarms[k].statusChanges
                 /\ ReshelvedAlarms(rules)[k].lastChanged = m_alarms[k].lastChanged
                 /\ ReshelvedAlarms(rules)[k].created = m_alarms[k].created
  <1>1. DOMAIN ReshelvedAlarms(rules) = DOMAIN m_alarms
    BY DEF ReshelvedAlarms
  <1>2. ASSUME NEW k \in DOMAIN m_alarms
        PROVE  /\ ReshelvedAlarms(rules)[k].statusChanges = m_alarms[k].statusChanges
               /\ ReshelvedAlarms(rules)[k].lastChanged = m_alarms[k].lastChanged
               /\ ReshelvedAlarms(rules)[k].created = m_alarms[k].created
    <2>1. m_alarms[k] \in AlarmEntryType
      BY DEF AlarmsType
    <2>2. ReshelvedAlarms(rules)[k] =
            IF k \in Moved(rules)
              THEN [m_alarms[k] EXCEPT !.shelf = findMatchingShelf(k, rules)]
              ELSE m_alarms[k]
      BY DEF ReshelvedAlarms
    <2> QED
      BY <2>1, <2>2 DEF AlarmEntryType
  <1> QED
    BY <1>1, <1>2

LEMMA OrderedStep == IInv /\ Ordered /\ [Next]_vars => Ordered'
  <1> SUFFICES ASSUME IInv, Ordered, [Next]_vars PROVE HistoriesOrdered(m_alarms', clock')
    BY DEF Ordered, HistoriesOrdered, HistoryOrdered
  <1>1. /\ clock \in Nat /\ Now \in Nat /\ clock <= Now /\ AlarmsType(m_alarms)
        /\ \A k \in DOMAIN m_alarms : /\ m_alarms[k] \in AlarmEntryType
                                      /\ HistoryOrdered(m_alarms[k], clock)
                                      /\ HistoryOrdered(m_alarms[k], Now)
    <2>1. clock \in Nat /\ Now \in Nat /\ clock <= Now /\ AlarmsType(m_alarms)
      BY DEF IInv, TypeOK, CacheType, Time, Now
    <2> QED
      BY <2>1, HistoryLater DEF AlarmsType, Ordered, HistoriesOrdered
  <1>2. ASSUME UNCHANGED <<m_alarms, clock>> PROVE HistoriesOrdered(m_alarms', clock')
    BY <1>2 DEF Ordered
  <1>3. ASSUME NEW input \in Submissions, SubmitUnchanged(input)
        PROVE  HistoriesOrdered(m_alarms', clock')
    <2>1. input.key \in DOMAIN m_alarms /\ WhatChanged(input).entry = m_alarms[input.key]
      BY <1>3, WhatChangedFacts DEF SubmitUnchanged
    <2>2. /\ DOMAIN m_alarms' = DOMAIN m_alarms /\ clock' = clock
          /\ \A k \in DOMAIN m_alarms : m_alarms'[k] = m_alarms[k]
      BY <1>3, <2>1 DEF SubmitUnchanged, Put
    <2> QED
      BY <1>1, <2>2 DEF HistoriesOrdered
  <1>4. ASSUME NEW input \in Submissions, NEW fails \in BOOLEAN, SubmitChanged(input, fails)
        PROVE  HistoriesOrdered(m_alarms', clock')
    <2>1. /\ m_alarms' = Put(m_alarms, input.key, WhatChanged(input).entry) /\ clock' = Now
          /\ ~IsRedundantClear(input) /\ WhatChanged(input).changed
      BY <1>4 DEF SubmitChanged, Advance
    <2>2. HistoryOrdered(WhatChanged(input).entry, Now)
      BY <2>1, UpdateOrdered
    <2> QED
      BY <1>1, <2>1, <2>2 DEF HistoriesOrdered, Put
  <1>5. ASSUME NEW shelved \in BOOLEAN, NEW filter \in PurgeInputs, NEW fails \in BOOLEAN,
               Purge(shelved, filter, fails)
        PROVE  HistoriesOrdered(m_alarms', clock')
    <2>1. m_alarms' = Without(m_alarms, Purged(shelved, filter)) /\ clock' = Now
      BY <1>5 DEF Purge, Advance
    <2> QED
      BY <1>1, <2>1 DEF HistoriesOrdered, Without
  <1>6. ASSUME NEW shelved \in BOOLEAN, NEW filter \in CompressInputs, NEW fails \in BOOLEAN,
               Compress(shelved, filter, fails)
        PROVE  HistoriesOrdered(m_alarms', clock')
    <2>1. m_alarms' = ShrunkAlarms(m_alarms, Compressed(shelved, filter), 1) /\ clock' = clock
          /\ 1 \in Limit
      BY <1>6 DEF Compress, Limit
    <2> QED
      BY <1>1, <2>1, ShrunkAlarmsOrdered DEF Ordered
  <1>7. ASSUME NEW fails \in BOOLEAN, ControlChanged(fails)
        PROVE  HistoriesOrdered(m_alarms', clock')
    <2> DEFINE changes   == Head(controlEvents)
               reshelves == "alarm-shelving" \in DOMAIN changes
               rules     == IF reshelves THEN running.shelves ELSE m_shelvingRules
               moved     == reshelves /\ Moved(rules) # {}
               alarms    == IF moved THEN ReshelvedAlarms(rules) ELSE m_alarms
               max       == m_maxAlarmStatusChanges'
               overlong  == IF LimitShrinks(changes)
                              THEN Overlong(alarms, DOMAIN alarms, max) ELSE {}
    <2>1. /\ m_alarms' = ShrunkAlarms(alarms, overlong, max)
          /\ clock' = Now \/ clock' = clock
      BY <1>7 DEF ControlChanged, Advance
    <2>2. max \in Limit
      <3>1. IInv'
        BY <1>7, ControlChangedStep
      <3> QED
        BY <3>1 DEF IInv, TypeOK, ControlType, Limit
    <2>3. rules \in Seq(Shelf)
      BY RulesTyped
    <2>4. AlarmsType(ReshelvedAlarms(rules))
      BY <1>1, <2>3, ReshelveCoherent DEF IInv, Coherent
    <2>5. /\ DOMAIN ReshelvedAlarms(rules) = DOMAIN m_alarms
          /\ \A k \in DOMAIN m_alarms :
                /\ ReshelvedAlarms(rules)[k].statusChanges = m_alarms[k].statusChanges
                /\ ReshelvedAlarms(rules)[k].lastChanged = m_alarms[k].lastChanged
      BY <1>1, ReshelvedKeep
    <2> HIDE DEF rules, overlong, max
    <2>6. \A k \in DOMAIN m_alarms : HistoryOrdered(m_alarms[k], clock')
      BY <1>1, <2>1
    <2>7. AlarmsType(alarms) /\ HistoriesOrdered(alarms, clock') /\ clock' \in Nat
      BY <1>1, <2>1, <2>4, <2>5, <2>6 DEF HistoriesOrdered, HistoryOrdered
    <2> HIDE DEF alarms
    <2> QED
      BY <2>1, <2>2, <2>7, ShrunkAlarmsOrdered
  <1>8. CASE submitAlarm
    BY <1>2, <1>3, <1>4, <1>8 DEF submitAlarm, RefuseClient, SubmitBadKey, SubmitReadFails,
                                  SubmitNotInInventory, SubmitRedundantClear, cache
  <1>9. CASE purgeAlarms
    BY <1>2, <1>5, <1>9 DEF purgeAlarms, PurgeNothing, cache
  <1>10. CASE compressAlarms
    BY <1>2, <1>6, <1>10 DEF compressAlarms, CompressNothing, cache
  <1>11. CASE controlCallback
    BY <1>7, <1>11 DEF controlCallback
  <1>12. CASE InventoryChanged \/ Environment
    BY <1>2, <1>12 DEF InventoryChanged, Environment, EditControl, EditInventory, cache
  <1>13. CASE UNCHANGED vars
    BY <1>2, <1>13 DEF vars, cache
  <1> QED
    BY <1>8, <1>9, <1>10, <1>11, <1>12, <1>13 DEF Next

(* What is later than all of a history is new to it.                       *)
LEMMA OrderedIsNew == ASSUME IInv, Ordered PROVE \A key : NowIsNew(key)
  <1> SUFFICES ASSUME NEW key \in DOMAIN m_alarms, NEW i \in DOMAIN m_alarms[key].statusChanges
               PROVE  m_alarms[key].statusChanges[i].time # Now
    BY DEF NowIsNew, IsNewTo
  <1> DEFINE entry == m_alarms[key]
  <1>1. entry \in AlarmEntryType /\ HistoryOrdered(entry, clock) /\ clock \in Nat
    BY DEF IInv, TypeOK, CacheType, AlarmsType, Ordered, HistoriesOrdered, Time
  <1> HIDE DEF entry
  <1>2. entry.statusChanges[i] \in StatusChange /\ i \in DOMAIN entry.statusChanges
    BY <1>1 DEF AlarmEntryType, entry
  <1>3. /\ entry.statusChanges[i].time <= entry.lastChanged /\ entry.lastChanged <= clock
        /\ entry.statusChanges[i].time \in Nat /\ entry.lastChanged \in Nat
    BY <1>1, <1>2 DEF HistoryOrdered, AlarmEntryType, StatusChange, Time
  <1>4. entry.statusChanges[i].time # Now
    BY <1>1, <1>3 DEF Now
  <1> QED
    BY <1>4 DEF entry

(* No reachable state breaks the inductive invariant or the order.         *)
LEMMA Invariance == Spec => [](IInv /\ Ordered)
  <1>1. Init => Ordered
    BY DEF Init, Ordered, HistoriesOrdered, NoRows
  <1>2. IInv /\ Ordered /\ [Next]_vars => IInv' /\ Ordered'
    BY OrderedIsNew, IInvStep, OrderedStep DEF NewInstant
  <1> QED
    BY InitIInv, <1>1, <1>2, PTL DEF Spec
-----------------------------------------------------------------------------
(* The theorems *)

(* In every reachable state the daemon's members, the edit and what is     *)
(* published are well-typed: no row lacks a leaf, no entry has the         *)
(* severities -1 and "cleared" that updateByRpc() computes with.           *)
THEOREM TypeCorrect == Spec => []TypeOK
  <1>1. IInv => TypeOK
    BY DEF IInv
  <1> QED
    BY Invariance, <1>1, PTL

(* Whatever the shelves, the limits and the order of edits, events, RPCs   *)
(* and failed publications: every node that purge, compress, reshelve and  *)
(* shrink look up and use without a check is there, and no other.          *)
THEOREM EditMirrors == Spec => []EditMirrorsCache
  <1>1. IInv => EditMirrorsCache
    BY DEF IInv, Coherent, EditMirrorsCache
  <1> QED
    BY Invariance, <1>1, PTL

(* No history is ever longer than the limit that the daemon has taken over *)
(* from the configuration.                                                 *)
THEOREM HistoryStaysBounded == Spec => []HistoryBounded
  <1>1. IInv => HistoryBounded
    BY DEF IInv
  <1> QED
    BY Invariance, <1>1, PTL

(* The shelf of every cached alarm is the one its rules select, so that    *)
(* submitAlarm() writes to the list that holds the alarm's row.            *)
THEOREM ShelvesMatch == Spec => []ShelfMatchesRules
  <1>1. IInv => ShelfMatchesRules
    BY DEF IInv
  <1> QED
    BY Invariance, <1>1, PTL

LEMMA FreshStep == TypeOK /\ InventoryFresh /\ [Next]_vars => InventoryFresh'
  <1> SUFFICES ASSUME TypeOK, InventoryFresh, [Next]_vars PROVE InventoryFresh'
    OBVIOUS
  <1> USE DEF InventoryFresh, validator, datastore
  <1>1. ASSUME rebuildInventory, UNCHANGED datastore PROVE InventoryFresh'
    BY <1>1 DEF rebuildInventory, FreshInventory
  <1>2. ASSUME UNCHANGED validator, UNCHANGED <<inventory, inventoryEvents>>
        PROVE  InventoryFresh'
    BY <1>2
  <1>3. CASE submitAlarm
    <2>1. CASE RefuseClient
      BY <1>2, <2>1 DEF RefuseClient
    <2>2. ASSUME NEW input \in Submissions, SubmitBadKey(input) \/ SubmitReadFails(input)
          PROVE  InventoryFresh'
      BY <1>2, <2>2 DEF SubmitBadKey, SubmitReadFails
    <2>3. ASSUME NEW input \in Submissions,
                 \/ SubmitNotInInventory(input)
                 \/ SubmitRedundantClear(input)
                 \/ SubmitUnchanged(input)
                 \/ \E fails \in BOOLEAN : SubmitChanged(input, fails)
          PROVE  rebuildInventory /\ UNCHANGED datastore
      BY <2>3 DEF SubmitNotInInventory, SubmitRedundantClear, SubmitUnchanged, SubmitChanged
    <2> QED
      BY <1>1, <1>3, <2>1, <2>2, <2>3 DEF submitAlarm
  <1>4. CASE purgeAlarms
    BY <1>2, <1>4 DEF purgeAlarms, PurgeNothing, Purge
  <1>5. CASE compressAlarms
    BY <1>2, <1>5 DEF compressAlarms, CompressNothing, Compress
  <1>6. CASE controlCallback
    BY <1>2, <1>6 DEF controlCallback, ControlChanged
  <1>7. CASE InventoryChanged
    BY <1>7 DEF InventoryChanged
  <1>8. CASE Environment
    <2>1. ASSUME NEW c \in Configs, EditControl(c) PROVE InventoryFresh'
      BY <1>2, <2>1 DEF EditControl
    <2>2. ASSUME NEW i \in Inventories, EditInventory(i) PROVE inventoryEvents' # 0
      BY <2>2 DEF EditInventory, TypeOK, DatastoreType
    <2> QED
      BY <1>8, <2>1, <2>2 DEF Environment
  <1>9. CASE UNCHANGED vars
    BY <1>2, <1>9 DEF vars
  <1> QED
    BY <1>3, <1>4, <1>5, <1>6, <1>7, <1>8, <1>9 DEF Next

(* The lazily rebuilt inventory of submitAlarm() is never stale once every *)
(* event about the inventory has been handled: the flag that the callback  *)
(* sets is cleared only together with a fresh read.                        *)
THEOREM InventoryStaysFresh == Spec => []InventoryFresh
  <1>1. Init => InventoryFresh
    BY DEF Init, InventoryFresh
  <1> QED
    BY <1>1, FreshStep, TypeCorrect, PTL DEF Spec

(* What is published stays or becomes the edit.                            *)
LEMMA KeptOrReplaced == [Next]_vars => oper' = oper \/ oper' = m_edit'
  <1> SUFFICES ASSUME Next PROVE oper' = oper \/ oper' = m_edit'
    BY DEF vars
  <1>1. ASSUME NEW fails \in BOOLEAN, Publish(fails) PROVE oper' = oper \/ oper' = m_edit'
    BY <1>1 DEF Publish
  <1>2. CASE submitAlarm
    BY <1>1, <1>2 DEF submitAlarm, RefuseClient, SubmitBadKey, SubmitReadFails, SubmitNotInInventory,
                      SubmitRedundantClear, SubmitUnchanged, SubmitChanged
  <1>3. CASE purgeAlarms
    BY <1>1, <1>3 DEF purgeAlarms, PurgeNothing, Purge
  <1>4. CASE compressAlarms
    BY <1>1, <1>4 DEF compressAlarms, CompressNothing, Compress
  <1>5. CASE controlCallback
    BY <1>1, <1>5 DEF controlCallback, ControlChanged
  <1>6. CASE InventoryChanged \/ Environment
    BY <1>6 DEF InventoryChanged, Environment, EditControl, EditInventory
  <1> QED
    BY <1>2, <1>3, <1>4, <1>5, <1>6 DEF Next

(* A map is what its keys map to: one that keeps every entry is the same.  *)
IsFunction(f) == f = [x \in DOMAIN f |-> f[x]]

IsMap == IsFunction(m_alarms)

LEMMA AlarmsAreMap ==
    /\ Init => IsMap
    /\ IsMap /\ [Next]_vars => IsMap'
  <1>1. Init => IsMap
    BY DEF Init, NoRows, IsMap, IsFunction
  <1> SUFFICES ASSUME IsFunction(m_alarms), Next PROVE IsFunction(m_alarms')
    BY <1>1 DEF IsMap, IsFunction, vars, cache
  <1>2. /\ \A g, k, v : IsFunction(Put(g, k, v))
        /\ \A g, K : IsFunction(Without(g, K))
        /\ \A alarms, keys, max : IsFunction(ShrunkAlarms(alarms, keys, max))
    BY DEF IsFunction, Put, Without, ShrunkAlarms
  <1>3. CASE submitAlarm
    BY <1>2, <1>3 DEF submitAlarm, RefuseClient, SubmitBadKey, SubmitReadFails,
                      SubmitNotInInventory, SubmitRedundantClear, SubmitUnchanged,
                      SubmitChanged, cache
  <1>4. CASE purgeAlarms
    BY <1>2, <1>4 DEF purgeAlarms, PurgeNothing, Purge, cache
  <1>5. CASE compressAlarms
    BY <1>2, <1>5 DEF compressAlarms, CompressNothing, Compress, cache
  <1>6. CASE controlCallback
    BY <1>2, <1>6 DEF controlCallback, ControlChanged
  <1>7. CASE InventoryChanged \/ Environment
    BY <1>7 DEF InventoryChanged, Environment, EditControl, EditInventory, cache
  <1> QED
    BY <1>3, <1>4, <1>5, <1>6, <1>7 DEF Next

(* No handler that changed an alarm answers Ok without having published.   *)
LEMMA OkIsPublished ==
    ASSUME IInv, IsMap, Next,
           m_alarms' # m_alarms, reply' # None, reply'.code = "Ok"
    PROVE  oper' = m_edit'
  <1> USE DEF cache
  <1>1. ASSUME NEW input \in Submissions, SubmitUnchanged(input) PROVE m_alarms' = m_alarms
    <2>1. input.key \in DOMAIN m_alarms /\ WhatChanged(input).entry = m_alarms[input.key]
      BY <1>1, WhatChangedFacts DEF SubmitUnchanged
    <2>2. m_alarms' = Put(m_alarms, input.key, m_alarms[input.key])
      BY <1>1, <2>1 DEF SubmitUnchanged
    <2> QED
      BY <2>1, <2>2 DEF Put, IsMap, IsFunction
  <1>2. ASSUME NEW input \in Submissions, NEW fails \in BOOLEAN, SubmitChanged(input, fails)
        PROVE  oper' = m_edit'
    <2>1. fails => reply'.code = "OperationFailed"
      BY <1>2 DEF SubmitChanged, Reply
    <2> QED
      BY <1>2, <2>1 DEF SubmitChanged, Publish
  <1>3. CASE submitAlarm
    BY <1>1, <1>2, <1>3 DEF submitAlarm, RefuseClient, SubmitBadKey, SubmitReadFails,
                            SubmitNotInInventory, SubmitRedundantClear
  <1>4. CASE purgeAlarms
    BY <1>4 DEF purgeAlarms, PurgeNothing, Purge, Publish, Reply
  <1>5. CASE compressAlarms
    BY <1>5 DEF compressAlarms, CompressNothing, Compress, Publish, Reply
  <1>6. CASE controlCallback
    BY <1>6 DEF controlCallback, ControlChanged
  <1>7. CASE InventoryChanged \/ Environment
    BY <1>7 DEF InventoryChanged, Environment, EditControl, EditInventory
  <1> QED
    BY <1>3, <1>4, <1>5, <1>6, <1>7 DEF Next

LEMMA CaughtUp ==
    ASSUME IInv, IsMap, IInv', [Next]_vars,
           \/ oper' # oper
           \/ m_alarms' # m_alarms /\ reply' # None /\ reply'.code = "Ok"
    PROVE  MirrorsAlarms(oper'.alarm, oper'.shelvedAlarm, m_alarms')
  <1>1. oper' = m_edit'
    BY KeptOrReplaced, OkIsPublished DEF vars, cache
  <1>2. Coherent(m_alarms', m_edit'.alarm, m_edit'.shelvedAlarm)
    BY DEF IInv
  <1> QED
    BY <1>1, <1>2 DEF Coherent

(* Failed publications leave nothing behind for good: the next handler     *)
(* that publishes brings all that they did not, and each one that changes  *)
(* an alarm and answers Ok has published (Daemon.cpp:456-467,514-527,      *)
(* 556-562).                                                               *)
THEOREM PublicationsCatchUp == Spec => PublicationCatchesUp
  <1>1. IInv /\ IsMap /\ IInv' /\ [Next]_vars
          => [\/ oper' # oper
              \/ m_alarms' # m_alarms /\ reply' # None /\ reply'.code = "Ok"
              => MirrorsAlarms(oper'.alarm, oper'.shelvedAlarm, m_alarms')]_vars
    BY CaughtUp
  <1> QED
    BY <1>1, AlarmsAreMap, Invariance, PTL DEF Spec, PublicationCatchesUp
=============================================================================
