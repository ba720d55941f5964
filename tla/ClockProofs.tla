---------------------------- MODULE ClockProofs -----------------------------
(***************************************************************************)
(* What survives a system clock that is set back or forward: all that      *)
(* Daemon promises but the order of instants.  The invariant of            *)
(* DaemonProofs does without an order as long as a submission records an   *)
(* instant that is new to the alarm, and setting the clock touches nothing *)
(* but the clock.                                                          *)
(***************************************************************************)
EXTENDS ClockSteps, HistoryProofs, PublicationProofs

SteppedNext == [NextWithNewInstant \/ SetClock]_<<vars, clockSteps>>

(* A step is one of Daemon that records a new instant, or sets the clock.  *)
LEMMA StepOrSet ==
    ASSUME TypeOK, SteppedNext
    PROVE  (NewInstant /\ [Next]_vars) \/ SetClock
  <1>1. CASE NextWithNewInstant
    BY <1>1 DEF NextWithNewInstant, NewInstant, NowIsNew, IsNewTo, RepeatsInstant
  <1>2. CASE UNCHANGED vars
    <2>1. clock' = clock /\ clock # Now
      BY <1>2 DEF vars, TypeOK, CacheType, Time, Now
    <2>2. \A input \in Submissions, fails \in BOOLEAN : ~SubmitChanged(input, fails)
      BY <2>1 DEF SubmitChanged, Advance
    <2> QED
      BY <1>2, <2>2 DEF NewInstant
  <1> QED
    BY <1>1, <1>2 DEF SteppedNext, vars

(* Setting the clock.                                                      *)
LEMMA SetClockStep == ASSUME IInv, SetClock PROVE IInv'
  <1>1. ControlType' /\ DatastoreType' /\ ReplyType'
    BY DEF IInv, TypeOK, ControlType, DatastoreType, ReplyType, SetClock, control, validator,
           datastore
  <1>2. clock' \in Time /\ m_alarmListLastChanged' \in Time /\ m_shelfListLastChanged' \in Time
    BY InputAssumption DEF SetClock, Time, IInv, TypeOK, CacheType, cache
  <1>3. /\ IsFiniteSet(DOMAIN m_alarms')
        /\ Coherent(m_alarms', m_edit'.alarm, m_edit'.shelvedAlarm)
    BY DEF SetClock, cache, IInv
  <1>4. HistoryBounded' /\ ShelfMatchesRules'
    BY DEF SetClock, cache, control, IInv, HistoryBounded, ShelfMatchesRules, ShelfFor
  <1> QED
    BY <1>1, <1>2, <1>3, <1>4, CacheStep

LEMMA SteppedInvariance == SteppedSpec => []IInv
  <1>1. IInv /\ SteppedNext => IInv'
    BY StepOrSet, IInvStep, SetClockStep DEF IInv
  <1> QED
    BY <1>1, InitIInv, PTL DEF SteppedSpec, SteppedNext

(* The types, the nodes that purge, compress, reshelve and shrink use      *)
(* without a check, the limit and the shelves do not depend on the clock.  *)
THEOREM CoherentAtAnyClock ==
    SteppedSpec => [](TypeOK /\ EditMirrorsCache /\ HistoryBounded /\ ShelfMatchesRules)
  <1>1. IInv => TypeOK /\ EditMirrorsCache /\ HistoryBounded /\ ShelfMatchesRules
    BY DEF IInv, Coherent, EditMirrorsCache
  <1> QED
    BY <1>1, SteppedInvariance, PTL

(* Nor does what the daemon holds of the configuration and the inventory.  *)
THEOREM SettingsAtAnyClock ==
    SteppedSpec => [](InventoryFresh /\ SettingsFollowRunning /\ ThresholdPresent)
  <1>1. TypeOK /\ InventoryFresh /\ SteppedNext => InventoryFresh'
    <2>1. TypeOK /\ InventoryFresh /\ SetClock => InventoryFresh'
      BY DEF SetClock, InventoryFresh, validator, datastore
    <2> QED
      BY <2>1, FreshStep, StepOrSet
  <1>2. TypeOK /\ Followed /\ SteppedNext => Followed'
    <2>1. Followed /\ SetClock => Followed'
      BY SameFollowed DEF SetClock, control, datastore
    <2> QED
      BY <2>1, FollowedStep, StepOrSet
  <1>3. Init => InventoryFresh
    BY DEF Init, InventoryFresh
  <1>4. IInv => TypeOK
    BY DEF IInv
  <1> QED
    BY <1>1, <1>2, <1>3, <1>4, InitFollowed, FollowedSettings, FollowedThreshold,
       SteppedInvariance, PTL DEF SteppedSpec, SteppedNext

(* The counters equal the published rows and the stamps are no older than  *)
(* any of their changes: updateStatistics() moves a stamp to the latest    *)
(* change even if that is ahead of the clock, and never back.              *)
THEOREM StatisticsAtAnyClock == SteppedSpec => []StatisticsMatchRows
  <1>1. IInv /\ IInv' /\ Right /\ SteppedNext => Right'
    <2>1. ASSUME Right, SetClock PROVE Right'
      <3>1. \A alarms : SameCounts(alarms, alarms)
        BY DEF SameCounts
      <3>2. Counted'
        BY <2>1, <3>1, SameCounted DEF SetClock, cache, Right
      <3> QED
        BY <2>1, <3>2 DEF SetClock, Right, StatisticsShow, Severe, SevereCleared,
                          SevereNotCleared
    <2> QED
      BY <2>1, RightStep, StepOrSet DEF IInv
  <1> QED
    BY <1>1, InitRight, RightMatches, SteppedInvariance, PTL DEF SteppedSpec, SteppedNext

(* The first listed change is the one that made the row what it is, and    *)
(* last-raised the instant of the raise that the list shows, although the  *)
(* list need not be in the order of its timestamps.                        *)
THEOREM HistoriesTellAtAnyClock == SteppedSpec => []HistoryTellsState
  <1> DEFINE Tells == /\ EditTold(FALSE)
                      /\ RowsTold(oper.alarm, oper.shelvedAlarm, FALSE)
  <1>1. Init => Tells
    BY DEF Init, NoRows, EditTold, RowsTold
  <1>2. IInv /\ Tells /\ SteppedNext => Tells'
    <2>1. ASSUME IInv, Tells, NewInstant, [Next]_vars PROVE Tells'
      <3>1. EditTold(FALSE)'
        BY <2>1, EditToldStep
      <3>2. RowsTold(m_edit'.alarm, m_edit'.shelvedAlarm, FALSE)
        BY <3>1 DEF EditTold, RowsTold, Told, HeadTold, RaiseTold, Newest, ClearAt, LastClearAt
      <3>3. oper' = oper \/ oper' = m_edit'
        BY <2>1, KeptOrReplaced
      <3>4. RowsTold(oper'.alarm, oper'.shelvedAlarm, FALSE)
        BY <2>1, <3>2, <3>3
      <3>5. RowsTold(oper.alarm, oper.shelvedAlarm, FALSE)'
        BY <3>4 DEF RowsTold, Told, HeadTold, RaiseTold, Newest, ClearAt, LastClearAt
      <3> QED
        BY <3>1, <3>5
    <2>2. ASSUME Tells, SetClock PROVE Tells'
      <3>1. oper' = oper /\ m_edit' = m_edit
        BY <2>2 DEF SetClock, cache
      <3>2. /\ RowsTold(m_edit'.alarm, m_edit'.shelvedAlarm, FALSE)
            /\ RowsTold(oper'.alarm, oper'.shelvedAlarm, FALSE)
        BY <2>2, <3>1 DEF EditTold
      <3>3. EditTold(FALSE)' /\ RowsTold(oper.alarm, oper.shelvedAlarm, FALSE)'
        BY <3>2 DEF EditTold, RowsTold, Told, HeadTold, RaiseTold, Newest, ClearAt, LastClearAt
      <3> QED
        BY <3>3
    <2> QED
      BY <2>1, <2>2, StepOrSet DEF IInv
  <1>3. TypeOK /\ Tells => HistoryTellsState
    <2> SUFFICES ASSUME TypeOK, Tells, NEW leaves \in PublishedLeaves
                 PROVE  LET list == leaves.statusChange IN
                        /\ list # <<>> => list[1] = Newest(leaves)
                        /\ Clears(list) # {} => leaves.lastRaised = RaiseTime(list)
      BY DEF HistoryTellsState
    <2>1. leaves.statusChange \in Seq(ListedChange)
      BY DEF TypeOK, DatastoreType, RowsType, PublishedLeaves, AlarmRow, ShelvedRow, Leaves
    <2>2. Told(leaves, FALSE)
      BY DEF PublishedLeaves, RowsTold
    <2> QED
      BY <2>1, <2>2, RaiseTimeTold DEF Told, HeadTold
  <1>4. IInv => TypeOK
    BY DEF IInv
  <1> HIDE DEF Tells
  <1> QED
    BY <1>1, <1>2, <1>3, <1>4, SteppedInvariance, PTL DEF SteppedSpec, SteppedNext

(* The order of the instants is lost only when the clock is set back       *)
(* (updateStatusChangeList(), Daemon.cpp:334): if it is set, but never     *)
(* back, the lists are ordered by their timestamps and last-raised is no   *)
(* later than what they show.                                              *)
NeverSetBack == [][clock' >= clock]_<<vars, clockSteps>>

THEOREM OrderedUnlessSetBack ==
    SteppedSpec /\ NeverSetBack =>
        [](OrderedByTimestamps /\ LatestChangeFirst /\ LastRaisedFollowsHistory)
  <1>1. Init => Ordered
    BY DEF Init, Ordered, HistoriesOrdered, NoRows
  <1>2. /\ IInv /\ Ordered /\ SteppedNext /\ [clock' >= clock]_<<vars, clockSteps>>
        => Ordered'
    <2>1. ASSUME IInv, Ordered, SetClock, clock' >= clock PROVE Ordered'
      <3>1. m_alarms' = m_alarms /\ clock \in Nat /\ clock' \in Nat /\ clock <= clock'
            /\ AlarmsType(m_alarms)
        BY <2>1, InputAssumption DEF SetClock, cache, IInv, TypeOK, CacheType, Time
      <3>2. HistoriesOrdered(m_alarms', clock')
        BY <2>1, <3>1, HistoryLater DEF Ordered, HistoriesOrdered, AlarmsType
      <3> QED
        BY <3>2 DEF Ordered, HistoriesOrdered, HistoryOrdered
    <2>2. SetClock => clock' # clock
      BY DEF SetClock
    <2> QED
      BY <2>1, <2>2, StepOrSet, OrderedStep DEF IInv, vars
  <1>3. /\ IInv /\ Ordered /\ IInv' /\ Ordered' /\ PublishedTold /\ SteppedNext
        => PublishedTold'
    <2>1. ASSUME PublishedTold, SetClock PROVE PublishedTold'
      <3>1. oper' = oper /\ m_edit' = m_edit
        BY <2>1 DEF SetClock, cache
      <3>2. RowsTold(m_edit'.alarm, m_edit'.shelvedAlarm, TRUE) /\ AllTold(oper')
        BY <2>1, <3>1 DEF PublishedTold, EditTold
      <3> QED
        BY <3>2 DEF PublishedTold, EditTold, RowsTold, AllTold, Sorted, Told, HeadTold,
                    RaiseTold, Newest, ClearAt, LastClearAt
    <2> QED
      BY <2>1, StepOrSet, PublishedToldStep DEF IInv
  <1>4. PublishedTold => OrderedByTimestamps
    BY PublishedLeavesTold DEF OrderedByTimestamps, Sorted
  <1>5. IInv => TypeOK
    BY DEF IInv
  <1> QED
    BY <1>1, <1>2, <1>3, <1>4, <1>5, InitTold, ToldIsFirst, ToldFollows, SteppedInvariance, PTL
       DEF SteppedSpec, SteppedNext, NeverSetBack
-----------------------------------------------------------------------------
(* What a step may do *)

(* A successful publication brings all that failed ones did not, and Ok    *)
(* means published, whatever the clock does.                               *)
THEOREM PublicationsCatchUpAtAnyClock == SteppedSpec => PublicationCatchesUp
  <1>1. IInv /\ IsMap /\ IInv' /\ SteppedNext
          => [\/ oper' # oper
              \/ m_alarms' # m_alarms /\ reply' # None /\ reply'.code = "Ok"
              => MirrorsAlarms(oper'.alarm, oper'.shelvedAlarm, m_alarms')]_vars
    <2>1. SetClock => oper' = oper /\ m_alarms' = m_alarms
      BY DEF SetClock, cache
    <2> QED
      BY <2>1, CaughtUp, StepOrSet DEF IInv
  <1>2. TypeOK /\ IsMap /\ SteppedNext => IsMap'
    <2>1. IsMap /\ SetClock => IsMap'
      BY DEF SetClock, cache, IsMap, IsFunction
    <2> QED
      BY <2>1, AlarmsAreMap, StepOrSet
  <1>3. IInv => TypeOK
    BY DEF IInv
  <1> QED
    BY <1>1, <1>2, <1>3, AlarmsAreMap, SteppedInvariance, PTL
       DEF SteppedSpec, SteppedNext, PublicationCatchesUp

(* No notification is sent of what is not published.                       *)
THEOREM NotifiedIsPublishedAtAnyClock == SteppedSpec => NotifiedIsPublished
  <1>1. TypeOK /\ SteppedNext =>
          [IsAlarmNotification(notification') =>
             LET k == notification'.key IN
             \/ /\ k \in DOMAIN oper'.alarm
                /\ notification' = StatusChangeNotification(k, oper'.alarm[k].leaves)
             \/ /\ k \in DOMAIN oper'.shelvedAlarm
                /\ notification' =
                     StatusChangeNotification(k, oper'.shelvedAlarm[k].leaves)]_vars
    <2>1. SetClock => ~IsAlarmNotification(notification')
      BY DEF SetClock, IsAlarmNotification
    <2> QED
      BY <2>1, NotifiedStep, StepOrSet DEF Shows
  <1>2. IInv => TypeOK
    BY DEF IInv
  <1> QED
    BY <1>1, <1>2, SteppedInvariance, PTL DEF SteppedSpec, SteppedNext, NotifiedIsPublished

(* As long as publications do not fail, what is published is the edit, and *)
(* on the lists that the running configuration says unless an event about  *)
(* shelving is on its way; with no event on its way at all, the running    *)
(* configuration is in effect.                                             *)
THEOREM PublishedAtAnyClock ==
    ~ApplyMayFail => (SteppedSpec => [](EditPublished /\ ShelvingPublished /\ SettledIsInEffect))
  <1> SUFFICES ASSUME ~ApplyMayFail
                  PROVE SteppedSpec => [](EditPublished /\ ShelvingPublished /\ SettledIsInEffect)
    OBVIOUS
  <1>1. TypeOK /\ InStep /\ SteppedNext => InStep'
    <2>1. InStep /\ SetClock => InStep'
      BY DEF SetClock, InStep, EditPublished, WholeEdit, IsFunction, cache
    <2> QED
      BY <2>1, InStepStep, StepOrSet
  <1>2. TypeOK /\ Followed /\ SteppedNext => Followed'
    <2>1. Followed /\ SetClock => Followed'
      BY SameFollowed DEF SetClock, control, datastore
    <2> QED
      BY <2>1, FollowedStep, StepOrSet
  <1>3. IInv => TypeOK
    BY DEF IInv
  <1>4. InStep => EditPublished
    BY DEF InStep
  <1> QED
    BY <1>1, <1>2, <1>3, <1>4, InitInStep, InitFollowed, FollowedShelving, FollowedSettled,
       SteppedInvariance, PTL DEF SteppedSpec, SteppedNext
=============================================================================
